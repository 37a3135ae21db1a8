-------------------------------- MODULE Render2d -------------------------------
(***************************************************************************)
(* The 2D renderer, util_render2d.c: how draw_2d_texture composes the      *)
(* matrix that takes the corners of a texture to the window.  A matrix is  *)
(* an array of 16 numbers by columns, as in OpenGL.  Numbers are exact     *)
(* here, and a projection is scaled by the window's width and height to    *)
(* keep them whole: points are homogeneous and stay the same.              *)
(***************************************************************************)
EXTENDS Integers, Sequences

CONSTANTS
  Window,        (* sizes of the compositor's window                       *)
  Place, Size,   (* of textures on it                                      *)
  Rotation,      (* of a texture, in quarter turns                         *)
  Pivot          (* about which it turns                                   *)

ASSUME RenderAssumption ==
  /\ Window \subseteq (Nat \ {0}) \X (Nat \ {0})
  /\ Place \subseteq Int \X Int /\ Size \subseteq Int \X Int /\ Pivot \subseteq Int \X Int
  /\ Rotation \subseteq 0..3

VARIABLES
  window,        (* the size given to init_2d_renderer                     *)
  compiled,      (* whether the shaders are                                *)
  mem,           (* s_matprj and matrix                                    *)
  uv,            (* the texture coordinates of the corners                 *)
  tparam,        (* of the draw                                            *)
  pc             (* its next step                                          *)

renderVars == <<window, compiled, mem, uv, tparam, pc>>

Cell == 0..15
Zero == [i \in Cell |-> 0]
varray == <<<<0, 0>>, <<0, 1>>, <<1, 0>>, <<1, 1>>>>
RENDER2D_FLIP_V == 1
RENDER2D_FLIP_H == 2

Param == [at : Place, size : Size, rot : Rotation, pivot : Pivot, upsidedown : 0..3]
NoDraw == [at |-> <<0, 0>>, size |-> <<0, 0>>, rot |-> 0, pivot |-> <<0, 0>>, upsidedown |-> 0]

--------------------------------------------------------------------------------
(* Matrices.                                                               *)

matrix_identity == [i \in Cell |-> IF i % 5 = 0 THEN 1 ELSE 0]

TranslateAnew(m, x, y, z) ==
  [i \in Cell |-> IF i < 12 THEN m[i] ELSE m[i - 4] * z + m[i - 8] * y + m[i - 12] * x]
matrix_translate(m, x, y, z) ==
  [i \in Cell |-> IF i < 12 THEN m[i] ELSE m[i] + m[i - 4] * z + m[i - 8] * y + m[i - 12] * x]

matrix_scale(m, x, y, z) == [i \in Cell |-> m[i] * <<x, y, z, 1>>[i \div 4 + 1]]

turn_z(m, cosA, sinA) ==
  [i \in Cell |-> IF i \in 0..3 THEN sinA * m[i + 4] + cosA * m[i]
                  ELSE IF i \in 4..7 THEN cosA * m[i] - sinA * m[i - 4] ELSE m[i]]

(* matrix_rotate about the z-axis, the only one asked for.                 *)
matrix_rotate(m, quarters) == turn_z(m, <<1, 0, -1, 0>>[quarters + 1], <<0, 1, 0, -1>>[quarters + 1])

(* matrix_mult(m, m1, m2), where m may be m1 or m2: m2 is loaded at first, *)
(* and each row of m1 before the row above it is written.                  *)
RowTimes(row, m2, col) ==
  row[1] * m2[4 * col] + row[2] * m2[4 * col + 1] + row[3] * m2[4 * col + 2] + row[4] * m2[4 * col + 3]
Row(m, r) == <<m[r], m[r + 4], m[r + 8], m[r + 12]>>
Written(memory, m, row, r, m2) ==
  [memory EXCEPT ![m] = [i \in Cell |-> IF i % 4 = r THEN RowTimes(row, m2, i \div 4) ELSE @[i]]]

matrix_mult(memory, m, m1, m2) ==
  LET row0 == Written(memory, m, Row(memory[m1], 0), 0, memory[m2])
      row1 == Written(row0, m, Row(memory[m1], 1), 1, memory[m2])
      row2 == Written(row1, m, Row(row0[m1], 2), 2, memory[m2])
  IN  Written(row2, m, Row(row1[m1], 3), 3, memory[m2])

(* 2 / w, -2 / h, -1, 1 and 1, by w * h.                                   *)
Projection(w, h) ==
  [Zero EXCEPT ![0] = 2 * h, ![5] = -2 * w, ![12] = -w * h, ![13] = w * h, ![15] = w * h]

flip_texcoord(coords, mode) ==
  [k \in DOMAIN coords |->
     <<IF (mode \div RENDER2D_FLIP_H) % 2 = 1 THEN 1 - coords[k][1] ELSE coords[k][1],
       IF (mode \div RENDER2D_FLIP_V) % 2 = 1 THEN 1 - coords[k][2] ELSE coords[k][2]>>]

--------------------------------------------------------------------------------
(* The matrix of a draw is not initialised; s_matprj is zero.              *)
RenderInit ==
  /\ window \in Window /\ compiled = FALSE
  /\ \E junk \in {0, 7} : mem = [s_matprj |-> Zero, matrix |-> [i \in Cell |-> junk]]
  /\ uv = varray /\ tparam = NoDraw /\ pc = "init"

(* init_2d_renderer leaves the projection zero when a shader does not      *)
(* compile; main() goes on all the same.                                   *)
init_2d_renderer ==
  /\ pc = "init" /\ pc' = "ready" /\ compiled' \in BOOLEAN
  /\ mem' = IF compiled' THEN [mem EXCEPT !.s_matprj = Projection(window[1], window[2])] ELSE mem
  /\ UNCHANGED <<window, uv, tparam>>

(* draw_2d_texture_in, for any texparam_t: draw_2d_texture, its caller,    *)
(* asks for no rotation, and main() for no flip.                           *)
BeginDraw ==
  /\ pc \in {"ready", "drawn"} /\ pc' = "identity"
  /\ \E p \in Param : tparam' = p /\ uv' = flip_texcoord(varray, p.upsidedown)
  /\ UNCHANGED <<window, compiled, mem>>

Step(at, to, matrix) ==
  /\ pc = at /\ pc' = to /\ mem' = [mem EXCEPT !.matrix = matrix]
  /\ UNCHANGED <<window, compiled, uv, tparam>>

(* The steps about the pivot are only for a rotation.                      *)
Compose ==
  LET m == mem.matrix  t == tparam IN
  \/ Step("identity", "translate", matrix_identity)
  \/ Step("translate", IF t.rot # 0 THEN "pivot" ELSE "scale",
          matrix_translate(m, t.at[1], t.at[2], 0))
  \/ Step("pivot", "rotate", matrix_translate(m, t.pivot[1], t.pivot[2], 0))
  \/ Step("rotate", "unpivot", matrix_rotate(m, t.rot))
  \/ Step("unpivot", "scale", matrix_translate(m, -t.pivot[1], -t.pivot[2], 0))
  \/ Step("scale", "mult", matrix_scale(m, t.size[1], t.size[2], 1))
  \/ Step("mult", "drawn", matrix_mult(mem, "matrix", "s_matprj", "matrix").matrix)

RenderNext == init_2d_renderer \/ BeginDraw \/ Compose
RenderSpec == RenderInit /\ [][RenderNext]_renderVars

--------------------------------------------------------------------------------
(* What a viewer expects: a corner's place on the window in pixels from    *)
(* the top left, y growing downwards, as the pointer's position is given.  *)
Turned(p, quarters) ==
  CASE quarters = 0 -> p
    [] quarters = 1 -> <<-p[2], p[1]>>
    [] quarters = 2 -> <<-p[1], -p[2]>>
    [] quarters = 3 -> <<p[2], -p[1]>>

Expected(t, corner) ==
  LET offset == <<corner[1] * t.size[1], corner[2] * t.size[2]>>
      turned == Turned(<<offset[1] - t.pivot[1], offset[2] - t.pivot[2]>>, t.rot)
  IN <<t.at[1] + t.pivot[1] + turned[1], t.at[2] + t.pivot[2] + turned[2]>>

(* The viewport shows clip coordinates x, y and w at                       *)
(* ((x / w + 1) * width / 2, (1 - y / w) * height / 2).                    *)
Clip(m, corner, r) == m[r] * corner[1] + m[r + 4] * corner[2] + m[r + 12]

ShownAt(m, corner, spot) ==
  LET x == Clip(m, corner, 0)  y == Clip(m, corner, 1)  w == Clip(m, corner, 3)
  IN /\ w # 0
     /\ (w + x) * window[1] = 2 * w * spot[1]
     /\ (w - y) * window[2] = 2 * w * spot[2]

(* Each corner of the texture is where it should be on the window, whatever*)
(* was in the matrix before, and has its own texture coordinates or those  *)
(* of the corner it is flipped with.  So a pixel of a client is drawn      *)
(* where the pointer has to be to point at it.                             *)
PixelsPlaced ==
  pc = "drawn" /\ compiled =>
    \A k \in DOMAIN varray :
      /\ ShownAt(mem.matrix, varray[k], Expected(tparam, varray[k]))
      /\ (uv[k][1] = varray[k][1]) <=> (tparam.upsidedown < RENDER2D_FLIP_H)
      /\ (uv[k][2] = varray[k][2]) <=> (tparam.upsidedown % 2 = 0)
================================================================================
