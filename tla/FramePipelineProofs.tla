-------------------------- MODULE FramePipelineProofs --------------------------
(***************************************************************************)
(* Theorems about FramePipeline, for any set of surfaces, buffers and      *)
(* texture names and any bounds, and about Render2d, with which main()     *)
(* draws the textures, for any window, places, sizes and pivots.  The two  *)
(* share no variable and no definition.                                    *)
(***************************************************************************)
EXTENDS FramePipeline, Render2d, FiniteSetTheorems, TLAPS

--------------------------------------------------------------------------------
(* Type correctness.                                                       *)

(* (i + 1) % 2 is the other one of two textures.                           *)
LEMMA OtherTexture == \A i \in Plane : NextTex(i) \in Plane /\ NextTex(i) = 1 - i
<1>1. NextTex(0) = 1 /\ NextTex(1) = 0
    BY DEF NextTex
<1> QED
    BY <1>1 DEF Plane

(* No step takes an index out of its array or a variable out of its type.  *)
LEMMA TypeStep == TypeOK /\ [Next]_vars => TypeOK'
<1> SUFFICES ASSUME TypeOK, [Next]_vars PROVE TypeOK'
    OBVIOUS
<1> USE DEF TypeOK, Plane, PixelValue, TEX_FREE, TEX_WRITING, TEX_COMPLETE
<1>1. ASSUME NEW s \in Surface, CreateSurface(s) PROVE TypeOK'
    BY <1>1 DEF CreateSurface, bufferVars, textureVars, fenceVars, callbackVars, loopVars,
                clientVars
<1>2. ASSUME NEW s \in Surface, GetShellSurface(s) PROVE TypeOK'
    BY <1>2 DEF GetShellSurface, Serving, bufferVars, textureVars, fenceVars, callbackVars,
                loopVars, clientVars
<1>3. ASSUME NEW s \in Surface, NEW b \in Buffer \union {NULL}, SurfaceAttach(s, b)
      PROVE  TypeOK'
    BY <1>3 DEF SurfaceAttach, textureVars, fenceVars, callbackVars, loopVars
<1>4. ASSUME NEW s \in Surface, SurfaceFrame(s) PROVE TypeOK'
    BY <1>4 DEF SurfaceFrame, bufferVars, textureVars, fenceVars, loopVars, clientVars
<1>5. ASSUME NEW s \in Surface, SurfaceCommit(s) PROVE TypeOK'
  <2>1. /\ frame_callback_list' \in [Surface -> Seq(Nat)]
        /\ pending_frame_callback_list' \in [Surface -> Seq(Nat)]
        /\ requested' = requested /\ done' = done
      BY <1>5 DEF SurfaceCommit, CommitCallbacks, SplicedList
  <2>2. /\ content' \in [Surface -> Buffer \union {NULL}]
        /\ attached' \in [Surface -> BOOLEAN]
        /\ held' \in [Surface -> SUBSET Buffer] /\ dead' = dead
      BY <1>5 DEF SurfaceCommit, CommitContent
  <2>3. /\ texid' \in [Surface -> [Plane -> TexName \union {0}]]
        /\ image' \in [Surface -> [Plane -> Buffer \union {NULL}]]
        /\ img_size' \in [Surface -> Buffer \union {NULL}]
        /\ status' \in [Surface -> [Plane -> {TEX_FREE, TEX_WRITING, TEX_COMPLETE}]]
        /\ glsyncobj_tex' \in [Surface -> {"none", "pending", "signaled"}]
        /\ ahead' \in [Surface -> SUBSET Surface]
    <3>1. CASE Uploads(s)
      <4>1. Upload(s)
          BY <1>5, <3>1 DEF SurfaceCommit
      <4>2. texid' \in [Surface -> [Plane -> TexName \union {0}]]
        <5>1. CASE texid[s][0] # 0
            BY <4>1, <5>1 DEF Upload, FenceCreated, GenTextures
        <5>2. CASE texid[s][0] = 0
          <6>1. PICK n0 \in TexName, n1 \in TexName :
                  texid' = [texid EXCEPT ![s] = [i \in Plane |-> IF i = 0 THEN n0 ELSE n1]]
              BY <4>1, <5>2 DEF Upload, FenceCreated, GenTextures
          <6>2. [i \in Plane |-> IF i = 0 THEN n0 ELSE n1] \in [Plane -> TexName \union {0}]
              OBVIOUS
          <6> QED
              BY <6>1, <6>2
        <5> QED
            BY <5>1, <5>2
      <4> QED
          BY <4>1, <4>2 DEF Upload, FenceCreated
    <3>2. CASE ~Uploads(s)
        BY <1>5, <3>2 DEF SurfaceCommit, SkipUpload, fenceVars
    <3> QED
        BY <3>1, <3>2
  <2> QED
      BY <1>5, <2>1, <2>2, <2>3 DEF SurfaceCommit, bufferVars, loopVars
<1>6. ASSUME NEW s \in Surface, NEW b \in Buffer, BufferDestroy(s, b) PROVE TypeOK'
    BY <1>6 DEF BufferDestroy, bufferVars, textureVars, fenceVars, callbackVars, loopVars
<1>7. ASSUME NEW s \in Surface, Disconnect(s) PROVE TypeOK'
    BY <1>7 DEF Disconnect, loopVars
<1>8. ASSUME HandleSignal PROVE TypeOK'
    BY <1>8 DEF HandleSignal, bufferVars, textureVars, fenceVars, callbackVars, clientVars
<1>9. ASSUME NEW s \in Surface, GpuSignal(s) PROVE TypeOK'
    BY <1>9 DEF GpuSignal, bufferVars, textureVars, callbackVars, loopVars, clientVars
<1>10. ASSUME DispatchReturns PROVE TypeOK'
    BY <1>10 DEF DispatchReturns, bufferVars, textureVars, fenceVars, callbackVars, clientVars
<1>11. ASSUME HasUpdatedTex PROVE TypeOK'
  <2>1. /\ done' \in [Surface -> Seq(Nat)]
        /\ frame_callback_list' \in [Surface -> Seq(Nat)]
    <3>1. \A s \in Surface : done[s] \o Fired(s) \in Seq(Nat) /\ <<>> \in Seq(Nat)
        BY DEF Fired
    <3>2. done' = [s \in Surface |-> IF s \in Ready THEN done[s] \o Fired(s) ELSE done[s]]
        BY <1>11 DEF HasUpdatedTex
    <3>3. frame_callback_list' =
            [s \in Surface |-> IF s \in Ready THEN <<>> ELSE frame_callback_list[s]]
        BY <1>11 DEF HasUpdatedTex
    <3> HIDE DEF Ready, Fired
    <3> QED
        BY <3>1, <3>2, <3>3
  <2>2. \A s \in Surface : NextTex(current_tex_index[s]) \in Plane
      BY OtherTexture
  <2>3. \A s \in Surface :
          FlippedStatus(s) \in [Plane -> {TEX_FREE, TEX_WRITING, TEX_COMPLETE}]
      BY DEF FlippedStatus
  <2> QED
    <3>1. /\ status' \in [Surface -> [Plane -> {TEX_FREE, TEX_WRITING, TEX_COMPLETE}]]
          /\ current_tex_index' \in [Surface -> Plane]
        BY <1>11, <2>2, <2>3 DEF HasUpdatedTex
    <3>2. /\ updated_tex_index' \in [Surface -> Plane \union {-1}]
          /\ glsyncobj_tex' \in [Surface -> {"none", "pending", "signaled"}]
        BY <1>11 DEF HasUpdatedTex
    <3>3. /\ held' \in [Surface -> SUBSET Buffer]
          /\ wl_used_buffer' \in [Surface -> Buffer \union {NULL}]
        BY <1>11 DEF HasUpdatedTex, NextUsed
    <3> QED
        BY <1>11, <2>1, <3>1, <3>2, <3>3 DEF HasUpdatedTex
<1>12. ASSUME Redraw PROVE TypeOK'
  <2>1. ASSUME NEW s \in Surface PROVE Drawn(s) \in PixelValue \X PixelValue
    <3>1. updated_tex_index[s] \in Plane => image[s][updated_tex_index[s]] \in PixelValue
        OBVIOUS
    <3>2. img_size[s] \in PixelValue /\ Nothing \in PixelValue \X PixelValue
        BY DEF Nothing
    <3>3. updated_tex_index[s] \in Plane \/ updated_tex_index[s] = -1
        OBVIOUS
    <3> HIDE DEF Plane
    <3> QED
        BY <3>1, <3>2, <3>3 DEF Drawn
  <2>2. screen' \in [Surface -> PixelValue \X PixelValue] /\ ret' \in {0, -1}
      BY <1>12, <2>1 DEF Redraw, UpdateSurfaces
  <2>3. csfc_num \in Nat
    <3>1. IsFiniteSet(listed)
        BY SurfaceAssumption, FS_Subset
    <3> QED
        BY <3>1, FS_CardinalityType DEF csfc_num
  <2> QED
      BY <1>12, <2>2, <2>3
      DEF Redraw, bufferVars, textureVars, fenceVars, callbackVars, clientVars
<1>13. ASSUME Drained PROVE TypeOK'
    BY <1>13 DEF Drained, bufferVars, textureVars, fenceVars, callbackVars, clientVars
<1>14. CASE UNCHANGED vars
    BY <1>14 DEF vars, bufferVars, textureVars, fenceVars, callbackVars, loopVars, clientVars
<1> QED
    BY <1>1, <1>2, <1>3, <1>4, <1>5, <1>6, <1>7, <1>8, <1>9, <1>10, <1>11, <1>12, <1>13, <1>14
    DEF Next, Request, MainLoop

(* The variables keep their types: in particular current_tex_index and     *)
(* updated_tex_index never leave the two-element arrays they subscript.    *)
THEOREM TypeCorrect == Spec => []TypeOK
<1>1. Init => TypeOK
    BY DEF Init, TypeOK, Plane, PixelValue, Nothing, TEX_FREE, TEX_WRITING, TEX_COMPLETE
<1> QED
    BY <1>1, TypeStep, PTL DEF Spec

--------------------------------------------------------------------------------
(* The two textures of a surface.                                          *)

(* The inductive invariant: the two properties of the textures, and the    *)
(* types they need.                                                        *)
TextureInv == TypeOK /\ DoubleBuffered /\ SizeOfLastUpload

(* Only a commit that uploads, a completed upload, the GPU and the client's *)
(* departure touch what the invariant is about.                            *)
LEMMA TextureInvStep == TextureInv /\ [Next]_vars => TextureInv'
<1> SUFFICES ASSUME TextureInv, [Next]_vars PROVE TextureInv'
    OBVIOUS
<1>0. TypeOK /\ TypeOK'
    BY TypeStep DEF TextureInv
<1> DEFINE Frame == <<status, current_tex_index, updated_tex_index, image, img_size,
                      glsyncobj_tex>>
           Inv == DoubleBuffered /\ SizeOfLastUpload
<1>1. ASSUME UNCHANGED Frame PROVE Inv'
    BY <1>1 DEF TextureInv, DoubleBuffered, SizeOfLastUpload, Writing
<1>2. ASSUME NEW s \in Surface, SurfaceCommit(s) PROVE Inv'
  <2>1. CASE Uploads(s)
    <3>1. /\ image' = [image EXCEPT ![s][current_tex_index[s]] = wl_buffer[s]]
          /\ img_size' = [img_size EXCEPT ![s] = wl_buffer[s]]
          /\ status' = [status EXCEPT ![s][current_tex_index[s]] = TEX_WRITING]
          /\ glsyncobj_tex' = [glsyncobj_tex EXCEPT ![s] = "pending"]
          /\ UNCHANGED <<current_tex_index, updated_tex_index>>
        BY <1>2, <2>1 DEF SurfaceCommit, Upload, FenceCreated
    <3>2. status[s][current_tex_index[s]] = TEX_FREE
        BY <2>1 DEF Uploads
    <3>3. ASSUME NEW t \in Surface, t # s
          PROVE  /\ image'[t] = image[t] /\ img_size'[t] = img_size[t]
                 /\ status'[t] = status[t] /\ glsyncobj_tex'[t] = glsyncobj_tex[t]
        BY <1>0, <3>1, <3>3 DEF TypeOK
    <3>4. /\ image'[s][current_tex_index[s]] = wl_buffer[s]
          /\ img_size'[s] = wl_buffer[s]
          /\ status'[s][current_tex_index[s]] = TEX_WRITING
          /\ status'[s][1 - current_tex_index[s]] = status[s][1 - current_tex_index[s]]
          /\ glsyncobj_tex'[s] = "pending"
        BY <1>0, <3>1 DEF TypeOK, Plane
    <3>5. DoubleBuffered'
      <4>1. /\ current_tex_index' = current_tex_index /\ updated_tex_index' = updated_tex_index
            /\ current_tex_index[s] \in {0, 1} /\ updated_tex_index[s] \in {-1, 0, 1}
          BY <1>0, <3>1 DEF TypeOK, Plane
      <4>2. IF updated_tex_index[s] = -1
            THEN current_tex_index[s] = 0 /\ status[s][1] = TEX_FREE
            ELSE /\ current_tex_index[s] = 1 - updated_tex_index[s]
                 /\ status[s][updated_tex_index[s]] = TEX_COMPLETE
          BY DEF TextureInv, DoubleBuffered
      <4>3. IF updated_tex_index[s] = -1
            THEN current_tex_index[s] = 0 /\ status'[s][1] = TEX_FREE
            ELSE /\ current_tex_index[s] = 1 - updated_tex_index[s]
                 /\ status'[s][updated_tex_index[s]] = TEX_COMPLETE
          BY <3>4, <4>1, <4>2
      <4> QED
          BY <3>3, <3>4, <4>1, <4>3
          DEF TextureInv, DoubleBuffered, TEX_FREE, TEX_WRITING, TEX_COMPLETE
    <3>6. SizeOfLastUpload'
      <4>1. /\ current_tex_index' = current_tex_index /\ updated_tex_index' = updated_tex_index
            /\ SizeOfLastUpload
          BY <3>1 DEF TextureInv
      <4> QED
          BY <3>3, <3>4, <4>1 DEF SizeOfLastUpload, Writing
    <3> QED
        BY <3>5, <3>6
  <2>2. CASE ~Uploads(s)
      BY <1>1, <1>2, <2>2 DEF SurfaceCommit, SkipUpload, fenceVars
  <2> QED
      BY <2>1, <2>2
<1>3. ASSUME NEW s \in Surface, Disconnect(s) PROVE Inv'
    BY <1>0, <1>3
    DEF Disconnect, TextureInv, TypeOK, DoubleBuffered, SizeOfLastUpload, Writing, Plane,
        TEX_FREE, TEX_WRITING, TEX_COMPLETE
<1>4. ASSUME NEW s \in Surface, GpuSignal(s) PROVE Inv'
  <2>1. /\ UNCHANGED <<status, current_tex_index, updated_tex_index, image, img_size>>
        /\ glsyncobj_tex[s] = "pending"
        /\ glsyncobj_tex' = [glsyncobj_tex EXCEPT ![s] = "signaled"]
      BY <1>4 DEF GpuSignal, textureVars
  <2> QED
      BY <1>0, <2>1 DEF TextureInv, TypeOK, DoubleBuffered, SizeOfLastUpload, Writing
<1>5. ASSUME HasUpdatedTex PROVE Inv'
  <2>1. ASSUME NEW s \in Surface, s \notin Ready
        PROVE  /\ status'[s] = status[s]
               /\ current_tex_index'[s] = current_tex_index[s]
               /\ updated_tex_index'[s] = updated_tex_index[s]
               /\ glsyncobj_tex'[s] = glsyncobj_tex[s]
               /\ image' = image /\ img_size' = img_size
      BY <1>5, <2>1 DEF HasUpdatedTex
  <2>2. ASSUME NEW s \in Surface, s \in Ready
        PROVE  /\ status'[s] = FlippedStatus(s)
               /\ current_tex_index'[s] = 1 - current_tex_index[s]
               /\ updated_tex_index'[s] = current_tex_index[s]
               /\ glsyncobj_tex'[s] = "none"
               /\ image' = image /\ img_size' = img_size
               /\ Writing(s)
      BY <1>0, <1>5, <2>2, OtherTexture DEF HasUpdatedTex, TypeOK, Ready
  <2>3. ASSUME NEW s \in Surface, s \in Ready
        PROVE  /\ status'[s][current_tex_index[s]] = TEX_COMPLETE
               /\ status'[s][1 - current_tex_index[s]] = TEX_FREE
      BY <1>0, <2>2, <2>3 DEF FlippedStatus, TypeOK, Plane
  <2> DEFINE Flip(t) == LET cur == current_tex_index[t]  upd == updated_tex_index[t] IN
               /\ (glsyncobj_tex[t] # "none") <=> (status[t][cur] = TEX_WRITING)
               /\ status[t][cur] # TEX_COMPLETE
               /\ IF upd = -1 THEN cur = 0 /\ status[t][1] = TEX_FREE
                  ELSE cur = 1 - upd /\ status[t][upd] = TEX_COMPLETE
             SizeIs(t) == LET cur == current_tex_index[t]  upd == updated_tex_index[t] IN
               IF Writing(t) THEN img_size[t] = image[t][cur]
               ELSE upd # -1 => img_size[t] = image[t][upd]
  <2>4. ASSUME NEW t \in Surface PROVE Flip(t)' /\ SizeIs(t)'
    <3>1. CASE t \notin Ready
        BY <2>1, <3>1 DEF TextureInv, DoubleBuffered, SizeOfLastUpload, Writing
    <3>2. CASE t \in Ready
      <4>1. /\ img_size[t] = image[t][current_tex_index[t]]
            /\ current_tex_index[t] \in {0, 1}
          BY <1>0, <2>2, <3>2 DEF TextureInv, SizeOfLastUpload, TypeOK, Plane
      <4> QED
          BY <2>2, <2>3, <3>2, <4>1 DEF Writing, TEX_FREE, TEX_WRITING, TEX_COMPLETE
    <3> QED
        BY <3>1, <3>2
  <2> QED
      BY <2>4 DEF DoubleBuffered, SizeOfLastUpload
<1>6. ASSUME UNCHANGED vars PROVE Inv'
    BY <1>1, <1>6 DEF vars, textureVars, fenceVars
<1>7. ASSUME NEW s \in Surface, Request(s) PROVE Inv'
    BY <1>1, <1>2, <1>3, <1>7
    DEF Request, CreateSurface, GetShellSurface, SurfaceAttach, SurfaceFrame, BufferDestroy,
        textureVars, fenceVars
<1>8. ASSUME HandleSignal \/ MainLoop PROVE Inv'
    BY <1>1, <1>5, <1>8
    DEF HandleSignal, MainLoop, DispatchReturns, Redraw, Drained, textureVars, fenceVars
<1> QED
    BY <1>0, <1>4, <1>6, <1>7, <1>8 DEF TextureInv, Next

LEMMA TextureInvariant == Spec => []TextureInv
<1>1. Init => TextureInv
    BY DEF Init, TextureInv, TypeOK, DoubleBuffered, SizeOfLastUpload, Writing, Plane,
           PixelValue, Nothing, TEX_FREE, TEX_WRITING, TEX_COMPLETE
<1> QED
    BY <1>1, TextureInvStep, PTL DEF Spec

(* The texture on display is complete and is not the one the next upload   *)
(* writes; a fence is outstanding exactly while an upload is in flight.    *)
THEOREM DoubleBuffering == Spec => []DoubleBuffered
<1>1. TextureInv => DoubleBuffered
    BY DEF TextureInv
<1> QED
    BY <1>1, TextureInvariant, PTL

(* img_w and img_h always belong to the buffer uploaded last.              *)
THEOREM SizeIsLastUpload == Spec => []SizeOfLastUpload
<1>1. TextureInv => SizeOfLastUpload
    BY DEF TextureInv
<1> QED
    BY <1>1, TextureInvariant, PTL

(* A texture that is drawn, or that the GPU is filling, keeps its pixels.  *)
THEOREM StableTextures == Spec => TexturesStable
<1> DEFINE Stable == \A s \in alive \intersect alive' : \A i \in InUse(s) : image'[s][i] = image[s][i]
<1>1. TextureInv /\ [Next]_vars => [Stable]_vars
  <2> SUFFICES ASSUME TextureInv, [Next]_vars PROVE Stable
      OBVIOUS
  <2>0. TypeOK
      BY DEF TextureInv
  <2>1. ASSUME NEW s \in Surface, SurfaceCommit(s), Uploads(s) PROVE Stable
    <3>1. /\ image' = [image EXCEPT ![s][current_tex_index[s]] = wl_buffer[s]]
          /\ status[s][current_tex_index[s]] = TEX_FREE
        BY <2>1 DEF SurfaceCommit, Upload, FenceCreated, Uploads
    <3>2. current_tex_index[s] \notin InUse(s)
        BY <2>0, <3>1
        DEF InUse, TextureInv, DoubleBuffered, TypeOK, Plane, TEX_FREE, TEX_WRITING, TEX_COMPLETE
    <3>3. ASSUME NEW t \in Surface, NEW i \in Plane, t # s \/ i # current_tex_index[s]
          PROVE  image'[t][i] = image[t][i]
        BY <2>0, <3>1, <3>3 DEF TypeOK
    <3> QED
        BY <2>0, <3>2, <3>3 DEF TypeOK, InUse
  <2>2. ASSUME NEW s \in Surface, Disconnect(s) PROVE Stable
      BY <2>0, <2>2 DEF Disconnect, TypeOK
  <2>3. ASSUME UNCHANGED image PROVE Stable
      BY <2>3
  <2>4. ASSUME NEW s \in Surface, Request(s) PROVE Stable
      BY <2>1, <2>2, <2>3, <2>4
      DEF Request, CreateSurface, GetShellSurface, SurfaceAttach, SurfaceFrame, SurfaceCommit,
          SkipUpload, BufferDestroy, textureVars
  <2>5. ASSUME NEW s \in Surface, GpuSignal(s) PROVE Stable
      BY <2>3, <2>5 DEF GpuSignal, textureVars
  <2>6. ASSUME HandleSignal \/ MainLoop PROVE Stable
      BY <2>3, <2>6
      DEF HandleSignal, MainLoop, DispatchReturns, HasUpdatedTex, Redraw, Drained, textureVars
  <2>7. ASSUME UNCHANGED vars PROVE Stable
      BY <2>3, <2>7 DEF vars, textureVars
  <2> QED
      BY <2>4, <2>5, <2>6, <2>7 DEF Next
<1>2. TexturesStable <=> [][Stable]_vars
    BY DEF TexturesStable
<1> QED
    BY <1>1, <1>2, TextureInvariant, PTL DEF Spec

--------------------------------------------------------------------------------
(* The frame callbacks.                                                    *)

LEMMA ElemsConcat ==
  ASSUME NEW p \in Seq(Nat), NEW q \in Seq(Nat)
  PROVE  Elems(p \o q) = Elems(p) \union Elems(q)
<1>1. ASSUME NEW x \in Elems(p \o q) PROVE x \in Elems(p) \union Elems(q)
    BY DEF Elems
<1>2. ASSUME NEW i \in DOMAIN p PROVE p[i] \in Elems(p \o q)
  <2>1. i \in DOMAIN (p \o q) /\ (p \o q)[i] = p[i]
      OBVIOUS
  <2> QED
      BY <2>1 DEF Elems
<1>3. ASSUME NEW i \in DOMAIN q PROVE q[i] \in Elems(p \o q)
  <2>1. Len(p) + i \in DOMAIN (p \o q) /\ (p \o q)[Len(p) + i] = q[i]
      OBVIOUS
  <2> QED
      BY <2>1 DEF Elems
<1> QED
    BY <1>1, <1>2, <1>3 DEF Elems

LEMMA ElemsAppend ==
  ASSUME NEW p \in Seq(Nat), NEW n \in Nat
  PROVE  Elems(Append(p, n)) = Elems(p) \union {n}
<1>1. ASSUME NEW x \in Elems(Append(p, n)) PROVE x \in Elems(p) \union {n}
    BY DEF Elems
<1>2. ASSUME NEW i \in DOMAIN p PROVE p[i] \in Elems(Append(p, n))
  <2>1. i \in DOMAIN Append(p, n) /\ Append(p, n)[i] = p[i]
      OBVIOUS
  <2> QED
      BY <2>1 DEF Elems
<1>3. n \in Elems(Append(p, n))
  <2>1. Len(p) + 1 \in DOMAIN Append(p, n) /\ Append(p, n)[Len(p) + 1] = n
      OBVIOUS
  <2> QED
      BY <2>1 DEF Elems
<1> QED
    BY <1>1, <1>2, <1>3 DEF Elems

LEMMA ElemsEmpty == Elems(<<>>) = {}
BY DEF Elems

(* What CallbacksConserved says of one surface, and the three ways in      *)
(* which its lists change.                                                 *)
Conserved(p, c, d, n) ==
  /\ p \in Seq(Nat) /\ c \in Seq(Nat) /\ d \in Seq(Nat) /\ n \in Nat
  /\ Elems(p) \union Elems(c) \union Elems(d) = 1..n
  /\ Len(p) + Len(c) + Len(d) = n

LEMMA ConservedChanges ==
  ASSUME NEW p, NEW c, NEW d, NEW n, Conserved(p, c, d, n)
  PROVE  /\ Conserved(Append(p, n + 1), c, d, n + 1)
         /\ Conserved(<<>>, p \o c, d, n)
         /\ Conserved(p, <<>>, d \o c, n)
         /\ Conserved(<<>>, <<>>, <<>>, 0)
<1>0. /\ p \in Seq(Nat) /\ c \in Seq(Nat) /\ d \in Seq(Nat) /\ n \in Nat
      /\ Elems(p) \union Elems(c) \union Elems(d) = 1..n
      /\ Len(p) + Len(c) + Len(d) = n
    BY DEF Conserved
<1>1. Conserved(Append(p, n + 1), c, d, n + 1)
  <2>1. 1..(n + 1) = 1..n \union {n + 1}
      BY <1>0
  <2>2. Elems(Append(p, n + 1)) = Elems(p) \union {n + 1}
      BY <1>0, ElemsAppend
  <2>3. Elems(Append(p, n + 1)) \union Elems(c) \union Elems(d) = 1..(n + 1)
      BY <1>0, <2>1, <2>2, Zenon
  <2>4. Append(p, n + 1) \in Seq(Nat) /\ Len(Append(p, n + 1)) = Len(p) + 1
      BY <1>0
  <2>6. Len(Append(p, n + 1)) + Len(c) + Len(d) = n + 1
    <3> DEFINE i == Len(p)  j == Len(c)  k == Len(d)
    <3>1. i \in Nat /\ j \in Nat /\ k \in Nat /\ i + j + k = n
        BY <1>0
    <3> HIDE DEF i, j, k
    <3>2. (i + 1) + j + k = n + 1
        BY <3>1
    <3>3. Len(Append(p, n + 1)) = i + 1
        BY <2>4 DEF i
    <3> QED
        BY <3>2, <3>3, Zenon DEF j, k
  <2> QED
      BY <1>0, <2>3, <2>4, <2>6 DEF Conserved
<1>2. Conserved(<<>>, p \o c, d, n)
  <2>1. Elems(p \o c) = Elems(p) \union Elems(c)
      BY <1>0, ElemsConcat
  <2>2. Elems(<<>>) \union Elems(p \o c) \union Elems(d) = 1..n
      BY <1>0, <2>1, ElemsEmpty, Zenon
  <2>3. p \o c \in Seq(Nat) /\ Len(p \o c) = Len(p) + Len(c)
      BY <1>0
  <2>4. Len(p) \in Nat /\ Len(c) \in Nat /\ Len(d) \in Nat /\ Len(<<>>) = 0
      BY <1>0
  <2>5. Len(<<>>) + Len(p \o c) + Len(d) = n
      BY <1>0, <2>3, <2>4
  <2>6. <<>> \in Seq(Nat)
      OBVIOUS
  <2> QED
      BY <1>0, <2>2, <2>3, <2>5, <2>6 DEF Conserved
<1>3. Conserved(p, <<>>, d \o c, n)
  <2>1. Elems(d \o c) = Elems(d) \union Elems(c)
      BY <1>0, ElemsConcat
  <2>2. Elems(p) \union Elems(<<>>) \union Elems(d \o c) = 1..n
      BY <1>0, <2>1, ElemsEmpty, Zenon
  <2>3. d \o c \in Seq(Nat) /\ Len(d \o c) = Len(d) + Len(c)
      BY <1>0
  <2>4. Len(p) \in Nat /\ Len(c) \in Nat /\ Len(d) \in Nat /\ Len(<<>>) = 0
      BY <1>0
  <2>5. Len(p) + Len(<<>>) + Len(d \o c) = n
      BY <1>0, <2>3, <2>4
  <2>6. <<>> \in Seq(Nat)
      OBVIOUS
  <2> QED
      BY <1>0, <2>2, <2>3, <2>5, <2>6 DEF Conserved
<1>4. Conserved(<<>>, <<>>, <<>>, 0)
    BY ElemsEmpty DEF Conserved
<1> QED
    BY <1>1, <1>2, <1>3, <1>4

(* A request, a commit, a completed upload and the client's departure move *)
(* callbacks from one list to the next; nothing else touches them.         *)
LEMMA CallbacksStep ==
  TypeOK /\ CallbacksConserved /\ [Next]_vars => CallbacksConserved'
<1> SUFFICES ASSUME TypeOK, CallbacksConserved, [Next]_vars PROVE CallbacksConserved'
    OBVIOUS
<1> DEFINE Now(s)   == Conserved(pending_frame_callback_list[s], frame_callback_list[s],
                                 done[s], requested[s])
           After(s) == Conserved(pending_frame_callback_list'[s], frame_callback_list'[s],
                                 done'[s], requested'[s])
<1>0. \A t \in Surface : Now(t)
    BY DEF CallbacksConserved, TypeOK, Conserved
<1> SUFFICES \A t \in Surface : After(t)
    BY DEF CallbacksConserved, Conserved
<1>1. ASSUME UNCHANGED callbackVars PROVE \A t \in Surface : After(t)
    BY <1>0, <1>1 DEF callbackVars
<1>2. ASSUME NEW s \in Surface, SurfaceFrame(s), NEW t \in Surface PROVE After(t)
  <2>1. CASE t = s
    <3>1. /\ requested'[s] = requested[s] + 1
          /\ pending_frame_callback_list'[s] =
               Append(pending_frame_callback_list[s], requested[s] + 1)
          /\ frame_callback_list'[s] = frame_callback_list[s] /\ done'[s] = done[s]
        BY <1>2 DEF SurfaceFrame, TypeOK
    <3>2. Conserved(Append(pending_frame_callback_list[s], requested[s] + 1),
                    frame_callback_list[s], done[s], requested[s] + 1)
        BY <1>0, ConservedChanges
    <3> QED
        BY <2>1, <3>1, <3>2
  <2>2. CASE t # s
      BY <1>0, <1>2, <2>2 DEF SurfaceFrame, TypeOK
  <2> QED
      BY <2>1, <2>2
<1>3. ASSUME NEW s \in Surface, SurfaceCommit(s), NEW t \in Surface PROVE After(t)
  <2>1. CASE t = s
      BY <1>0, <1>3, <2>1, ConservedChanges
      DEF SurfaceCommit, CommitCallbacks, SplicedList, TypeOK
  <2>2. CASE t # s
      BY <1>0, <1>3, <2>2 DEF SurfaceCommit, CommitCallbacks, TypeOK
  <2> QED
      BY <2>1, <2>2
<1>4. ASSUME NEW s \in Surface, Disconnect(s), NEW t \in Surface PROVE After(t)
  <2>1. CASE t = s
      BY <1>0, <1>4, <2>1, ConservedChanges DEF Disconnect, TypeOK
  <2>2. CASE t # s
      BY <1>0, <1>4, <2>2 DEF Disconnect, TypeOK
  <2> QED
      BY <2>1, <2>2
<1>5. ASSUME HasUpdatedTex, NEW t \in Surface PROVE After(t)
  <2>1. CASE t \in Ready
      BY <1>0, <1>5, <2>1, ConservedChanges DEF HasUpdatedTex, Fired
  <2>2. CASE t \notin Ready
      BY <1>0, <1>5, <2>2 DEF HasUpdatedTex
  <2> QED
      BY <2>1, <2>2
<1>6. ASSUME NEW s \in Surface, Request(s) PROVE \A t \in Surface : After(t)
    BY <1>1, <1>2, <1>3, <1>4, <1>6
    DEF Request, CreateSurface, GetShellSurface, SurfaceAttach, BufferDestroy
<1>7. ASSUME (\E s \in Surface : GpuSignal(s)) \/ HandleSignal \/ MainLoop
      PROVE  \A t \in Surface : After(t)
    BY <1>1, <1>5, <1>7 DEF GpuSignal, HandleSignal, MainLoop, DispatchReturns, Redraw, Drained
<1>8. ASSUME UNCHANGED vars PROVE \A t \in Surface : After(t)
    BY <1>1, <1>8 DEF vars
<1> QED
    BY <1>6, <1>7, <1>8 DEF Next

(* Every callback a client requests is pending, committed or done, once.   *)
THEOREM CallbackConservation == Spec => []CallbacksConserved
<1>1. Init => TypeOK /\ CallbacksConserved
  <2>1. Init => TypeOK
      BY DEF Init, TypeOK, Plane, PixelValue, Nothing, TEX_FREE, TEX_WRITING, TEX_COMPLETE
  <2>2. Init => CallbacksConserved
      BY ElemsEmpty DEF Init, CallbacksConserved
  <2> QED
      BY <2>1, <2>2
<1> QED
    BY <1>1, TypeStep, CallbacksStep, PTL DEF Spec

--------------------------------------------------------------------------------
(* The screen.                                                             *)

LEMMA SettledStep == TypeOK /\ SettledScreen /\ [Next]_vars => SettledScreen'
<1> SUFFICES ASSUME TypeOK, SettledScreen, [Next]_vars PROVE SettledScreen'
    OBVIOUS
<1> DEFINE Frame == <<listed, status, current_tex_index, updated_tex_index, texid, image,
                      img_size>>
<1>1. ASSUME UNCHANGED Frame
      PROVE  /\ has_writting_tex' = has_writting_tex
             /\ \A s \in Surface : Drawn(s)' = Drawn(s)
    BY <1>1 DEF has_writting_tex, Writing, Drawn, StatusAt
<1>2. ASSUME loop' # "drain" PROVE SettledScreen'
    BY <1>2 DEF SettledScreen
<1>3. ASSUME NEW s \in Surface, Request(s) PROVE loop' # "drain"
    BY <1>3
    DEF Request, CreateSurface, GetShellSurface, SurfaceAttach, SurfaceFrame, SurfaceCommit,
        BufferDestroy, Disconnect, Serving, loopVars
<1>4. ASSUME NEW s \in Surface, GpuSignal(s) PROVE SettledScreen'
  <2>1. UNCHANGED Frame /\ UNCHANGED <<loop, ret, screen>>
      BY <1>4 DEF GpuSignal, textureVars, loopVars
  <2> QED
      BY <1>1, <2>1 DEF SettledScreen
<1>5. ASSUME HandleSignal \/ HasUpdatedTex \/ Drained PROVE loop' # "drain"
    BY <1>5 DEF HandleSignal, HasUpdatedTex, Drained
<1>6. ASSUME DispatchReturns PROVE SettledScreen'
  <2>1. UNCHANGED Frame /\ (loop' = "drain" => has_writting_tex)
      BY <1>6 DEF DispatchReturns, textureVars
  <2> QED
      BY <1>1, <2>1 DEF SettledScreen
<1>7. ASSUME Redraw PROVE SettledScreen'
  <2>1. UNCHANGED Frame
      BY <1>7 DEF Redraw, textureVars
  <2>2. ret' = 0 => \A s \in Surface : screen'[s] = Drawn(s)
      BY <1>7 DEF Redraw, UpdateSurfaces
  <2> QED
      BY <1>1, <2>1, <2>2 DEF SettledScreen
<1>8. ASSUME UNCHANGED vars PROVE SettledScreen'
  <2>1. UNCHANGED Frame /\ UNCHANGED <<loop, ret, screen>>
      BY <1>8 DEF vars, textureVars, loopVars
  <2> QED
      BY <1>1, <2>1 DEF SettledScreen
<1> QED
    BY <1>2, <1>3, <1>4, <1>5, <1>6, <1>7, <1>8 DEF Next, MainLoop

(* The inner loop of main() never ends with a completed upload undrawn,    *)
(* unless the last swap failed.                                            *)
THEOREM ScreenSettles == Spec => []SettledScreen
<1>1. Init => SettledScreen
    BY DEF Init, SettledScreen
<1> QED
    BY <1>1, TypeCorrect, SettledStep, PTL DEF Spec

--------------------------------------------------------------------------------
(* The client that waits for its callbacks.                                *)

(* The inductive invariant, of one surface.  What is attached is a buffer  *)
(* the client has, and no upload is in flight then; an upload in flight    *)
(* has a callback to fire and is of the buffer that is still attached.     *)
AttachedFree(s) ==
  attached[s] => ~Writing(s) /\ wl_buffer[s] \in Buffer
                 /\ wl_buffer[s] \notin held[s] \union dead[s]
UploadOfLast(s) ==
  Writing(s) => /\ frame_callback_list[s] # <<>>
                /\ wl_buffer[s] \in Buffer /\ wl_buffer[s] \notin dead[s]
                /\ wl_buffer[s] # wl_used_buffer[s]
                /\ image[s][current_tex_index[s]] = content[s]
HoldsTwo(s) ==
  /\ held[s] = (IF Writing(s) THEN {wl_used_buffer[s], wl_buffer[s]}
                ELSE {wl_used_buffer[s]}) \ {NULL}
  /\ wl_used_buffer[s] \notin dead[s]
DrawsLatest(s) ==
  content[s] # NULL /\ ~Writing(s) =>
    updated_tex_index[s] # -1 /\ image[s][updated_tex_index[s]] = content[s]

Paced(s) == AttachedFree(s) /\ UploadOfLast(s) /\ HoldsTwo(s) /\ DrawsLatest(s)
PacedInv == \A s \in Throttled : Paced(s)

(* All that Paced reads of a surface.                                      *)
View(s) ==
  <<attached[s], wl_buffer[s], wl_used_buffer[s], held[s], dead[s], content[s], image[s],
    status[s], current_tex_index[s], updated_tex_index[s], frame_callback_list[s]>>

LEMMA SameView == ASSUME NEW s, Paced(s), View(s)' = View(s) PROVE Paced(s)'
BY DEF Paced, View, AttachedFree, UploadOfLast, HoldsTwo, DrawsLatest, Writing

(* When every callback is done, none is committed.                         *)
LEMMA AllDone ==
  ASSUME NEW s \in Surface, TypeOK, CallbacksConserved, Len(done[s]) = requested[s]
  PROVE  frame_callback_list[s] = <<>>
<1> DEFINE p == pending_frame_callback_list[s]  c == frame_callback_list[s]  d == done[s]
<1>1. p \in Seq(Nat) /\ c \in Seq(Nat) /\ d \in Seq(Nat)
    BY DEF TypeOK
<1>2. Len(p) + Len(c) + Len(d) = Len(d)
    BY DEF CallbacksConserved
<1> HIDE DEF p, c, d
<1>3. Len(c) = 0
    BY <1>1, <1>2
<1>4. c = <<>>
    BY <1>1, <1>3
<1> QED
    BY <1>4 DEF c

(* An attach waits for the callbacks, a commit for a free texture, which   *)
(* it then has, and a flip gives back the buffer before last.              *)
LEMMA PacedStep ==
  TextureInv /\ CallbacksConserved /\ PacedInv /\ [Next]_vars => PacedInv'
<1> SUFFICES ASSUME TextureInv, CallbacksConserved, PacedInv, [Next]_vars,
                    NEW t \in Throttled
             PROVE  Paced(t)'
    BY DEF PacedInv
<1>0. TypeOK /\ t \in Surface /\ Paced(t)
    BY ThrottledAssumption DEF TextureInv, PacedInv
<1>1. ASSUME View(t)' = View(t) PROVE Paced(t)'
    BY <1>0, <1>1, SameView
<1>2. ASSUME NEW b \in Buffer \union {NULL}, SurfaceAttach(t, b) PROVE Paced(t)'
  <2>1. /\ b \in Buffer /\ b \notin held[t] \union dead[t]
        /\ Len(done[t]) = requested[t]
      BY <1>2 DEF SurfaceAttach, MayAttach
  <2>2. ~Writing(t)
      BY <1>0, <2>1, AllDone DEF TextureInv, Paced, UploadOfLast
  <2>3. /\ wl_buffer'[t] = b /\ wl_used_buffer' = wl_used_buffer /\ held' = held /\ dead' = dead
        /\ content' = content /\ image' = image /\ status' = status
        /\ current_tex_index' = current_tex_index /\ updated_tex_index' = updated_tex_index
      BY <1>0, <1>2 DEF SurfaceAttach, TypeOK, textureVars
  <2> QED
      BY <1>0, <2>1, <2>2, <2>3
      DEF Paced, AttachedFree, UploadOfLast, HoldsTwo, DrawsLatest, Writing
<1>3. ASSUME SurfaceCommit(t) PROVE Paced(t)'
  <2> DEFINE cur == current_tex_index[t]
  <2>1. attached[t] /\ pending_frame_callback_list[t] # <<>>
      BY <1>3 DEF SurfaceCommit
  <2>2. /\ ~Writing(t) /\ wl_buffer[t] \in Buffer /\ wl_buffer[t] # NULL
        /\ wl_buffer[t] \notin held[t] \union dead[t]
      BY <1>0, <2>1, NullAssumption DEF Paced, AttachedFree
  <2>3. status[t][cur] = TEX_FREE /\ cur \in Plane
      BY <1>0, <2>2 DEF TextureInv, DoubleBuffered, Writing, TypeOK
  <2>4. Upload(t)
      BY <1>3, <2>2, <2>3 DEF SurfaceCommit, Uploads
  <2>5. /\ image'[t][cur] = wl_buffer[t] /\ status'[t][cur] = TEX_WRITING
        /\ current_tex_index' = current_tex_index /\ wl_buffer' = wl_buffer
        /\ wl_used_buffer' = wl_used_buffer
      BY <1>0, <1>3, <2>3, <2>4 DEF SurfaceCommit, Upload, FenceCreated, TypeOK, bufferVars
  <2>6. /\ content'[t] = wl_buffer[t] /\ held'[t] = held[t] \union {wl_buffer[t]}
        /\ ~attached'[t] /\ dead' = dead
      BY <1>0, <1>3, <2>1, <2>2 DEF SurfaceCommit, CommitContent, TypeOK
  <2>7. frame_callback_list'[t] # <<>>
    <3>1. /\ frame_callback_list'[t] = pending_frame_callback_list[t] \o frame_callback_list[t]
          /\ pending_frame_callback_list[t] \in Seq(Nat) /\ frame_callback_list[t] \in Seq(Nat)
        BY <1>0, <1>3 DEF SurfaceCommit, CommitCallbacks, SplicedList, TypeOK
    <3> DEFINE p == pending_frame_callback_list[t]  c == frame_callback_list[t]
    <3>2. ASSUME NEW x \in Seq(Nat), NEW y \in Seq(Nat), x # <<>> PROVE x \o y # <<>>
      <4>1. Len(x) # 0 /\ Len(x) \in Nat /\ Len(y) \in Nat
          BY <3>2
      <4>2. Len(x \o y) = Len(x) + Len(y)
          OBVIOUS
      <4> QED
          BY <4>1, <4>2
    <3> QED
        BY <2>1, <3>1, <3>2
  <2>8. /\ held[t] = {wl_used_buffer[t]} \ {NULL} /\ wl_used_buffer[t] \notin dead[t]
      BY <1>0, <2>2 DEF Paced, HoldsTwo
  <2>9. Writing(t)'
      BY <2>5 DEF Writing
  <2> QED
      BY <2>2, <2>5, <2>6, <2>7, <2>8, <2>9
      DEF Paced, AttachedFree, UploadOfLast, HoldsTwo, DrawsLatest
<1>4. ASSUME NEW b \in Buffer, BufferDestroy(t, b) PROVE Paced(t)'
  <2>1. /\ b \notin held[t] /\ ~attached[t] /\ b # NULL
        /\ dead'[t] = dead[t] \union {b}
      BY <1>0, <1>4, NullAssumption DEF BufferDestroy, TypeOK
  <2>2. UNCHANGED <<wl_buffer, wl_used_buffer, content, attached, held, image, status,
                    current_tex_index, updated_tex_index, frame_callback_list>>
      BY <1>4 DEF BufferDestroy, bufferVars, textureVars, callbackVars
  <2>3. Writing(t)' = Writing(t)
      BY <2>2 DEF Writing
  <2>4. wl_used_buffer[t] # b /\ (Writing(t) => wl_buffer[t] # b)
      BY <1>0, <2>1, NullAssumption DEF Paced, HoldsTwo, UploadOfLast
  <2> QED
      BY <1>0, <2>1, <2>2, <2>3, <2>4
      DEF Paced, AttachedFree, UploadOfLast, HoldsTwo, DrawsLatest
<1>5. ASSUME Disconnect(t) PROVE Paced(t)'
  <2>1. /\ wl_used_buffer'[t] = NULL /\ content'[t] = NULL /\ ~attached'[t]
        /\ held'[t] = {} /\ dead'[t] = {} /\ current_tex_index'[t] = 0
        /\ status'[t] = [i \in Plane |-> TEX_FREE]
      BY <1>0, <1>5 DEF Disconnect, TypeOK
  <2>2. ~Writing(t)'
      BY <2>1 DEF Writing, Plane, TEX_FREE, TEX_WRITING
  <2> QED
      BY <2>1, <2>2 DEF Paced, AttachedFree, UploadOfLast, HoldsTwo, DrawsLatest
<1>6. ASSUME HasUpdatedTex PROVE Paced(t)'
  <2> DEFINE cur == current_tex_index[t]
  <2>0. UNCHANGED <<wl_buffer, image, content, attached, dead>>
      BY <1>6 DEF HasUpdatedTex
  <2>1. CASE t \notin Ready
    <3>1. View(t)' = View(t)
        BY <1>0, <1>6, <2>0, <2>1 DEF HasUpdatedTex, View
    <3> QED
        BY <1>1, <3>1
  <2>2. CASE t \in Ready
    <3>1. Writing(t) /\ cur \in Plane /\ NextTex(cur) \in Plane /\ NextTex(cur) = 1 - cur
        BY <1>0, <2>2, OtherTexture DEF Ready, TypeOK
    <3>2. /\ updated_tex_index'[t] = cur /\ current_tex_index'[t] = NextTex(cur)
          /\ status'[t] = FlippedStatus(t) /\ held'[t] = held[t] \ {wl_used_buffer[t]}
          /\ wl_used_buffer'[t] = wl_buffer[t]
        BY <1>0, <1>6, <2>2 DEF HasUpdatedTex, Released, NextUsed
    <3>3. ~Writing(t)'
        BY <3>1, <3>2 DEF Writing, FlippedStatus, Plane, TEX_FREE, TEX_WRITING
    <3>4. ~attached[t] /\ UploadOfLast(t) /\ HoldsTwo(t)
        BY <1>0, <3>1 DEF Paced, AttachedFree
    <3>5. held'[t] = {wl_buffer[t]} \ {NULL} /\ wl_buffer[t] \notin dead[t]
        BY <3>1, <3>2, <3>4 DEF UploadOfLast, HoldsTwo
    <3>6. image[t][cur] = content[t] /\ cur # -1
        BY <3>1, <3>4 DEF UploadOfLast, Plane
    <3> QED
        BY <2>0, <3>2, <3>3, <3>4, <3>5, <3>6
        DEF Paced, AttachedFree, UploadOfLast, HoldsTwo, DrawsLatest
  <2> QED
      BY <2>1, <2>2
<1>7. ASSUME NEW s \in Surface, s # t, Request(s) PROVE Paced(t)'
  <2>1. ASSUME SurfaceCommit(s) PROVE View(t)' = View(t)
    <3>1. /\ image'[t] = image[t] /\ status'[t] = status[t]
          /\ current_tex_index' = current_tex_index /\ updated_tex_index' = updated_tex_index
          /\ wl_buffer' = wl_buffer /\ wl_used_buffer' = wl_used_buffer
        BY <1>0, <1>7, <2>1 DEF SurfaceCommit, Upload, FenceCreated, SkipUpload, TypeOK, bufferVars
    <3>2. /\ frame_callback_list'[t] = frame_callback_list[t] /\ content'[t] = content[t]
          /\ held'[t] = held[t] /\ attached'[t] = attached[t] /\ dead' = dead
        BY <1>0, <1>7, <2>1 DEF SurfaceCommit, CommitCallbacks, CommitContent, TypeOK
    <3> QED
        BY <3>1, <3>2 DEF View
  <2>2. ASSUME Disconnect(s) PROVE View(t)' = View(t)
      BY <1>0, <1>7, <2>2 DEF Disconnect, View, TypeOK
  <2>3. ASSUME CreateSurface(s) \/ GetShellSurface(s) \/ SurfaceFrame(s)
        PROVE  View(t)' = View(t)
      BY <2>3 DEF CreateSurface, GetShellSurface, SurfaceFrame, View, bufferVars, textureVars,
                  callbackVars, clientVars
  <2>4. ASSUME NEW b \in Buffer \union {NULL}, SurfaceAttach(s, b) \/ BufferDestroy(s, b)
        PROVE  View(t)' = View(t)
      BY <1>0, <1>7, <2>4
      DEF SurfaceAttach, BufferDestroy, View, TypeOK, bufferVars, textureVars, callbackVars
  <2> QED
      BY <1>1, <1>7, <2>1, <2>2, <2>3, <2>4 DEF Request
<1>8. ASSUME CreateSurface(t) \/ GetShellSurface(t) \/ SurfaceFrame(t) PROVE Paced(t)'
  <2>1. View(t)' = View(t)
      BY <1>8 DEF CreateSurface, GetShellSurface, SurfaceFrame, View, bufferVars, textureVars,
                  callbackVars, clientVars
  <2> QED
      BY <1>1, <2>1
<1>9. ASSUME (\E s \in Surface : GpuSignal(s)) \/ HandleSignal \/ DispatchReturns \/ Redraw
             \/ Drained \/ UNCHANGED vars
      PROVE  Paced(t)'
  <2>1. View(t)' = View(t)
      BY <1>9 DEF GpuSignal, HandleSignal, DispatchReturns, Redraw, Drained, View, vars,
                  bufferVars, textureVars, callbackVars, clientVars
  <2> QED
      BY <1>1, <2>1
<1>10. ASSUME Request(t) PROVE Paced(t)'
    BY <1>2, <1>3, <1>4, <1>5, <1>8, <1>10 DEF Request
<1> QED
    BY <1>0, <1>6, <1>7, <1>9, <1>10 DEF Next, MainLoop

LEMMA PacedInvariant == Spec => []PacedInv
<1>1. Init => PacedInv
  <2> SUFFICES ASSUME Init, NEW s \in Throttled PROVE Paced(s)
      BY DEF PacedInv
  <2>1. /\ s \in Surface /\ ~attached[s] /\ held[s] = {} /\ dead[s] = {}
        /\ wl_used_buffer[s] = NULL /\ content[s] = NULL /\ ~Writing(s)
      BY ThrottledAssumption DEF Init, Writing, Plane, TEX_FREE, TEX_WRITING
  <2> QED
      BY <2>1 DEF Paced, AttachedFree, UploadOfLast, HoldsTwo, DrawsLatest
<1> QED
    BY <1>1, PacedStep, TextureInvariant, CallbackConservation, PTL DEF Spec

(* A client that waits for its callbacks gets by with two buffers, and the *)
(* compositor never keeps one that it has destroyed.                       *)
THEOREM TwoBuffersAreEnough == Spec => []TwoBuffersSuffice
<1>1. PacedInv => TwoBuffersSuffice
    BY DEF PacedInv, Paced, HoldsTwo, TwoBuffersSuffice, Released
<1> QED
    BY <1>1, PacedInvariant, PTL

(* No frame of a client that waits for its callbacks is dropped.           *)
THEOREM LatestIsDrawn == Spec => []LatestContentDrawn
<1>1. PacedInv => LatestContentDrawn
    BY DEF PacedInv, Paced, DrawsLatest, LatestContentDrawn
<1> QED
    BY <1>1, PacedInvariant, PTL

--------------------------------------------------------------------------------
(* The renderer: first, that a cell is in one row and one column.          *)
LEMMA Cells ==
  /\ Cell = {0, 1, 2, 3, 4, 5, 6, 7, 8, 9, 10, 11, 12, 13, 14, 15}
  /\ \A i \in Cell : /\ i % 4 \in 0..3 /\ i \div 4 \in 0..3 /\ i = 4 * (i \div 4) + (i % 4)
                     /\ i >= 12 => i - 4 \in Cell /\ i - 8 \in Cell /\ i - 12 \in Cell
                     /\ i \in 0..3 => i + 4 \in Cell
                     /\ i \in 4..7 => i - 4 \in Cell
  /\ \A k \in 0..3 : /\ 4 * k \in Cell /\ 4 * k + 1 \in Cell /\ 4 * k + 2 \in Cell /\ 4 * k + 3 \in Cell
                     /\ k \in Cell /\ k + 4 \in Cell /\ k + 8 \in Cell /\ k + 12 \in Cell
<1>1. Cell = {0, 1, 2, 3, 4, 5, 6, 7, 8, 9, 10, 11, 12, 13, 14, 15}
    BY DEF Cell
<1>2. \A i \in Cell : /\ i % 4 \in 0..3 /\ i \div 4 \in 0..3 /\ i = 4 * (i \div 4) + (i % 4)
    BY DEF Cell
<1> QED
    BY <1>1, <1>2 DEF Cell

(* The cells of a row.                                                     *)
LEMMA RowCells ==
  \A r \in 0..3 : (r + 4) % 4 = r /\ (r + 8) % 4 = r /\ (r + 12) % 4 = r /\ r % 4 = r
<1> QED
    OBVIOUS

(* matrix_mult is the product of two matrices, by rows and columns, also   *)
(* where the result is one of them or both.                                *)
Product(a, b) == [i \in Cell |-> RowTimes(Row(a, i % 4), b, i \div 4)]
Multiplied(memory, m, m1, m2) == [memory EXCEPT ![m] = Product(memory[m1], memory[m2])]

THEOREM MultIsProduct ==
  ASSUME NEW N, NEW memory \in [N -> [Cell -> Int]], NEW m \in N, NEW m1 \in N, NEW m2 \in N
  PROVE  matrix_mult(memory, m, m1, m2) = Multiplied(memory, m, m1, m2)
<1> DEFINE a == memory[m1]
           b == memory[m2]
           Upto(n) == [memory EXCEPT ![m] =
                         [i \in Cell |-> IF i % 4 < n THEN RowTimes(Row(a, i % 4), b, i \div 4)
                                         ELSE memory[m][i]]]
<1>1. \A n \in 0..3 : Written(Upto(n), m, Row(a, n), n, b) = Upto(n + 1)
  <2> SUFFICES ASSUME NEW n \in 0..3 PROVE Written(Upto(n), m, Row(a, n), n, b) = Upto(n + 1)
      OBVIOUS
  <2>1. \A i \in Cell : /\ i % 4 < n + 1 <=> i % 4 = n \/ i % 4 < n
                        /\ i % 4 = n => ~(i % 4 < n)
      BY Cells
  <2>2. Written(Upto(n), m, Row(a, n), n, b) =
          [Upto(n) EXCEPT ![m] = [i \in Cell |-> IF i % 4 = n THEN RowTimes(Row(a, n), b, i \div 4)
                                                 ELSE Upto(n)[m][i]]]
      BY DEF Written
  <2>3. Upto(n)[m] = [i \in Cell |-> IF i % 4 < n THEN RowTimes(Row(a, i % 4), b, i \div 4)
                                     ELSE memory[m][i]]
      OBVIOUS
  <2>4. [i \in Cell |-> IF i % 4 = n THEN RowTimes(Row(a, n), b, i \div 4) ELSE Upto(n)[m][i]]
        = [i \in Cell |-> IF i % 4 < n + 1 THEN RowTimes(Row(a, i % 4), b, i \div 4)
                          ELSE memory[m][i]]
      BY <2>1, <2>3
  <2> QED
      BY <2>2, <2>4
<1>2. Upto(0) = memory
  <2>1. \A i \in Cell : ~(i % 4 < 0)
      BY Cells
  <2>2. [i \in Cell |-> IF i % 4 < 0 THEN RowTimes(Row(a, i % 4), b, i \div 4) ELSE memory[m][i]]
        = memory[m]
      BY <2>1
  <2> QED
      BY <2>2
<1>3. Upto(4) = [memory EXCEPT ![m] = Product(a, b)]
  <2>1. \A i \in Cell : i % 4 < 4
      BY Cells
  <2> QED
      BY <2>1 DEF Product
<1>4. \A n, r \in 0..3 : n <= r => Row(Upto(n)[m1], r) = Row(a, r)
  <2> SUFFICES ASSUME NEW n \in 0..3, NEW r \in 0..3, n <= r PROVE Row(Upto(n)[m1], r) = Row(a, r)
      OBVIOUS
  <2>1. CASE m1 # m
      BY <2>1
  <2>2. CASE m1 = m
    <3>1. \A i \in Cell : i % 4 = r => Upto(n)[m][i] = a[i]
        BY <2>2
    <3>2. /\ r \in Cell /\ r + 4 \in Cell /\ r + 8 \in Cell /\ r + 12 \in Cell
          /\ r % 4 = r /\ (r + 4) % 4 = r /\ (r + 8) % 4 = r /\ (r + 12) % 4 = r
        BY Cells, RowCells
    <3> QED
        BY <2>2, <3>1, <3>2 DEF Row
  <2> QED
      BY <2>1, <2>2
<1> HIDE DEF Upto
<1>5. /\ 0 \in 0..3 /\ 1 \in 0..3 /\ 2 \in 0..3 /\ 3 \in 0..3
      /\ Row(memory[m1], 0) = Row(a, 0) /\ Row(memory[m1], 1) = Row(a, 1)
      /\ Row(Upto(1)[m1], 2) = Row(a, 2) /\ Row(Upto(2)[m1], 3) = Row(a, 3)
      /\ 0 + 1 = 1 /\ 1 + 1 = 2 /\ 2 + 1 = 3 /\ 3 + 1 = 4
    BY <1>4
<1>6. Written(memory, m, Row(a, 0), 0, b) = Upto(1)
    BY <1>1, <1>2, <1>5
<1>7. Written(Upto(1), m, Row(a, 1), 1, b) = Upto(2)
    BY <1>1, <1>5
<1>8. Written(Upto(2), m, Row(a, 2), 2, b) = Upto(3)
    BY <1>1, <1>5
<1>9. Written(Upto(3), m, Row(a, 3), 3, b) = Upto(4)
    BY <1>1, <1>5
<1> QED
    BY <1>3, <1>5, <1>6, <1>7, <1>8, <1>9 DEF matrix_mult, Multiplied

(* The product of matrices of integers is one.                             *)
LEMMA ProductIsMatrix ==
  ASSUME NEW a \in [Cell -> Int], NEW b \in [Cell -> Int]
  PROVE  Product(a, b) \in [Cell -> Int]
<1>1. ASSUME NEW i \in Cell
      PROVE  RowTimes(Row(a, i % 4), b, i \div 4) \in Int
  <2>1. PICK k \in 0..3 : k = i \div 4
      BY Cells
  <2>2. PICK j \in 0..3 : j = i % 4
      BY Cells
  <2>3. b[4 * k] \in Int /\ b[4 * k + 1] \in Int /\ b[4 * k + 2] \in Int /\ b[4 * k + 3] \in Int
      BY Cells
  <2>4. a[j] \in Int /\ a[j + 4] \in Int /\ a[j + 8] \in Int /\ a[j + 12] \in Int
      BY Cells
  <2>5. RowTimes(Row(a, j), b, k) \in Int
      BY <2>3, <2>4 DEF RowTimes, Row
  <2> QED
      BY <2>1, <2>2, <2>5
<1> QED
    BY <1>1 DEF Product

--------------------------------------------------------------------------------
(* A matrix that takes a point (x, y) of the plane to                      *)
(* (a * x + c * y + e, b * x + d * y + f).                                 *)
Affine(m, a, b, c, d, e, f) ==
  /\ m \in [Cell -> Int]
  /\ m[0] = a /\ m[1] = b /\ m[4] = c /\ m[5] = d /\ m[12] = e /\ m[13] = f
  /\ m[3] = 0 /\ m[7] = 0 /\ m[15] = 1

(* What each operation of draw_2d_texture_in makes of such a matrix: the   *)
(* identity leaves a point where it is;                                    *)
LEMMA IdentityIs == Affine(matrix_identity, 1, 0, 0, 1, 0, 0)
<1>1. matrix_identity \in [Cell -> Int]
    BY DEF matrix_identity
<1>2. /\ matrix_identity[0] = 1 /\ matrix_identity[1] = 0 /\ matrix_identity[3] = 0
      /\ matrix_identity[4] = 0 /\ matrix_identity[5] = 1 /\ matrix_identity[7] = 0
      /\ matrix_identity[12] = 0 /\ matrix_identity[13] = 0 /\ matrix_identity[15] = 1
    BY DEF matrix_identity, Cell
<1> QED
    BY <1>1, <1>2 DEF Affine

(* a translation is before the rest, so that x and y are taken by the      *)
(* matrix and then added;                                                  *)
LEMMA TranslateIs ==
  ASSUME NEW m, NEW a \in Int, NEW b \in Int, NEW c \in Int, NEW d \in Int, NEW e \in Int,
         NEW f \in Int, Affine(m, a, b, c, d, e, f), NEW x \in Int, NEW y \in Int
  PROVE  Affine(matrix_translate(m, x, y, 0), a, b, c, d, e + c * y + a * x, f + d * y + b * x)
<1> DEFINE t == matrix_translate(m, x, y, 0)
<1>1. \A i \in Cell : m[i] \in Int
    BY DEF Affine
<1>2. t = [i \in Cell |-> IF i < 12 THEN m[i] ELSE m[i] + m[i - 4] * 0 + m[i - 8] * y + m[i - 12] * x]
    BY DEF matrix_translate
<1> HIDE DEF t
<1>3. t \in [Cell -> Int]
  <2>1. \A i \in Cell : i < 12 => t[i] = m[i]
      BY <1>2
  <2>2. \A i \in Cell : ~(i < 12) => t[i] = m[i] + m[i - 4] * 0 + m[i - 8] * y + m[i - 12] * x
      BY <1>2
  <2>3. \A i \in Cell : ~(i < 12) => t[i] \in Int
    <3> SUFFICES ASSUME NEW i \in Cell, ~(i < 12) PROVE t[i] \in Int
        OBVIOUS
    <3>1. i >= 12
        BY Cells
    <3>2. m[i] \in Int /\ m[i - 4] \in Int /\ m[i - 8] \in Int /\ m[i - 12] \in Int
        BY <1>1, <3>1, Cells
    <3> QED
        BY <2>2, <3>2
  <2>4. \A i \in Cell : t[i] \in Int
      BY <1>1, <2>1, <2>3
  <2> QED
      BY <1>2, <2>4
<1>4. /\ t[0] = m[0] /\ t[1] = m[1] /\ t[3] = m[3] /\ t[4] = m[4] /\ t[5] = m[5] /\ t[7] = m[7]
      /\ t[12] = m[12] + m[8] * 0 + m[4] * y + m[0] * x
      /\ t[13] = m[13] + m[9] * 0 + m[5] * y + m[1] * x
      /\ t[15] = m[15] + m[11] * 0 + m[7] * y + m[3] * x
    BY <1>2, Cells
<1>5. m[8] * 0 = 0 /\ m[9] * 0 = 0 /\ m[11] * 0 = 0
    BY <1>1, Cells
<1> QED
    BY <1>3, <1>4, <1>5 DEF Affine, t

(* a scale is before the rest;                                             *)
LEMMA ScaleIs ==
  ASSUME NEW m, NEW a \in Int, NEW b \in Int, NEW c \in Int, NEW d \in Int, NEW e \in Int,
         NEW f \in Int, Affine(m, a, b, c, d, e, f), NEW x \in Int, NEW y \in Int
  PROVE  Affine(matrix_scale(m, x, y, 1), a * x, b * x, c * y, d * y, e, f)
<1> DEFINE t == matrix_scale(m, x, y, 1)
<1>1. \A i \in Cell : m[i] \in Int /\ i \div 4 + 1 \in 1..4 /\ t[i] = m[i] * <<x, y, 1, 1>>[i \div 4 + 1]
    BY Cells DEF matrix_scale, Affine
<1>2. t \in [Cell -> Int]
    BY <1>1 DEF matrix_scale
<1>3. /\ t[0] = m[0] * x /\ t[1] = m[1] * x /\ t[3] = m[3] * x
      /\ t[4] = m[4] * y /\ t[5] = m[5] * y /\ t[7] = m[7] * y
      /\ t[12] = m[12] * 1 /\ t[13] = m[13] * 1 /\ t[15] = m[15] * 1
    BY <1>1, Cells
<1> QED
    BY <1>2, <1>3 DEF Affine

(* A quarter turn; RotateIs is only for a matrix that turned nothing yet.  *)
Cosine(quarters) == <<1, 0, -1, 0>>[quarters + 1]
Sine(quarters) == <<0, 1, 0, -1>>[quarters + 1]

LEMMA RotateIs ==
  ASSUME NEW m, NEW e \in Int, NEW f \in Int, Affine(m, 1, 0, 0, 1, e, f), NEW q \in 0..3
  PROVE  Affine(matrix_rotate(m, q), Cosine(q), Sine(q), -Sine(q), Cosine(q), e, f)
<1> DEFINE t == matrix_rotate(m, q)
<1>1. Cosine(q) \in Int /\ Sine(q) \in Int
    BY DEF Cosine, Sine
<1> HIDE DEF Cosine, Sine
<1>2. t = turn_z(m, Cosine(q), Sine(q))
    BY DEF matrix_rotate, Cosine, Sine
<1>3. \A i \in Cell : /\ m[i] \in Int
                      /\ i \in 0..3 => t[i] = Sine(q) * m[i + 4] + Cosine(q) * m[i] /\ m[i + 4] \in Int
                      /\ i \in 4..7 => t[i] = Cosine(q) * m[i] - Sine(q) * m[i - 4] /\ m[i - 4] \in Int
                      /\ i \notin 0..7 => t[i] = m[i]
    BY <1>2, Cells DEF turn_z, Affine
<1>4. t \in [Cell -> Int]
  <2>1. \A i \in Cell : t[i] \in Int
      BY <1>1, <1>3, Cells
  <2> QED
      BY <1>2, <2>1 DEF turn_z
<1>5. /\ t[0] = Sine(q) * m[4] + Cosine(q) * m[0] /\ t[1] = Sine(q) * m[5] + Cosine(q) * m[1]
      /\ t[3] = Sine(q) * m[7] + Cosine(q) * m[3]
      /\ t[4] = Cosine(q) * m[4] - Sine(q) * m[0] /\ t[5] = Cosine(q) * m[5] - Sine(q) * m[1]
      /\ t[7] = Cosine(q) * m[7] - Sine(q) * m[3]
      /\ t[12] = m[12] /\ t[13] = m[13] /\ t[15] = m[15]
    BY <1>3, Cells
<1> QED
  <2>1. Affine(t, Cosine(q), Sine(q), -Sine(q), Cosine(q), e, f)
    <3>1. /\ m[0] = 1 /\ m[1] = 0 /\ m[4] = 0 /\ m[5] = 1 /\ m[12] = e /\ m[13] = f
          /\ m[3] = 0 /\ m[7] = 0 /\ m[15] = 1
        BY DEF Affine
    <3>2. \A j, k \in Int : /\ j * 0 + k * 1 = k /\ j * 1 + k * 0 = j /\ j * 0 + k * 0 = 0
                            /\ k * 0 - j * 1 = -j /\ k * 1 - j * 0 = k /\ k * 0 - j * 0 = 0
        OBVIOUS
    <3> HIDE DEF t
    <3>3. /\ t[0] = Cosine(q) /\ t[1] = Sine(q) /\ t[4] = -Sine(q) /\ t[5] = Cosine(q)
          /\ t[12] = e /\ t[13] = f /\ t[3] = 0 /\ t[7] = 0 /\ t[15] = 1
        BY <1>1, <1>5, <3>1, <3>2
    <3> QED
        BY <1>4, <3>3 DEF Affine
  <2> QED
      BY <2>1

--------------------------------------------------------------------------------
(* The projection takes a point of the window to the clip coordinates at   *)
(* which the viewport shows it.                                            *)
LEMMA RowsOfProjection ==
  ASSUME NEW w \in Int, NEW h \in Int
  PROVE  /\ Projection(w, h) \in [Cell -> Int]
         /\ Row(Projection(w, h), 0) = <<2 * h, 0, 0, -w * h>>
         /\ Row(Projection(w, h), 1) = <<0, -2 * w, 0, w * h>>
         /\ Row(Projection(w, h), 3) = <<0, 0, 0, w * h>>
<1>1. Zero \in [Cell -> Int] /\ \A i \in Cell : Zero[i] = 0
    BY DEF Zero
<1>2. 2 * h \in Int /\ -2 * w \in Int /\ -w * h \in Int /\ w * h \in Int
    OBVIOUS
<1> DEFINE p == Projection(w, h)
<1>3. p \in [Cell -> Int]
    BY <1>1, <1>2, Cells DEF Projection
<1>4. /\ p[0] = 2 * h /\ p[5] = -2 * w /\ p[12] = -w * h /\ p[13] = w * h /\ p[15] = w * h
      /\ p[4] = 0 /\ p[8] = 0 /\ p[1] = 0 /\ p[9] = 0 /\ p[3] = 0 /\ p[7] = 0 /\ p[11] = 0
    BY <1>1, <1>2, Cells DEF Projection
<1> HIDE DEF p
<1>5. Row(p, 0) = <<p[0], p[4], p[8], p[12]>> /\ Row(p, 1) = <<p[1], p[5], p[9], p[13]>>
      /\ Row(p, 3) = <<p[3], p[7], p[11], p[15]>>
    BY DEF Row
<1> QED
    BY <1>3, <1>4, <1>5 DEF p

(* The projection times a matrix, cell by cell.                            *)
LEMMA Projected ==
  ASSUME NEW m, NEW a \in Int, NEW b \in Int, NEW c \in Int, NEW d \in Int, NEW e \in Int,
         NEW f \in Int, Affine(m, a, b, c, d, e, f), NEW w \in Int, NEW h \in Int,
         NEW r, r = Product(Projection(w, h), m)
  PROVE  /\ r \in [Cell -> Int]
         /\ r[0] = (2 * h) * a /\ r[4] = (2 * h) * c /\ r[12] = (2 * h) * e - w * h
         /\ r[1] = (-2 * w) * b /\ r[5] = (-2 * w) * d /\ r[13] = (-2 * w) * f + w * h
         /\ r[3] = 0 /\ r[7] = 0 /\ r[15] = w * h
<1>1. \A i \in Cell : m[i] \in Int
    BY DEF Affine
<1> DEFINE p == Projection(w, h)
<1>2. \A i \in Cell : r[i] = RowTimes(Row(p, i % 4), m, i \div 4)
    BY DEF Product
<1>4. r \in [Cell -> Int]
  <2>1. p \in [Cell -> Int] /\ m \in [Cell -> Int]
      BY RowsOfProjection DEF Affine
  <2> HIDE DEF p
  <2>2. Product(p, m) \in [Cell -> Int]
      BY <2>1, ProductIsMatrix
  <2> QED
      BY <2>2 DEF p
<1>5. \A k \in 0..3 : /\ r[4 * k] = RowTimes(Row(p, 0), m, k)
                      /\ r[4 * k + 1] = RowTimes(Row(p, 1), m, k)
                      /\ r[4 * k + 3] = RowTimes(Row(p, 3), m, k)
  <2> SUFFICES ASSUME NEW k \in 0..3
               PROVE  /\ r[4 * k] = RowTimes(Row(p, 0), m, k)
                      /\ r[4 * k + 1] = RowTimes(Row(p, 1), m, k)
                      /\ r[4 * k + 3] = RowTimes(Row(p, 3), m, k)
      OBVIOUS
  <2>1. /\ (4 * k) % 4 = 0 /\ (4 * k + 1) % 4 = 1 /\ (4 * k + 3) % 4 = 3
        /\ (4 * k) \div 4 = k /\ (4 * k + 1) \div 4 = k /\ (4 * k + 3) \div 4 = k
      OBVIOUS
  <2>2. 4 * k \in Cell /\ 4 * k + 1 \in Cell /\ 4 * k + 3 \in Cell
      BY Cells
  <2> HIDE DEF p
  <2> QED
      BY <1>2, <2>1, <2>2
<1>6. \A k \in 0..3 :
        /\ r[4 * k] = (2 * h) * m[4 * k] + 0 * m[4 * k + 1] + 0 * m[4 * k + 2] + (-w * h) * m[4 * k + 3]
        /\ r[4 * k + 1] = 0 * m[4 * k] + (-2 * w) * m[4 * k + 1] + 0 * m[4 * k + 2] + (w * h) * m[4 * k + 3]
        /\ r[4 * k + 3] = 0 * m[4 * k] + 0 * m[4 * k + 1] + 0 * m[4 * k + 2] + (w * h) * m[4 * k + 3]
  <2>1. /\ Row(p, 0) = <<2 * h, 0, 0, -w * h>> /\ Row(p, 1) = <<0, -2 * w, 0, w * h>>
        /\ Row(p, 3) = <<0, 0, 0, w * h>>
      BY RowsOfProjection
  <2> HIDE DEF p
  <2>2. ASSUME NEW k \in 0..3, NEW r1, NEW r2, NEW r3, NEW r4
        PROVE  RowTimes(<<r1, r2, r3, r4>>, m, k) =
                 r1 * m[4 * k] + r2 * m[4 * k + 1] + r3 * m[4 * k + 2] + r4 * m[4 * k + 3]
      BY DEF RowTimes
  <2> QED
      BY <1>5, <2>1, <2>2
<1>7. \A k \in 0..3 : /\ m[4 * k] \in Int /\ m[4 * k + 1] \in Int /\ m[4 * k + 2] \in Int
                      /\ m[4 * k + 3] \in Int
    BY <1>1, Cells
<1>8. \A k \in 0..3 :
        /\ r[4 * k] = (2 * h) * m[4 * k] + (-w * h) * m[4 * k + 3]
        /\ r[4 * k + 1] = (-2 * w) * m[4 * k + 1] + (w * h) * m[4 * k + 3]
        /\ r[4 * k + 3] = (w * h) * m[4 * k + 3]
    BY <1>6, <1>7
<1>9. /\ m[0] = a /\ m[1] = b /\ m[4] = c /\ m[5] = d /\ m[12] = e /\ m[13] = f
      /\ m[3] = 0 /\ m[7] = 0 /\ m[15] = 1
    BY DEF Affine
<1>10. /\ r[0] = (2 * h) * m[0] + (-w * h) * m[3] /\ r[4] = (2 * h) * m[4] + (-w * h) * m[7]
       /\ r[12] = (2 * h) * m[12] + (-w * h) * m[15]
       /\ r[1] = (-2 * w) * m[1] + (w * h) * m[3] /\ r[5] = (-2 * w) * m[5] + (w * h) * m[7]
       /\ r[13] = (-2 * w) * m[13] + (w * h) * m[15]
       /\ r[3] = (w * h) * m[3] /\ r[7] = (w * h) * m[7] /\ r[15] = (w * h) * m[15]
  <2>1. \A k \in {0, 1, 3} : k \in 0..3
      OBVIOUS
  <2> QED
      BY <1>8, <2>1
<1>11. (-w) * h = -(w * h)
    OBVIOUS
<1> QED
    BY <1>4, <1>9, <1>10, <1>11

(* So the viewport shows a corner where the matrix takes it.               *)
LEMMA ShownIs ==
  ASSUME NEW m, NEW a \in Int, NEW b \in Int, NEW c \in Int, NEW d \in Int, NEW e \in Int,
         NEW f \in Int, Affine(m, a, b, c, d, e, f),
         NEW w \in Nat \ {0}, NEW h \in Nat \ {0}, window = <<w, h>>,
         NEW x \in {0, 1}, NEW y \in {0, 1}
  PROVE  ShownAt(Product(Projection(w, h), m), <<x, y>>, <<a * x + c * y + e, b * x + d * y + f>>)
<1> DEFINE r == Product(Projection(w, h), m)
           px == a * x + c * y + e
           py == b * x + d * y + f
<1>1. /\ r[0] = (2 * h) * a /\ r[4] = (2 * h) * c /\ r[12] = (2 * h) * e - w * h
      /\ r[1] = (-2 * w) * b /\ r[5] = (-2 * w) * d /\ r[13] = (-2 * w) * f + w * h
      /\ r[3] = 0 /\ r[7] = 0 /\ r[15] = w * h
    BY Projected
<1>2. px \in Int /\ py \in Int /\ w * h \in Int /\ w * h # 0
    OBVIOUS
<1> HIDE DEF r
<1>3. /\ Clip(r, <<x, y>>, 0) = (2 * h) * px - w * h
      /\ Clip(r, <<x, y>>, 1) = (-2 * w) * py + w * h
      /\ Clip(r, <<x, y>>, 3) = w * h
  <2>1. /\ Clip(r, <<x, y>>, 0) = r[0] * x + r[4] * y + r[12]
        /\ Clip(r, <<x, y>>, 1) = r[1] * x + r[5] * y + r[13]
        /\ Clip(r, <<x, y>>, 3) = r[3] * x + r[7] * y + r[15]
      BY DEF Clip
  <2> QED
      BY <1>1, <2>1
<1> HIDE DEF px, py
<1>4. /\ (w * h + ((2 * h) * px - w * h)) * w = 2 * (w * h) * px
      /\ (w * h - ((-2 * w) * py + w * h)) * h = 2 * (w * h) * py
    BY <1>2
<1> QED
    BY <1>2, <1>3, <1>4 DEF ShownAt, r, px, py

--------------------------------------------------------------------------------
(* What the matrix does to a corner after each step of a draw.             *)
Offset(t) ==
  <<t.at[1] + t.pivot[1] - (Cosine(t.rot) * t.pivot[1] - Sine(t.rot) * t.pivot[2]),
    t.at[2] + t.pivot[2] - (Sine(t.rot) * t.pivot[1] + Cosine(t.rot) * t.pivot[2])>>

Composed(m, t) ==
  LET c == Cosine(t.rot)  s == Sine(t.rot) IN
  /\ pc = "translate" => Affine(m, 1, 0, 0, 1, 0, 0)
  /\ pc = "pivot"     => Affine(m, 1, 0, 0, 1, t.at[1], t.at[2])
  /\ pc = "rotate"    => Affine(m, 1, 0, 0, 1, t.at[1] + t.pivot[1], t.at[2] + t.pivot[2])
  /\ pc = "unpivot"   => Affine(m, c, s, -s, c, t.at[1] + t.pivot[1], t.at[2] + t.pivot[2])
  /\ pc = "scale"     => Affine(m, c, s, -s, c, Offset(t)[1], Offset(t)[2])
  /\ pc = "mult"      => Affine(m, c * t.size[1], s * t.size[1], -s * t.size[2], c * t.size[2],
                                Offset(t)[1], Offset(t)[2])
  /\ pc = "drawn" /\ compiled =>
       \A k \in DOMAIN varray : ShownAt(m, varray[k], Expected(t, varray[k]))

Composing == {"identity", "translate", "pivot", "rotate", "unpivot", "scale", "mult", "drawn"}

Memory == [s_matprj : [Cell -> Int], matrix : [Cell -> Int]]

RenderInv ==
  /\ window \in Window /\ compiled \in BOOLEAN /\ mem \in Memory
  /\ pc \in {"init", "ready"} \union Composing
  /\ pc = "init" => ~compiled
  /\ compiled => mem.s_matprj = Projection(window[1], window[2])
  /\ pc \in Composing => /\ tparam \in Param /\ uv = flip_texcoord(varray, tparam.upsidedown)
                         /\ Composed(mem.matrix, tparam)

(* The numbers of a draw are integers.                                     *)
LEMMA Params ==
  ASSUME NEW t \in Param
  PROVE  /\ t.at[1] \in Int /\ t.at[2] \in Int /\ t.size[1] \in Int /\ t.size[2] \in Int
         /\ t.pivot[1] \in Int /\ t.pivot[2] \in Int /\ t.rot \in 0..3 /\ t.upsidedown \in 0..3
         /\ Cosine(t.rot) \in Int /\ Sine(t.rot) \in Int
         /\ Offset(t)[1] \in Int /\ Offset(t)[2] \in Int
<1>1. /\ t.at \in Int \X Int /\ t.size \in Int \X Int /\ t.pivot \in Int \X Int
      /\ t.rot \in 0..3 /\ t.upsidedown \in 0..3
    BY RenderAssumption DEF Param
<1>2. /\ t.at[1] \in Int /\ t.at[2] \in Int /\ t.size[1] \in Int /\ t.size[2] \in Int
      /\ t.pivot[1] \in Int /\ t.pivot[2] \in Int
    BY <1>1
<1>3. Cosine(t.rot) \in Int /\ Sine(t.rot) \in Int
    BY <1>1 DEF Cosine, Sine
<1>4. Offset(t)[1] \in Int /\ Offset(t)[2] \in Int
    BY <1>2, <1>3 DEF Offset
<1> QED
    BY <1>1, <1>2, <1>3, <1>4

(* Signs, which the proof of ExpectedIs needs for the quarter turns.       *)
LEMMA Negated == \A k \in Int : (-1) * k = -k /\ -(-k) = k /\ -(0 * k) = 0 /\ (k = 0 => -k = 0)
<1>1. \A k \in Int : (-1) * k = -k
    OBVIOUS
<1>2. \A k \in Int : -(-k) = k
    OBVIOUS
<1>3. \A k \in Int : -(0 * k) = 0
    OBVIOUS
<1>4. \A k \in Int : k = 0 => -k = 0
  <2>1. \A k \in Int : -k = 0 - k
      OBVIOUS
  <2>2. \A k \in Int : k = 0 => 0 - k = 0
      OBVIOUS
  <2> QED
      BY <2>1, <2>2
<1> QED
    BY <1>1, <1>2, <1>3, <1>4

(* Which is where a viewer expects it.                                     *)
LEMMA ExpectedIs ==
  ASSUME NEW t \in Param, NEW x \in {0, 1}, NEW y \in {0, 1}
  PROVE  Expected(t, <<x, y>>) =
           <<(Cosine(t.rot) * t.size[1]) * x + (-Sine(t.rot) * t.size[2]) * y + Offset(t)[1],
             (Sine(t.rot) * t.size[1]) * x + (Cosine(t.rot) * t.size[2]) * y + Offset(t)[2]>>
<1> DEFINE a1 == t.at[1]
           a2 == t.at[2]
           s1 == t.size[1]
           s2 == t.size[2]
           p1 == t.pivot[1]
           p2 == t.pivot[2]
           u == <<x * s1 - p1, y * s2 - p2>>
           v == Turned(u, t.rot)
<1>1. /\ a1 \in Int /\ a2 \in Int /\ s1 \in Int /\ s2 \in Int /\ p1 \in Int /\ p2 \in Int
      /\ t.rot \in 0..3
    BY Params
<1>2. Expected(t, <<x, y>>) = <<a1 + p1 + v[1], a2 + p2 + v[2]>>
    BY DEF Expected
<1>3. /\ Offset(t)[1] = a1 + p1 - (Cosine(t.rot) * p1 - Sine(t.rot) * p2)
      /\ Offset(t)[2] = a2 + p2 - (Sine(t.rot) * p1 + Cosine(t.rot) * p2)
    BY DEF Offset
<1>4. u[1] = x * s1 - p1 /\ u[2] = y * s2 - p2
    OBVIOUS
<1>5. /\ t.rot = 0 => v = u /\ Cosine(t.rot) = 1 /\ Sine(t.rot) = 0
      /\ t.rot = 1 => v = <<-u[2], u[1]>> /\ Cosine(t.rot) = 0 /\ Sine(t.rot) = 1
      /\ t.rot = 2 => v = <<-u[1], -u[2]>> /\ Cosine(t.rot) = -1 /\ Sine(t.rot) = 0
      /\ t.rot = 3 => v = <<u[2], -u[1]>> /\ Cosine(t.rot) = 0 /\ Sine(t.rot) = -1
    BY DEF Turned, Cosine, Sine
<1> HIDE DEF a1, a2, s1, s2, p1, p2, u, v
<1>6. /\ a1 + p1 + v[1] =
           (Cosine(t.rot) * s1) * x + (-Sine(t.rot) * s2) * y + Offset(t)[1]
      /\ a2 + p2 + v[2] =
           (Sine(t.rot) * s1) * x + (Cosine(t.rot) * s2) * y + Offset(t)[2]
  <2>1. PICK X \in Int : X = x * s1
      BY <1>1
  <2>2. PICK Y \in Int : Y = y * s2
      BY <1>1
  <2>3. /\ (1 * s1) * x = X /\ (0 * s1) * x = 0 /\ ((-1) * s1) * x = -X
        /\ (1 * s2) * y = Y /\ (0 * s2) * y = 0 /\ ((-1) * s2) * y = -Y
        /\ (-(1 * s2)) * y = -Y /\ (-(0 * s2)) * y = 0 /\ (-((-1) * s2)) * y = Y
    <3>1. \A k \in Int : 1 * k = k /\ 0 * k = 0
        OBVIOUS
    <3>2. /\ s1 * x = X /\ (-s1) * x = -X /\ s2 * y = Y /\ (-s2) * y = -Y /\ 0 * x = 0 /\ 0 * y = 0
        BY <1>1, <2>1, <2>2
    <3> QED
        BY <1>1, <3>1, <3>2, Negated
  <2>4. /\ 0 * p1 = 0 /\ 1 * p1 = p1 /\ -1 * p1 = -p1 /\ 0 * p2 = 0 /\ 1 * p2 = p2 /\ -1 * p2 = -p2
      BY <1>1
  <2>5. u[1] = X - p1 /\ u[2] = Y - p2
      BY <1>4, <2>1, <2>2
  <2>6. CASE t.rot = 0
    <3>1. v[1] = X - p1 /\ v[2] = Y - p2
        BY <1>1, <1>5, <2>5, <2>6
    <3>2. Offset(t)[1] = a1 /\ Offset(t)[2] = a2
        BY <1>1, <1>3, <1>5, <2>4, <2>6
    <3>3. /\ (Cosine(t.rot) * s1) * x = X /\ (-Sine(t.rot) * s2) * y = 0
          /\ (Sine(t.rot) * s1) * x = 0 /\ (Cosine(t.rot) * s2) * y = Y
        BY <1>5, <2>3, <2>6
    <3> QED
        BY <1>1, <3>1, <3>2, <3>3
  <2>7. CASE t.rot = 1
    <3>1. v[1] = p2 - Y /\ v[2] = X - p1
        BY <1>1, <1>5, <2>5, <2>7
    <3>2. Offset(t)[1] = a1 + p1 + p2 /\ Offset(t)[2] = a2 + p2 - p1
        BY <1>1, <1>3, <1>5, <2>4, <2>7
    <3>3. /\ (Cosine(t.rot) * s1) * x = 0 /\ (-Sine(t.rot) * s2) * y = -Y
          /\ (Sine(t.rot) * s1) * x = X /\ (Cosine(t.rot) * s2) * y = 0
        BY <1>5, <2>3, <2>7
    <3> QED
        BY <1>1, <3>1, <3>2, <3>3
  <2>8. CASE t.rot = 2
    <3>1. v[1] = p1 - X /\ v[2] = p2 - Y
        BY <1>1, <1>5, <2>5, <2>8
    <3>2. Offset(t)[1] = a1 + p1 + p1 /\ Offset(t)[2] = a2 + p2 + p2
        BY <1>1, <1>3, <1>5, <2>4, <2>8
    <3>3. /\ (Cosine(t.rot) * s1) * x = -X /\ (-Sine(t.rot) * s2) * y = 0
          /\ (Sine(t.rot) * s1) * x = 0 /\ (Cosine(t.rot) * s2) * y = -Y
        BY <1>5, <2>3, <2>8
    <3> QED
        BY <1>1, <3>1, <3>2, <3>3
  <2>9. CASE t.rot = 3
    <3>1. v[1] = Y - p2 /\ v[2] = p1 - X
        BY <1>1, <1>5, <2>5, <2>9
    <3>2. Offset(t)[1] = a1 + p1 - p2 /\ Offset(t)[2] = a2 + p2 + p1
        BY <1>1, <1>3, <1>5, <2>4, <2>9
    <3>3. /\ (Cosine(t.rot) * s1) * x = 0 /\ (-Sine(t.rot) * s2) * y = Y
          /\ (Sine(t.rot) * s1) * x = -X /\ (Cosine(t.rot) * s2) * y = 0
        BY <1>5, <2>3, <2>9
    <3> QED
        BY <1>1, <3>1, <3>2, <3>3
  <2> QED
      BY <1>1, <2>6, <2>7, <2>8, <2>9
<1> QED
    BY <1>2, <1>6 DEF s1, s2

(* RenderInv is inductive.                                                 *)
LEMMA RenderStart == RenderInit => RenderInv
<1> SUFFICES ASSUME RenderInit PROVE RenderInv
    OBVIOUS
<1>1. PICK junk \in {0, 7} : mem = [s_matprj |-> Zero, matrix |-> [i \in Cell |-> junk]]
    BY DEF RenderInit
<1>2. mem \in Memory
    BY <1>1 DEF Memory, Zero
<1> QED
    BY <1>2 DEF RenderInit, RenderInv, Composing

(* init_2d_renderer either sets the projection or compiles no shader.      *)
LEMMA SetUpKeeps == RenderInv /\ init_2d_renderer => RenderInv'
<1> SUFFICES ASSUME RenderInv, init_2d_renderer PROVE RenderInv'
    OBVIOUS
<1>1. window \in (Nat \ {0}) \X (Nat \ {0})
    BY RenderAssumption DEF RenderInv
<1>2. window[1] \in Int /\ window[2] \in Int
    BY <1>1
<1>3. Projection(window[1], window[2]) \in [Cell -> Int]
    BY <1>2, RowsOfProjection
<1>4. mem' \in Memory /\ (compiled' => mem'.s_matprj = Projection(window[1], window[2]))
    BY <1>3 DEF init_2d_renderer, RenderInv, Memory
<1> QED
    BY <1>4 DEF init_2d_renderer, RenderInv, Composing

(* A draw begins with a matrix of which nothing is known.                  *)
LEMMA BeginKeeps == RenderInv /\ BeginDraw => RenderInv'
<1> SUFFICES ASSUME RenderInv, BeginDraw PROVE RenderInv'
    OBVIOUS
<1>1. tparam' \in Param /\ uv' = flip_texcoord(varray, tparam'.upsidedown)
    BY DEF BeginDraw
<1>2. Composed(mem.matrix, tparam)'
    BY DEF BeginDraw, Composed
<1> QED
    BY <1>1, <1>2 DEF BeginDraw, RenderInv, Composing

(* A step that writes the matrix has only to say what it is.               *)
LEMMA StepKeeps ==
  ASSUME RenderInv, NEW at \in Composing, NEW to \in Composing, NEW x \in [Cell -> Int],
         Step(at, to, x), Composed(x, tparam)'
  PROVE  RenderInv'
<1>1. /\ pc = at /\ pc' = to /\ mem' = [mem EXCEPT !.matrix = x]
      /\ window' = window /\ compiled' = compiled /\ uv' = uv /\ tparam' = tparam
    BY DEF Step
<1>2. /\ window \in Window /\ compiled \in BOOLEAN /\ mem \in Memory
      /\ compiled => mem.s_matprj = Projection(window[1], window[2])
      /\ tparam \in Param /\ uv = flip_texcoord(varray, tparam.upsidedown)
    BY <1>1 DEF RenderInv
<1>3. mem' \in Memory /\ mem'.matrix = x /\ mem'.s_matprj = mem.s_matprj
    BY <1>1, <1>2 DEF Memory
<1>4. Composed(mem.matrix, tparam)'
    BY <1>3 DEF Composed, ShownAt
<1>5. pc' # "init"
    BY <1>1 DEF Composing
<1> QED
    BY <1>1, <1>2, <1>3, <1>4, <1>5 DEF RenderInv

(* The steps of a draw, one after the other.                               *)
LEMMA ComposeKeeps == RenderInv /\ Compose => RenderInv'
<1> SUFFICES ASSUME RenderInv, Compose PROVE RenderInv'
    OBVIOUS
<1>1. /\ mem \in Memory /\ mem.matrix \in [Cell -> Int] /\ mem.s_matprj \in [Cell -> Int]
      /\ window \in Window
    BY DEF RenderInv, Memory
<1>2. pc \in Composing
    BY DEF Compose, Step, Composing
<1>3. tparam \in Param /\ Composed(mem.matrix, tparam)
    BY <1>2 DEF RenderInv
<1>4. PICK m \in [Cell -> Int] : m = mem.matrix
    BY <1>1
<1>5. PICK t \in Param : t = tparam
    BY <1>3
<1> DEFINE a1 == t.at[1]
           a2 == t.at[2]
           p1 == t.pivot[1]
           p2 == t.pivot[2]
           s1 == t.size[1]
           s2 == t.size[2]
           c == Cosine(t.rot)
           s == Sine(t.rot)
           o == Offset(t)
<1>6. /\ a1 \in Int /\ a2 \in Int /\ p1 \in Int /\ p2 \in Int /\ s1 \in Int /\ s2 \in Int
      /\ t.rot \in 0..3 /\ c \in Int /\ s \in Int /\ o[1] \in Int /\ o[2] \in Int
    BY Params
<1>7. /\ o[1] = a1 + p1 - (c * p1 - s * p2) /\ o[2] = a2 + p2 - (s * p1 + c * p2)
      /\ t.rot = 0 => c = 1 /\ s = 0
    BY DEF Offset, Cosine, Sine
<1>8. /\ pc = "translate" => Affine(m, 1, 0, 0, 1, 0, 0)
      /\ pc = "pivot"     => Affine(m, 1, 0, 0, 1, a1, a2)
      /\ pc = "rotate"    => Affine(m, 1, 0, 0, 1, a1 + p1, a2 + p2)
      /\ pc = "unpivot"   => Affine(m, c, s, -s, c, a1 + p1, a2 + p2)
      /\ pc = "scale"     => Affine(m, c, s, -s, c, o[1], o[2])
      /\ pc = "mult"      => Affine(m, c * s1, s * s1, -s * s2, c * s2, o[1], o[2])
    BY <1>3, <1>4, <1>5 DEF Composed
<1> HIDE DEF a1, a2, p1, p2, s1, s2, c, s, o
<1>9. CASE Step("identity", "translate", matrix_identity)
  <2>1. Affine(matrix_identity, 1, 0, 0, 1, 0, 0) /\ matrix_identity \in [Cell -> Int]
      BY IdentityIs DEF Affine
  <2>2. Composed(matrix_identity, tparam)'
      BY <1>9, <2>1 DEF Step, Composed
  <2> QED
      BY <1>9, <2>1, <2>2, StepKeeps DEF Composing
<1>10. CASE Step("translate", IF t.rot # 0 THEN "pivot" ELSE "scale", matrix_translate(m, a1, a2, 0))
  <2> DEFINE x == matrix_translate(m, a1, a2, 0)
  <2>1. Affine(m, 1, 0, 0, 1, 0, 0)
      BY <1>8, <1>10 DEF Step
  <2>2. Affine(x, 1, 0, 0, 1, 0 + 0 * a2 + 1 * a1, 0 + 1 * a2 + 0 * a1)
      BY <1>6, <2>1, TranslateIs
  <2> HIDE DEF x
  <2>3. 0 + 0 * a2 + 1 * a1 = a1 /\ 0 + 1 * a2 + 0 * a1 = a2
      BY <1>6
  <2>4. Affine(x, 1, 0, 0, 1, a1, a2) /\ x \in [Cell -> Int]
      BY <2>2, <2>3 DEF Affine
  <2>5. t.rot = 0 => Affine(x, c, s, -s, c, o[1], o[2])
    <3>1. ASSUME t.rot = 0 PROVE c = 1 /\ s = 0 /\ -s = 0 /\ o[1] = a1 /\ o[2] = a2
      <4>1. c * p1 = p1 /\ s * p2 = 0 /\ s * p1 = 0 /\ c * p2 = p2 /\ c = 1 /\ s = 0
          BY <1>6, <1>7, <3>1
      <4>2. -s = 0
          BY <1>6, <4>1, Negated
      <4>3. o[1] = a1 /\ o[2] = a2
          BY <1>6, <1>7, <4>1
      <4> QED
          BY <4>1, <4>2, <4>3
    <3> QED
        BY <2>4, <3>1
  <2>6. Composed(x, tparam)'
      BY <1>5, <1>10, <2>4, <2>5 DEF Step, Composed, a1, a2, c, s, o
  <2> QED
      BY <1>10, <2>4, <2>6, StepKeeps DEF Composing, x
<1>11. CASE Step("pivot", "rotate", matrix_translate(m, p1, p2, 0))
  <2> DEFINE x == matrix_translate(m, p1, p2, 0)
  <2>1. Affine(m, 1, 0, 0, 1, a1, a2)
      BY <1>8, <1>11 DEF Step
  <2>2. Affine(x, 1, 0, 0, 1, a1 + 0 * p2 + 1 * p1, a2 + 1 * p2 + 0 * p1)
      BY <1>6, <2>1, TranslateIs
  <2> HIDE DEF x
  <2>3. a1 + 0 * p2 + 1 * p1 = a1 + p1 /\ a2 + 1 * p2 + 0 * p1 = a2 + p2
      BY <1>6
  <2>4. Affine(x, 1, 0, 0, 1, a1 + p1, a2 + p2) /\ x \in [Cell -> Int]
      BY <2>2, <2>3 DEF Affine
  <2>5. Composed(x, tparam)'
      BY <1>5, <1>11, <2>4 DEF Step, Composed, a1, a2, p1, p2
  <2> QED
      BY <1>11, <2>4, <2>5, StepKeeps DEF Composing, x
<1>12. CASE Step("rotate", "unpivot", matrix_rotate(m, t.rot))
  <2> DEFINE x == matrix_rotate(m, t.rot)
  <2>1. Affine(m, 1, 0, 0, 1, a1 + p1, a2 + p2)
      BY <1>8, <1>12 DEF Step
  <2>2. Affine(x, Cosine(t.rot), Sine(t.rot), -Sine(t.rot), Cosine(t.rot), a1 + p1, a2 + p2)
      BY <1>6, <2>1, RotateIs
  <2> HIDE DEF x
  <2>3. x \in [Cell -> Int]
      BY <2>2 DEF Affine
  <2>4. Composed(x, tparam)'
      BY <1>5, <1>12, <2>2 DEF Step, Composed, a1, a2, p1, p2
  <2> QED
      BY <1>12, <2>3, <2>4, StepKeeps DEF Composing, x
<1>13. CASE Step("unpivot", "scale", matrix_translate(m, -p1, -p2, 0))
  <2> DEFINE x == matrix_translate(m, -p1, -p2, 0)
  <2>1. Affine(m, c, s, -s, c, a1 + p1, a2 + p2)
      BY <1>8, <1>13 DEF Step
  <2>2. Affine(x, c, s, -s, c, (a1 + p1) + (-s) * (-p2) + c * (-p1), (a2 + p2) + c * (-p2) + s * (-p1))
    <3>1. -p1 \in Int /\ -p2 \in Int /\ -s \in Int /\ a1 + p1 \in Int /\ a2 + p2 \in Int
        BY <1>6
    <3> QED
        BY <1>6, <2>1, <3>1, TranslateIs
  <2> HIDE DEF x
  <2>3. /\ (a1 + p1) + (-s) * (-p2) + c * (-p1) = o[1]
        /\ (a2 + p2) + c * (-p2) + s * (-p1) = o[2]
    <3>1. /\ (-s) * (-p2) = s * p2 /\ c * (-p1) = -(c * p1)
          /\ c * (-p2) = -(c * p2) /\ s * (-p1) = -(s * p1)
          /\ s * p2 \in Int /\ c * p1 \in Int /\ c * p2 \in Int /\ s * p1 \in Int
        BY <1>6
    <3> QED
        BY <1>6, <1>7, <3>1
  <2>4. Affine(x, c, s, -s, c, o[1], o[2]) /\ x \in [Cell -> Int]
      BY <2>2, <2>3 DEF Affine
  <2>5. Composed(x, tparam)'
      BY <1>5, <1>13, <2>4 DEF Step, Composed, c, s, o
  <2> QED
      BY <1>13, <2>4, <2>5, StepKeeps DEF Composing, x
<1>14. CASE Step("scale", "mult", matrix_scale(m, s1, s2, 1))
  <2> DEFINE x == matrix_scale(m, s1, s2, 1)
  <2>1. Affine(m, c, s, -s, c, o[1], o[2])
      BY <1>8, <1>14 DEF Step
  <2>2. Affine(x, c * s1, s * s1, (-s) * s2, c * s2, o[1], o[2])
    <3>1. -s \in Int
        BY <1>6
    <3> QED
        BY <1>6, <2>1, <3>1, ScaleIs
  <2> HIDE DEF x
  <2>3. (-s) * s2 = -s * s2
      BY <1>6
  <2>4. Affine(x, c * s1, s * s1, -s * s2, c * s2, o[1], o[2]) /\ x \in [Cell -> Int]
      BY <2>2, <2>3 DEF Affine
  <2>5. Composed(x, tparam)'
      BY <1>5, <1>14, <2>4 DEF Step, Composed, c, s, o, s1, s2
  <2> QED
      BY <1>14, <2>4, <2>5, StepKeeps DEF Composing, x
<1>15. CASE Step("mult", "drawn", matrix_mult(mem, "matrix", "s_matprj", "matrix").matrix)
  <2>1. PICK q \in [Cell -> Int] : q = mem.s_matprj
      BY <1>1
  <2> DEFINE x == Product(q, m)
  <2>2. x \in [Cell -> Int]
      BY ProductIsMatrix
  <2>3. matrix_mult(mem, "matrix", "s_matprj", "matrix").matrix = x
    <3> DEFINE N == {"s_matprj", "matrix"}
    <3>1. PICK memory \in [N -> [Cell -> Int]] : memory = mem
        BY <1>1 DEF Memory
    <3>2. "s_matprj" \in N /\ "matrix" \in N
        OBVIOUS
    <3> HIDE DEF N
    <3>3. matrix_mult(memory, "matrix", "s_matprj", "matrix")
            = Multiplied(memory, "matrix", "s_matprj", "matrix")
        BY <3>2, MultIsProduct
    <3>4. memory["s_matprj"] = q /\ memory["matrix"] = m
        BY <1>4, <2>1, <3>1
    <3> HIDE DEF x
    <3>5. matrix_mult(memory, "matrix", "s_matprj", "matrix") = [memory EXCEPT !["matrix"] = x]
        BY <3>3, <3>4 DEF x, Multiplied
    <3> QED
        BY <3>1, <3>2, <3>5
  <2> HIDE DEF x
  <2>4. ASSUME compiled, NEW k \in DOMAIN varray
        PROVE  ShownAt(x, varray[k], Expected(t, varray[k]))
    <3>1. PICK w \in Nat \ {0}, h \in Nat \ {0} : window = <<w, h>>
        BY <1>1, RenderAssumption
    <3>2. x = Product(Projection(w, h), m)
        BY <2>1, <2>4, <3>1 DEF RenderInv, x
    <3>3. PICK i \in {0, 1}, j \in {0, 1} : varray[k] = <<i, j>>
        BY DEF varray
    <3>4. Affine(m, c * s1, s * s1, -s * s2, c * s2, o[1], o[2])
        BY <1>8, <1>15 DEF Step
    <3>5. c * s1 \in Int /\ s * s1 \in Int /\ -s * s2 \in Int /\ c * s2 \in Int
        BY <1>6
    <3>6. ShownAt(Product(Projection(w, h), m), <<i, j>>,
                  <<(c * s1) * i + (-s * s2) * j + o[1], (s * s1) * i + (c * s2) * j + o[2]>>)
        BY <1>6, <3>1, <3>4, <3>5, ShownIs
    <3>7. Expected(t, <<i, j>>) =
            <<(c * s1) * i + (-s * s2) * j + o[1], (s * s1) * i + (c * s2) * j + o[2]>>
        BY ExpectedIs DEF c, s, s1, s2, o
    <3> QED
        BY <3>2, <3>3, <3>6, <3>7
  <2>5. Composed(x, tparam)'
      BY <1>5, <1>15, <2>4 DEF Step, Composed, ShownAt
  <2> QED
      BY <1>15, <2>2, <2>3, <2>5, StepKeeps DEF Composing
<1> QED
    BY <1>4, <1>5, <1>9, <1>10, <1>11, <1>12, <1>13, <1>14, <1>15
    DEF Compose, a1, a2, p1, p2, s1, s2

(* Every step keeps RenderInv.                                             *)
LEMMA RenderStep == RenderInv /\ [RenderNext]_renderVars => RenderInv'
<1> SUFFICES ASSUME RenderInv, [RenderNext]_renderVars PROVE RenderInv'
    OBVIOUS
<1>1. CASE init_2d_renderer
    BY <1>1, SetUpKeeps
<1>2. CASE BeginDraw
    BY <1>2, BeginKeeps
<1>3. CASE Compose
    BY <1>3, ComposeKeeps
<1>4. CASE UNCHANGED renderVars
    BY <1>4 DEF renderVars, RenderInv, Composed, ShownAt
<1> QED
    BY <1>1, <1>2, <1>3, <1>4 DEF RenderNext

(* The corners' texture coordinates for each of the four modes.            *)
LEMMA Flipped ==
  ASSUME NEW mode \in 0..3, NEW k \in DOMAIN varray
  PROVE  /\ (flip_texcoord(varray, mode)[k][1] = varray[k][1]) <=> (mode < RENDER2D_FLIP_H)
         /\ (flip_texcoord(varray, mode)[k][2] = varray[k][2]) <=> (mode % 2 = 0)
<1>1. PICK i \in {0, 1}, j \in {0, 1} : varray[k] = <<i, j>>
    BY DEF varray
<1>2. flip_texcoord(varray, mode)[k] =
        <<IF (mode \div 2) % 2 = 1 THEN 1 - i ELSE i, IF (mode \div 1) % 2 = 1 THEN 1 - j ELSE j>>
    BY <1>1 DEF flip_texcoord, RENDER2D_FLIP_H, RENDER2D_FLIP_V
<1>3. /\ (mode \div 2) % 2 = 1 <=> ~(mode < 2)
      /\ (mode \div 1) % 2 = 1 <=> ~(mode % 2 = 0)
    OBVIOUS
<1>4. 1 - i # i /\ 1 - j # j
    OBVIOUS
<1> QED
    BY <1>1, <1>2, <1>3, <1>4 DEF RENDER2D_FLIP_H

(* draw_2d_texture_in: in every window, at every place and size, with every*)
(* quarter turn about every pivot and whatever the last draw left in the   *)
(* matrix, the corners of a texture are on their pixels and have the       *)
(* texture coordinates of the flip that was asked for.                     *)
THEOREM PixelsArePlaced == RenderSpec => []PixelsPlaced
<1>1. RenderInv => PixelsPlaced
  <2> SUFFICES ASSUME RenderInv, pc = "drawn", compiled, NEW k \in DOMAIN varray
               PROVE  /\ ShownAt(mem.matrix, varray[k], Expected(tparam, varray[k]))
                      /\ (uv[k][1] = varray[k][1]) <=> (tparam.upsidedown < RENDER2D_FLIP_H)
                      /\ (uv[k][2] = varray[k][2]) <=> (tparam.upsidedown % 2 = 0)
      BY DEF PixelsPlaced
  <2>1. tparam \in Param /\ uv = flip_texcoord(varray, tparam.upsidedown) /\ Composed(mem.matrix, tparam)
      BY DEF RenderInv, Composing
  <2>2. tparam.upsidedown \in 0..3
      BY <2>1 DEF Param
  <2> QED
      BY <2>1, <2>2, Flipped DEF Composed
<1> QED
    BY <1>1, RenderStart, RenderStep, PTL DEF RenderSpec
================================================================================
