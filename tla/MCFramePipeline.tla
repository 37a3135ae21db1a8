---------------------------- MODULE MCFramePipeline ----------------------------
(***************************************************************************)
(* FramePipeline on small instances.  Two surfaces are enough for one      *)
(* client's upload to complete before another's and for one pass of        *)
(* has_updated_tex to find a part of the uploads ready; two buffers for a  *)
(* buffer to be on display while another is uploaded.                      *)
(***************************************************************************)
EXTENDS FramePipeline, TLC

CONSTANTS PacedFrames, FreeFrames
MCMaxFrames == [s \in Surface |-> IF s \in Throttled THEN PacedFrames ELSE FreeFrames]

(* Surfaces differ only in whether they are throttled, buffers not at all. *)
Symmetry == Permutations(Throttled) \union Permutations(Surface \ Throttled)
              \union Permutations(Buffer)

(* Nothing happens after the process has left its main loop, so the states *)
(* it ends in need not be told apart.                                      *)
View == IF loop = "out" THEN <<loop>> ELSE vars

================================================================================
