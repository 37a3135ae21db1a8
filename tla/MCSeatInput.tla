------------------------------ MODULE MCSeatInput -------------------------------
(***************************************************************************)
(* SeatInput for an orderly client of two surfaces and a client of one     *)
(* that binds, asks for and releases devices as it likes.                  *)
(***************************************************************************)
EXTENDS SeatInput

CONSTANTS a, b, s1, s2, s3
MCOwner == [s \in Surface |-> IF s \in {s1, s2} THEN a ELSE b]
CONSTANTS WantsOfA, WantsOfB
MCWants == [c \in Client |-> IF c = a THEN WantsOfA ELSE WantsOfB]

(* Nothing is claimed of what follows undefined behaviour.                 *)
Defined == ~undefined

================================================================================
