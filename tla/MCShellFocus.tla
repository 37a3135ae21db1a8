------------------------------ MODULE MCShellFocus -----------------------------
(***************************************************************************)
(* ShellFocus with a client of two toplevels, so that a hang-up hands the  *)
(* focus to a surface that is about to go too, and a client of one         *)
(* surface, which may use wl_shell.                                          *)
(***************************************************************************)
EXTENDS ShellFocus

CONSTANTS c1, c2, s1, s2, s3

MCOwner == [s \in Surface |-> IF s = s3 THEN c2 ELSE c1]
MCId == [s \in Surface |-> IF s = s2 THEN 2 ELSE IF s = s3 THEN 3 ELSE 1]

================================================================================
