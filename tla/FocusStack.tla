------------------------------ MODULE FocusStack -------------------------------
(***************************************************************************)
(* What the compositor promises about stacking and focus: the surfaces     *)
(* with a shell surface form a stack, a new one goes on top and takes the  *)
(* focus, and when the focused one goes the topmost that is left takes it. *)
(* ShellFocus implements this specification.                               *)
(***************************************************************************)
EXTENDS Naturals, Sequences

CONSTANTS Surface, NULL

VARIABLES
  stack,  (* the surfaces, the topmost last                                *)
  focus   (* the surface with the focus, or NULL                           *)

vars == <<stack, focus>>

Elems(q) == {q[i] : i \in DOMAIN q}

(* q without its first s, if it has one.                                   *)
Without(q, s) ==
  IF s \notin Elems(q) THEN q
  ELSE LET i == CHOOSE i \in DOMAIN q : q[i] = s
       IN  SubSeq(q, 1, i - 1) \o SubSeq(q, i + 1, Len(q))

Top(q) == IF q = <<>> THEN NULL ELSE q[Len(q)]

Init == stack = <<>> /\ focus = NULL

Raise(s) ==
  /\ s \notin Elems(stack)
  /\ stack' = Append(stack, s)
  /\ focus' = s

Drop(s) ==
  /\ s \in Elems(stack)
  /\ stack' = Without(stack, s)
  /\ focus' = IF focus = s THEN Top(stack') ELSE focus

Next == \E s \in Surface : Raise(s) \/ Drop(s)

Spec == Init /\ [][Next]_vars

================================================================================
