---------------------------- MODULE MCInputDevices -----------------------------
(***************************************************************************)
(* InputDevices for two devices.  Every configuration of their classes,    *)
(* their names and the environment is chosen from; the events are followed *)
(* for those in which both are keyboards and touchscreens.                 *)
(***************************************************************************)
EXTENDS InputDevices

CONSTANTS d1, d2, l1, l2, gone

First == [node : {d1}, links : {{}, {l1}, {l1, l2}}, usable : {TRUE}, classes : SUBSET Class]
Second == [node : {d2}, links : {{}}, usable : BOOLEAN, classes : SUBSET Class]
MCUdev == {<<a, b>> : a \in First, b \in Second}

MCEnvironment ==
  {[keyboard |-> k, touch |-> t, mouse |-> m, mouse_abs |-> a] :
     k \in {NULL, d1, l1}, t \in {NULL, d2, gone},
     m \in {NULL, d1, l1, gone}, a \in {NULL, d1, d2}}

MCDelta == {-1, 1}
MCAbsolute == {<<0, 0>>, <<2, 1>>}

Followed ==
  thread = "loop" \/ s_modeset_dev =>
    /\ udev[1].links = {} /\ \A i \in 1..2 : udev[i].usable /\ udev[i].classes = Class
    /\ \A x \in DOMAIN env : env[x] = NULL
================================================================================
