------------------------------ MODULE ShellFocus -------------------------------
(***************************************************************************)
(* Roles, stacking, focus and configure events (src/compositor/main.c):    *)
(* wl_shell and xdg_shell, the first commit of a toplevel, the idle tasks  *)
(* that send configure events, and the destruction of a client's surfaces. *)
(*                                                                         *)
(* One wl_event_loop_dispatch is a batch: it gives each ready client one   *)
(* turn, in which it has several requests served or hangs up, and then     *)
(* runs the idle tasks in the order in which they were added.              *)
(***************************************************************************)
EXTENDS Integers, Sequences, FiniteSets

CONSTANTS
  Client,
  Surface,         (* slots for compositor_surface objects                 *)
  Owner,           (* the client of each                                   *)
  Id,              (* the object id of its wl_surface                      *)
  WlShell,         (* the surfaces whose client may use wl_shell for them  *)
  Restless,        (* those whose client goes on to set and unset          *)
                   (* fullscreen, to unmap and to destroy the toplevel     *)
  sfc_fullscreen,  (* the option -f                                        *)
  MaxIdle,         (* bound: idle tasks a fullscreen request may add to    *)
  NULL

ASSUME OwnerAssumption == Owner \in [Surface -> Client]
ASSUME IdAssumption == Id \in [Surface -> Nat] /\ \A s, t \in Surface : Id[s] = Id[t] => s = t
ASSUME ShellAssumption == WlShell \subseteq Surface /\ Restless \subseteq Surface
ASSUME OptionAssumption == sfc_fullscreen \in BOOLEAN /\ MaxIdle \in Nat
ASSUME NullAssumption == NULL \notin Surface /\ NULL \notin Client

VARIABLES
  alive,         (* surfaces that exist in the server                      *)
  surface_list,  (* compositor.surface_list, from head to tail             *)
  focused_csfc,
  shell_surface, (* csfc->shell_surface: "none", "wl" or "xdg", by the     *)
                 (* shell that made it                                     *)
  toplevel,      (* shell_surface->toplevel: "none", "live", or "dead"     *)
                 (* when it points to a destroyed resource                 *)
  added,         (* shell_surface->added                                   *)
  pending,       (* toplevel->pending.state; the size follows fullscreen   *)
  idle,          (* idle tasks: the surface whose shell_surface each has   *)
  phase,         (* "serve" requests, run "idle" tasks, or "crashed"       *)
  turn,          (* the client being served, or NULL                       *)
  served,        (* the clients that have had their turn in this batch     *)
  leaving,       (* surfaces of a client that hung up, still to destroy    *)
  (* What the clients see: no code reads these.                            *)
  sent,          (* the state of the last configure event, or NULL         *)
  stage,         (* "new" before an initial commit, "awaiting" a configure *)
                 (* event after the first one and "remapping" after a      *)
                 (* later one, then "configured", then "mapped"            *)
  robbed         (* lost the activated state to a wl_shell surface, after  *)
                 (* the last configure event                               *)

roleVars   == <<shell_surface, toplevel, added>>
listVars   == <<surface_list, focused_csfc>>
clientVars == <<sent, stage>>
vars == <<alive, listVars, roleVars, pending, idle, phase, turn, served, leaving,
          clientVars, robbed>>

State == [fullscreen : BOOLEAN, activated : BOOLEAN]
NoState == [fullscreen |-> FALSE, activated |-> FALSE]

Init ==
  /\ alive = {} /\ surface_list = <<>> /\ focused_csfc = NULL
  /\ shell_surface = [s \in Surface |-> "none"]
  /\ toplevel = [s \in Surface |-> "none"]
  /\ added = [s \in Surface |-> FALSE]
  /\ pending = [s \in Surface |-> NoState]
  /\ idle = <<>> /\ phase = "serve" /\ turn = NULL /\ served = {} /\ leaving = {}
  /\ sent = [s \in Surface |-> NULL]
  /\ stage = [s \in Surface |-> "new"]
  /\ robbed = {}

--------------------------------------------------------------------------------
(* Requests.                                                               *)

(* The client's connection is read once per batch.                         *)
MayServe(c) == phase = "serve" /\ leaving = {} /\ (c \in served => turn = c)
Serve(c) == MayServe(c) /\ turn' = c /\ served' = served \union {c}

Requests(s) ==
  /\ s \in alive /\ Serve(Owner[s])
  /\ UNCHANGED <<alive, phase, leaving>>

CreateSurface(s) ==
  /\ s \notin alive /\ Serve(Owner[s])
  /\ alive' = alive \union {s}
  /\ UNCHANGED <<listVars, roleVars, pending, idle, phase, leaving, clientVars, robbed>>

(* The toplevel that a new shell surface takes the focus from, if any.     *)
LosersUnchecked == {f \in Surface : f = focused_csfc}
Losers == {f \in Surface : f = focused_csfc /\ toplevel[f] # "none"}

Deactivated == [s \in Surface |->
                  IF s \in Losers THEN [pending[s] EXCEPT !.activated = FALSE] ELSE pending[s]]

(* wl_list_insert(surface_list.prev, link): at the tail, the top.          *)
InsertAtHead(s) == <<s>> \o surface_list
InsertAtTail(s) == Append(surface_list, s)

TakeFocus(s, shell) ==
  /\ shell_surface[s] = "none"
  /\ shell_surface' = [shell_surface EXCEPT ![s] = shell]
  /\ pending' = Deactivated
  /\ focused_csfc' = s
  /\ surface_list' = InsertAtTail(s)

(* wl_shell_get_shell_surface: the loser is told nothing.                  *)
GetShellSurface(s) ==
  /\ Requests(s) /\ s \in WlShell
  /\ TakeFocus(s, "wl")
  /\ robbed' = robbed \union {f \in Losers : pending[f].activated}
  /\ UNCHANGED <<toplevel, added, idle, clientVars>>

(* xdg_shell_get_xdg_surface: the loser will be configured.                *)
IdleForLosers == IF Losers = {} THEN idle ELSE Append(idle, focused_csfc)

GetXdgSurface(s) ==
  /\ Requests(s)
  /\ TakeFocus(s, "xdg")
  /\ idle' = IdleForLosers
  /\ UNCHANGED <<toplevel, added, clientVars, robbed>>

GetToplevel(s) ==
  /\ Requests(s) /\ shell_surface[s] = "xdg" /\ toplevel[s] = "none"
  /\ toplevel' = [toplevel EXCEPT ![s] = "live"]
  /\ UNCHANGED <<shell_surface, added, listVars, pending, idle, clientVars, robbed>>

(* surface_commit of a toplevel: the first one activates it and has it     *)
(* configured; every other one does neither, also that which is to map the *)
(* surface again after it was unmapped.                                    *)
FirstCommitState(s) == [fullscreen |-> sfc_fullscreen \/ pending[s].fullscreen, activated |-> TRUE]
IdleForFocusedOnly(s) == IF s = focused_csfc THEN Append(idle, s) ELSE idle
IdleAfterFirstCommit(s) == Append(idle, s)

Commit(s) ==
  /\ Requests(s) /\ toplevel[s] # "none" /\ stage[s] = "new"
  /\ stage' = [stage EXCEPT ![s] = IF added[s] THEN "remapping" ELSE "awaiting"]
  /\ IF added[s] THEN UNCHANGED <<pending, idle, added>>
     ELSE /\ pending' = [pending EXCEPT ![s] = FirstCommitState(s)]
          /\ idle' = IdleAfterFirstCommit(s)
          /\ added' = [added EXCEPT ![s] = TRUE]
  /\ UNCHANGED <<listVars, shell_surface, toplevel, sent, robbed>>

(* The commits that map and unmap the surface: nothing that surface_commit *)
(* does for a toplevel after its first commit depends on the buffer.       *)
CommitBuffer(s) ==
  /\ Requests(s) /\ toplevel[s] = "live" /\ stage[s] = "configured"
  /\ stage' = [stage EXCEPT ![s] = "mapped"]
  /\ UNCHANGED <<listVars, roleVars, pending, idle, sent, robbed>>

CommitNull(s) ==
  /\ Requests(s) /\ s \in Restless /\ toplevel[s] = "live" /\ stage[s] = "mapped"
  /\ stage' = [stage EXCEPT ![s] = "new"]
  /\ UNCHANGED <<listVars, roleVars, pending, idle, sent, robbed>>

(* xdg_toplevel_protocol_set_fullscreen and _unset_fullscreen.             *)
IdleAfterFullscreenLost(s) == idle
IdleAfterFullscreen(s) == Append(idle, s)

SetFullscreen(s, on) ==
  /\ Requests(s) /\ s \in Restless /\ toplevel[s] = "live" /\ Len(idle) < MaxIdle
  /\ pending' = [pending EXCEPT ![s].fullscreen = on]
  /\ idle' = IdleAfterFullscreen(s)
  /\ UNCHANGED <<listVars, roleVars, clientVars, robbed>>

(* xdg_toplevel_protocol_destroy destroys the resource; shell_surface,     *)
(* surface_list and focused_csfc stay as they are.                         *)
ToplevelDestroy(s) ==
  /\ Requests(s) /\ s \in Restless /\ toplevel[s] = "live"
  /\ toplevel' = [toplevel EXCEPT ![s] = "dead"]
  /\ UNCHANGED <<shell_surface, added, listVars, pending, idle, clientVars, robbed>>

--------------------------------------------------------------------------------
(* A client that hangs up: its surfaces are destroyed in the order of ids. *)

SurfacesOf(c) == {s \in alive : Owner[s] = c}

HangUp(c) ==
  /\ MayServe(c) /\ c \notin served /\ SurfacesOf(c) # {}
  /\ served' = served \union {c} /\ turn' = NULL
  /\ leaving' = SurfacesOf(c)
  /\ UNCHANGED <<alive, listVars, roleVars, pending, idle, phase, clientVars, robbed>>

Elems(q) == {q[i] : i \in DOMAIN q}

NotRemoved(q, s) == q

(* wl_list_remove of a link that is in the list or only initialised.       *)
Without(q, s) ==
  IF s \notin Elems(q) THEN q
  ELSE LET i == CHOOSE i \in DOMAIN q : q[i] = s
       IN  SubSeq(q, 1, i - 1) \o SubSeq(q, i + 1, Len(q))

(* get_top_compositor_surface: the tail of the list.                       *)
Top(q) == IF q = <<>> THEN NULL ELSE q[Len(q)]

(* The toplevel that takes the focus over from s, if s has it.             *)
HeirsBeforeRemoval(s) ==
  {t \in Surface : focused_csfc = s /\ t = Top(surface_list) /\ toplevel[t] # "none"}
Heirs(s) ==
  {t \in Surface : focused_csfc = s /\ t = Top(Without(surface_list, s)) /\ toplevel[t] # "none"}

(* compositor_surface_destroy, after which the slot is free for another    *)
(* surface.  The client's other objects, its toplevels too, go with it.    *)
DestroySurface(s) ==
  /\ s \in leaving /\ \A t \in leaving : Id[s] <= Id[t]
  /\ leaving' = leaving \ {s}
  /\ alive' = alive \ {s}
  /\ surface_list' = Without(surface_list, s)
  /\ focused_csfc' = IF focused_csfc = s THEN Top(surface_list') ELSE focused_csfc
  /\ pending' = [t \in Surface |-> IF t = s THEN NoState
                                   ELSE [pending[t] EXCEPT !.activated = @ \/ t \in Heirs(s)]]
  /\ idle' = IF Heirs(s) = {} THEN idle ELSE Append(idle, focused_csfc')
  /\ toplevel' = [toplevel EXCEPT ![s] = "none"]
  /\ shell_surface' = [shell_surface EXCEPT ![s] = "none"]
  /\ added' = [added EXCEPT ![s] = FALSE]
  /\ sent' = [sent EXCEPT ![s] = NULL]
  /\ stage' = [stage EXCEPT ![s] = "new"]
  /\ robbed' = robbed \ {s}
  /\ UNCHANGED <<phase, turn, served>>

--------------------------------------------------------------------------------
(* The end of a batch and its idle tasks.                                  *)

EndBatch ==
  /\ phase = "serve" /\ leaving = {} /\ served # {}
  /\ phase' = "idle" /\ turn' = NULL
  /\ UNCHANGED <<alive, listVars, roleVars, pending, idle, served, leaving, clientVars, robbed>>

(* The objects xdg_send_configure_event follows pointers to still exist.   *)
Reachable(s) == s \in alive /\ toplevel[s] = "live"

(* xdg_send_configure_event.  When the surface or the toplevel's resource  *)
(* has been freed, the process crashes or writes into free memory.         *)
XdgSendConfigureEvent ==
  LET s == Head(idle) IN
  /\ phase = "idle" /\ idle # <<>>
  /\ idle' = Tail(idle)
  /\ \/ /\ Reachable(s)
        /\ sent' = [sent EXCEPT ![s] = pending[s]]
        /\ stage' = [stage EXCEPT ![s] = IF @ \in {"awaiting", "remapping"} THEN "configured"
                                               ELSE @]
        /\ robbed' = robbed \ {s}
        /\ phase' = phase
     \/ /\ ~Reachable(s)
        /\ phase' \in {phase, "crashed"}
        /\ UNCHANGED <<clientVars, robbed>>
  /\ UNCHANGED <<alive, listVars, roleVars, pending, turn, served, leaving>>

NextBatch ==
  /\ phase = "idle" /\ idle = <<>>
  /\ phase' = "serve" /\ served' = {}
  /\ UNCHANGED <<alive, listVars, roleVars, pending, idle, turn, leaving, clientVars, robbed>>

--------------------------------------------------------------------------------
Request(s) ==
  \/ CreateSurface(s) \/ GetShellSurface(s) \/ GetXdgSurface(s) \/ GetToplevel(s)
  \/ Commit(s) \/ CommitBuffer(s) \/ CommitNull(s) \/ ToplevelDestroy(s)
  \/ \E on \in BOOLEAN : SetFullscreen(s, on)

Dispatch == EndBatch \/ XdgSendConfigureEvent \/ NextBatch \/ \E s \in Surface : DestroySurface(s)

Next ==
  \/ \E s \in Surface : Request(s)
  \/ \E c \in Client : HangUp(c)
  \/ Dispatch

Spec == Init /\ [][Next]_vars

(* A batch is finite, and the main thread returns to the event loop.       *)
FairSpec == Spec /\ WF_vars(Dispatch)

--------------------------------------------------------------------------------
TypeOK ==
  /\ alive \subseteq Surface /\ leaving \subseteq alive /\ robbed \subseteq Surface
  /\ surface_list \in Seq(Surface)
  /\ focused_csfc \in Surface \union {NULL}
  /\ shell_surface \in [Surface -> {"none", "wl", "xdg"}]
  /\ toplevel \in [Surface -> {"none", "live", "dead"}]
  /\ added \in [Surface -> BOOLEAN]
  /\ pending \in [Surface -> State]
  /\ idle \in Seq(Surface)
  /\ phase \in {"serve", "idle", "crashed"}
  /\ turn \in Client \union {NULL} /\ served \subseteq Client
  /\ sent \in [Surface -> State \union {NULL}]
  /\ stage \in [Surface -> {"new", "awaiting", "remapping", "configured", "mapped"}]

(* focused_csfc and every surface of the list exist and can be followed to *)
(* a shell surface, as get_xdg_surface and compositor_surface_destroy do   *)
(* without a check, and the focus is always with the topmost surface.      *)
FocusValid ==
  /\ \A s \in Elems(surface_list) : s \in alive /\ shell_surface[s] # "none"
  /\ focused_csfc = Top(surface_list)

(* The surface with the focus is activated from its first commit on: the   *)
(* focus never returns to a toplevel that goes on believing it lost it.    *)
FocusedIsActivated ==
  \A s \in Surface : s = focused_csfc /\ added[s] => pending[s].activated

(* Between batches every toplevel has been told the state the compositor   *)
(* has recorded for it; only one whose focus a wl_shell surface took may   *)
(* not know.                                                               *)
ConfiguredAfterBatch ==
  phase = "serve" /\ served = {} =>
    \A s \in Surface \ robbed : Reachable(s) /\ added[s] => sent[s] = pending[s]

(* An idle task has a toplevel to follow, and it outlives the surface only *)
(* when that surface's client left after the task was added, in the same   *)
(* batch, or destroyed the toplevel itself.                                *)
IdleTasksBounded ==
  \A s \in Elems(idle) :
    /\ s \in alive => toplevel[s] # "none"
    /\ Reachable(s) \/ toplevel[s] = "dead" \/ Owner[s] \in served

(* The first initial commit of a toplevel is answered by a configure       *)
(* event, whatever its client and the others do meanwhile, unless the      *)
(* client destroys the toplevel, its connection ends or the server         *)
(* crashes.  Nothing is claimed of the initial commit with which a client  *)
(* maps an unmapped toplevel again: the code does not answer that one      *)
(* (main.c:307), so a toplevel may stay "remapping" for good.              *)
InitialCommitAnswered ==
  \A s \in Surface :
    stage[s] = "awaiting" ~> \/ stage[s] = "configured" \/ toplevel[s] = "dead"
                             \/ s \notin alive \/ phase = "crashed"

(* Stacking and focus are those of FocusStack.                             *)
Stacking == INSTANCE FocusStack WITH stack <- surface_list, focus <- focused_csfc
StackingImplemented == Stacking!Spec

================================================================================
