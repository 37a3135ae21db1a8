------------------------------- MODULE HostEvents ------------------------------
(***************************************************************************)
(* The nested window systems: how the events of the host display get from  *)
(* the connection to the compositor, in winsys_wayland.c, winsys_x11.c and *)
(* winsys_xcb.c.  Each has an event thread; the main thread uses the same  *)
(* connection, to start up and to swap buffers.                            *)
(*                                                                         *)
(* Under Wayland both threads read and dispatch with libwayland's          *)
(* prepare_read, read_events and dispatch_pending: the thread that is the  *)
(* last to call read_events reads for all, the others sleep until then.    *)
(* Requests stay in a buffer until one of the threads flushes it.  Under   *)
(* X11 and XCB the event thread polls the socket and takes events from the *)
(* library's queue; a thread that waits for a reply moves what it finds on *)
(* the socket into that queue.                                             *)
(*                                                                         *)
(* The compositor sets its functions for the events when the window is     *)
(* there; an event that is handled before is dropped.                      *)
(***************************************************************************)
EXTENDS Integers, SequencesExt

CONSTANTS
  MaxEvents,     (* bound: input events and pings of the host              *)
  MaxFaults      (* bound: what may go wrong at poll                       *)

ASSUME BoundsAssumption == MaxEvents \in Nat /\ MaxFaults \in Nat

VARIABLES
  winsys, vsync,         (* the build and its option; they never change    *)
  (* The host and the connection.                                          *)
  wire,                  (* events sent and not read,                      *)
  frame,                 (* and whether the frame event is among them: EGL *)
                         (* has a queue of its own for it                  *)
  received,              (* requests the host has yet to act on            *)
  announced,             (* how many of its globals the host has announced *)
  granted,               (* whether the host may send input                *)
  gone,                  (* whether the host has hung up                   *)
  (* libwayland, Xlib or xcb.                                              *)
  queue,                 (* events read and not taken                      *)
  unsent,                (* requests buffered                              *)
  reader_count, last_error,
  (* The program.                                                          *)
  pc, handling,          (* of each thread; handling is <<>> or <<event>>  *)
  phase,                 (* main thread: "display", "window", "serve" or   *)
                         (* "failed"                                       *)
  functions,             (* of "motion", "button" and "key", which are set *)
  bound,                 (* wlCompositor, wlShell and wlSeat, where set    *)
  seated,                (* whether the seat's devices are asked for       *)
  cur_pointer,           (* cur_pointer_x and cur_pointer_y                *)
  (* What happened so far; no control depends on these.                    *)
  sent,                  (* input events                                   *)
  early,                 (* and how many while a function was not set      *)
  told,                  (* input events handled, as <<number, place told>>*)
  ping,                  (* "none", "sent" or "answered"                   *)
  faults, lost,          (* faults of poll, and those that lost a reader   *)
  strayed,               (* X: numbers of events that poll knows nothing of*)
  odd                    (* of "cut", "race" and "missed", what happened   *)

configVars == <<winsys, vsync>>
hostVars   == <<received, announced, granted, gone, frame>>
libVars    == <<unsent, reader_count, last_error>>
windowVars == <<phase, functions, bound, seated, cur_pointer>>
pastVars   == <<sent, early, told, ping, faults, lost, strayed, odd>>
vars == <<configVars, hostVars, wire, libVars, queue, pc, handling, windowVars, pastVars>>

(* Three things that the properties make an exception for, all of Wayland: *)
(*   "cut"     the globals were read while some were yet to come;          *)
(*   "race"    both threads had an input event in hand;                    *)
(*   "missed"  the frame event that a swap is about to wait for is read    *)
(*             before it waits.                                            *)
Oddity == {"cut", "race", "missed"}

Thread == {"main", "event"}
Other(t) == CHOOSE u \in Thread : u # t
Announcement == <<"wl_compositor", "wl_shell", "wl_seat">>
Global == {"wl_compositor", "wl_shell", "wl_seat"}
Request == {"get_registry", "bind_seat", "get_devices", "surface", "pong", "commit"}
Input == {"enter", "motion", "button", "leave", "key"}
Movers == {"enter", "motion"}
Function == {"motion", "button", "key"}

(* An event of the host; input events are numbered.                        *)
Inputs == [kind : Input, n : 1..MaxEvents]
Event == Inputs \union
         [kind : Global \union {"capabilities", "ping"}, n : {0}]
Plain(kind) == [kind |-> kind, n |-> 0]

(* Where event n puts the pointer, with coordinates that differ; under X a *)
(* button event says where it is too.                                      *)
Point(n) == <<n, n + MaxEvents>>
Outside == <<-1, -1>>
Unplaced == <<0, 0>>
Untold == <<-2, -2>>

(* s_motion_func, s_button_func and s_key_func, which an event has to find *)
(* set.                                                                    *)
IsSet(kind) == (IF kind \in {"enter", "leave"} THEN "motion" ELSE kind) \in functions

(* winsys_init_native_display under Wayland: the registry is asked for,    *)
(* the thread started, and wl_display_dispatch called.  The X versions     *)
(* have nothing to wait for.                                               *)
DispatchPending == "pending"
FirstCall == "prepare"

Init ==
  /\ winsys \in {"wayland", "x11", "xcb"} /\ vsync \in (IF winsys = "wayland" THEN BOOLEAN ELSE {FALSE})
  /\ wire = <<>> /\ frame = FALSE /\ received = {} /\ announced = 0 /\ granted = (winsys # "wayland") /\ gone = FALSE
  /\ queue = <<>> /\ unsent = IF winsys = "wayland" THEN {"get_registry"} ELSE {}
  /\ reader_count = 0 /\ last_error = FALSE
  /\ pc = IF winsys = "wayland" THEN [main |-> FirstCall, event |-> "prepare"]
          ELSE [main |-> "out", event |-> "poll"]
  /\ handling = [t \in Thread |-> <<>>]
  /\ phase = "display" /\ functions = {}
  /\ bound = {} /\ seated = FALSE /\ cur_pointer = Unplaced
  /\ sent = <<>> /\ early = 0 /\ told = <<>> /\ ping = "none"
  /\ faults = 0 /\ lost = 0 /\ strayed = {} /\ odd = {}

Goto(t, place) == pc' = [pc EXCEPT ![t] = place]

--------------------------------------------------------------------------------
(* The host.                                                               *)

HostOnly == UNCHANGED <<configVars, libVars, queue, pc, handling, windowVars, told, lost, strayed,
                        odd>>

(* The globals reach the wire one after the other: nothing promises that   *)
(* one read finds them all.  Other requests wait until all are announced.  *)
Announce ==
  /\ "get_registry" \in received /\ ~gone
  /\ wire' = Append(wire, Plain(Announcement[announced + 1])) /\ announced' = announced + 1
  /\ received' = IF announced' = Len(Announcement) THEN received \ {"get_registry"} ELSE received
  /\ UNCHANGED <<frame, granted, gone, sent, early, ping, faults>> /\ HostOnly

Answer(r) ==
  /\ r \in received /\ "get_registry" \notin received /\ received' = received \ {r} /\ ~gone
  /\ wire' = IF r = "bind_seat" THEN Append(wire, Plain("capabilities")) ELSE wire
  /\ frame' = (frame \/ r = "commit") /\ granted' = (granted \/ r = "get_devices")
  /\ ping' = IF r = "pong" THEN "answered" ELSE ping
  /\ UNCHANGED <<announced, gone, sent, early, faults>> /\ HostOnly

(* "key" stands for the keys and, under Wayland, the touches: they have no *)
(* use for cur_pointer.  Under Wayland the pointer has to enter first.     *)
Entered == \E i \in DOMAIN sent : /\ sent[i].kind = "enter"
                                  /\ \A j \in i..Len(sent) : sent[j].kind # "leave"
Unprompted == Len(sent) + IF ping = "none" THEN 0 ELSE 1

(* The window is there, and the host knows it.  (A Wayland host would wait *)
(* for the first commit; the program leaves that to it.)                   *)
Windowed == phase \in {"window", "serve"} /\ "surface" \notin received \union unsent

HostInput ==
  /\ granted /\ Windowed /\ Unprompted < MaxEvents /\ ~gone
  /\ \E kind \in IF winsys # "wayland" THEN {"motion", "button", "key"}
                 ELSE IF Entered THEN {"motion", "button", "leave", "key"} ELSE {"enter", "key"} :
       LET e == [kind |-> kind, n |-> Len(sent) + 1]
       IN wire' = Append(wire, e) /\ sent' = Append(sent, e)
  /\ early' = IF phase = "serve" THEN early ELSE Len(sent')
  /\ UNCHANGED <<hostVars, ping, faults>> /\ HostOnly

HostPing ==
  /\ winsys = "wayland" /\ Windowed /\ ping = "none" /\ Unprompted < MaxEvents /\ ~gone
  /\ wire' = Append(wire, Plain("ping")) /\ ping' = "sent"
  /\ UNCHANGED <<hostVars, sent, early, faults>> /\ HostOnly

HostHangsUp ==
  /\ winsys = "wayland" /\ ~gone /\ faults < MaxFaults
  /\ gone' = TRUE /\ faults' = faults + 1
  /\ UNCHANGED <<wire, frame, received, announced, granted, sent, early, ping>> /\ HostOnly

--------------------------------------------------------------------------------
(* libwayland, as both threads use it.                                     *)

Flush == received' = received \union unsent /\ unsent' = {}

(* wl_display_prepare_read fails while events are queued.  The main        *)
(* thread's wl_display_dispatch flushes after it, the event thread only    *)
(* when it has failed.                                                     *)
NotFlushing(t) == "poll"
Prepared(t) == IF t = "main" THEN "flush" ELSE "poll"
Unprepared(t) == IF t = "main" THEN DispatchPending ELSE "pending, flush"

Prepare(t) ==
  /\ pc[t] = "prepare"
  /\ IF queue = <<>> THEN reader_count' = reader_count + 1 /\ Goto(t, Prepared(t))
     ELSE UNCHANGED reader_count /\ Goto(t, Unprepared(t))
  /\ UNCHANGED <<configVars, hostVars, wire, queue, unsent, last_error, handling, windowVars,
                 pastVars>>

FlushForRead(t) ==
  /\ pc[t] = "flush" /\ Flush /\ Goto(t, "poll")
  /\ UNCHANGED <<configVars, announced, granted, gone, frame, wire, queue, reader_count, last_error,
                 handling, windowVars, pastVars>>

Poll(t) ==
  /\ winsys = "wayland" /\ pc[t] = "poll" /\ (wire # <<>> \/ frame \/ gone)
  /\ Goto(t, "read")
  /\ UNCHANGED <<configVars, hostVars, wire, libVars, queue, handling, windowVars, pastVars>>

(* What the threads do after wl_display_read_events.                       *)
ReadDone(t)   == DispatchPending
ReadFailed(t) == IF t = "main" THEN "out" ELSE "ended"

(* Every thread asleep in wl_display_read_events wakes with t.             *)
Woken(t, To(_)) ==
  pc' = [u \in Thread |-> IF u = t \/ pc[u] = "wait" THEN To(u) ELSE pc[u]]

(* wl_display_read_events: the last reader reads for all.  A host that     *)
(* hung up is an error, from then on and for everyone.                     *)

Read(t) ==
  /\ pc[t] = "read"
  /\ reader_count' = reader_count - 1
  /\ IF last_error THEN
       /\ (IF reader_count = 1 THEN Woken(t, ReadFailed) ELSE Goto(t, ReadFailed(t)))
       /\ UNCHANGED <<wire, frame, queue, last_error, odd>>
     ELSE IF reader_count > 1 THEN
       Goto(t, "wait") /\ UNCHANGED <<wire, frame, queue, last_error, odd>>
     ELSE IF wire # <<>> \/ frame THEN
       /\ queue' = queue \o wire /\ wire' = <<>> /\ frame' = FALSE
       /\ Woken(t, ReadDone) /\ UNCHANGED last_error
       /\ odd' = odd \union (IF frame /\ pc["main"] = "prepare" THEN {"missed"} ELSE {})
                    \union (IF "get_registry" \in received THEN {"cut"} ELSE {})
     ELSE last_error' = TRUE /\ Woken(t, ReadFailed) /\ UNCHANGED <<wire, frame, queue, odd>>
  /\ UNCHANGED <<configVars, received, announced, granted, gone, unsent, handling, windowVars,
                 sent, early, told, ping, faults, lost, strayed>>

(* wl_display_dispatch_pending: take an event, handle it with the mutex    *)
(* released, until there is none.                                          *)
Dispatching(t) == pc[t] \in {DispatchPending, "pending, flush"}

Take(t) ==
  /\ Dispatching(t) /\ handling[t] = <<>> /\ queue # <<>> /\ ~last_error
  /\ handling' = [handling EXCEPT ![t] = <<Head(queue)>>] /\ queue' = Tail(queue)
  /\ odd' = odd \union (IF Head(queue).n > 0 /\ handling[Other(t)] # <<>> /\
                           handling[Other(t)][1].n > 0 THEN {"race"} ELSE {})
  /\ UNCHANGED <<configVars, hostVars, wire, libVars, pc, windowVars, sent, early, told, ping,
                 faults, lost, strayed>>

InHand(t, kinds) == Dispatching(t) /\ handling[t] # <<>> /\ handling[t][1].kind \in kinds
Handled(t) == handling' = [handling EXCEPT ![t] = <<>>]

(* registry_handle_global, seat_handle_capabilities and handle_ping.       *)
Handle(t) ==
  /\ InHand(t, Global \union {"capabilities", "ping"}) /\ Handled(t)
  /\ LET kind == handling[t][1].kind IN
     /\ bound' = bound \union ({kind} \intersect Global)
     /\ seated' = (seated \/ kind = "capabilities")
     /\ unsent' = unsent \union
          (CASE kind = "wl_seat" -> {"bind_seat"}
             [] kind = "capabilities" /\ ~seated -> {"get_devices"}
             [] kind = "ping" -> {"pong"}
             [] OTHER -> {})
  /\ UNCHANGED <<configVars, hostVars, wire, queue, reader_count, last_error, pc, phase,
                 functions, cur_pointer, pastVars>>

(* pointer_handle_enter and pointer_handle_motion store the position (the  *)
(* pointer's y on entering as its x) one coordinate after the other and    *)
(* read it back for the function; the other thread can come between.       *)
KeptAt(e) == IF e.kind = "enter" THEN <<Point(e.n)[1], Point(e.n)[1]>> ELSE Point(e.n)

Store(t) ==
  /\ InHand(t, Movers) /\ Len(handling[t]) < 3
  /\ LET axis == Len(handling[t])
     IN cur_pointer' = [cur_pointer EXCEPT ![axis] = KeptAt(handling[t][1])[axis]]
  /\ handling' = [handling EXCEPT ![t] = Append(@, @[1])]
  /\ UNCHANGED <<configVars, hostVars, wire, libVars, queue, pc, phase, functions, bound, seated,
                 pastVars>>

(* The compositor is told of the event, at the position in cur_pointer or, *)
(* by pointer_handle_leave, outside, if the function for it is set.        *)
StoredX(t) == Len(handling[t]) = IF handling[t][1].kind \in Movers THEN 2 ELSE 1
Stored(t) == Len(handling[t]) = IF handling[t][1].kind \in Movers THEN 3 ELSE 1

Tell(t) ==
  /\ InHand(t, Input) /\ Stored(t) /\ Handled(t)
  /\ LET e == handling[t][1]
         where == CASE ~IsSet(e.kind) -> Untold
                    [] IsSet(e.kind) /\ e.kind = "leave" -> Outside
                    [] IsSet(e.kind) /\ e.kind = "key" -> Unplaced
                    [] OTHER -> cur_pointer
     IN told' = Append(told, <<e.n, where>>)
  /\ UNCHANGED <<configVars, hostVars, wire, libVars, queue, pc, windowVars, sent, early, ping,
                 faults, lost, strayed, odd>>

DispatchEnds(t) ==
  /\ Dispatching(t) /\ handling[t] = <<>> /\ (queue = <<>> \/ last_error)
  /\ Goto(t, IF t = "main" THEN "out" ELSE "prepare")
  /\ IF pc[t] = "pending, flush" THEN Flush ELSE UNCHANGED <<received, unsent>>
  /\ UNCHANGED <<configVars, announced, granted, gone, frame, wire, queue, reader_count, last_error,
                 handling, windowVars, pastVars>>

--------------------------------------------------------------------------------
(* What else poll may return to event_loop of winsys_wayland.c.            *)

Fault == faults < MaxFaults /\ faults' = faults + 1
FaultOnly == UNCHANGED <<configVars, hostVars, wire, queue, unsent, last_error, handling,
                         windowVars, sent, early, told, ping, strayed, odd>>

(* EINTR: the loop starts over, and prepares to read once more.            *)
PollInterrupted ==
  /\ winsys = "wayland" /\ pc["event"] = "poll" /\ Fault
  /\ lost' = lost + 1 /\ Goto("event", "prepare")
  /\ UNCHANGED reader_count /\ FaultOnly

(* wl_display_cancel_read: the last reader to cancel wakes the others.     *)
CancelForgotten == reader_count
Cancelled == reader_count - 1

Cancel(place) ==
  /\ reader_count' = Cancelled
  /\ pc' = [u \in Thread |-> IF u = "event" THEN place
                             ELSE IF pc[u] = "wait" /\ reader_count = 1 THEN ReadDone(u)
                             ELSE pc[u]]

(* An error that is not EINTR ends the thread; a condition that is not     *)
(* POLLIN sends it around.                                                 *)
PollFails ==
  /\ winsys = "wayland" /\ pc["event"] = "poll" /\ Fault
  /\ Cancel("ended") \/ Cancel("prepare")
  /\ UNCHANGED lost /\ FaultOnly

--------------------------------------------------------------------------------
(* The main thread.                                                        *)

(* winsys_init_native_window.  The X versions need nothing found before.   *)
CreateWindow ==
  /\ pc["main"] = "out" /\ phase = "display"
  /\ IF winsys = "wayland" /\ ~({"wl_compositor", "wl_shell"} \subseteq bound)
     THEN phase' = "failed" /\ UNCHANGED unsent
     ELSE phase' = "window" /\ unsent' = unsent \union IF winsys = "wayland" THEN {"surface"} ELSE {}
  /\ UNCHANGED <<configVars, hostVars, wire, queue, reader_count, last_error, pc, handling,
                 functions, bound, seated, cur_pointer, pastVars>>

(* compositor_seat_init, when egl_init_with_platform_window_surface is     *)
(* done: egl_set_motion_func, egl_set_button_func, egl_set_key_func.       *)
SetFunction ==
  /\ phase = "window"
  /\ LET f == CASE "motion" \notin functions -> "motion"
                [] "motion" \in functions /\ "button" \notin functions -> "button"
                [] OTHER -> "key"
     IN functions' = functions \union {f} /\ phase' = IF f = "key" THEN "serve" ELSE "window"
  /\ UNCHANGED <<configVars, hostVars, wire, libVars, queue, pc, handling, bound, seated,
                 cur_pointer, pastVars>>

(* Under Wayland eglSwapBuffers waits for the frame event before, commits  *)
(* and flushes; then winsys_swap, with or without vsync.                   *)
FrameDue == "commit" \in received \union unsent \/ frame

Swap ==
  /\ winsys = "wayland" /\ pc["main"] = "out" /\ phase = "serve" /\ ~FrameDue /\ ~gone
  /\ received' = received \union unsent \union {"commit"}
  /\ unsent' = {} /\ odd' = odd \ {"missed"}
  /\ Goto("main", IF vsync THEN "prepare" ELSE DispatchPending)
  /\ UNCHANGED <<configVars, announced, granted, gone, frame, wire, queue, reader_count,
                 last_error, handling, windowVars, sent, early, told, ping, faults, lost, strayed>>

--------------------------------------------------------------------------------
(* X11 and XCB.                                                            *)

Reads == queue' = queue \o wire /\ wire' = <<>>
Numbers(events) == {events[i].n : i \in DOMAIN events}
XOnly == UNCHANGED <<configVars, hostVars, libVars, handling, windowVars, sent, early, ping, faults,
                     lost, odd>>

(* The main thread waits for a reply.  Poll will not tell of what it reads;*)
(* under XCB the event thread finds it if it is not in poll just then.     *)
ReadReply ==
  /\ winsys # "wayland" /\ wire # <<>> /\ Reads
  /\ strayed' = IF winsys = "x11" \/ pc["event"] = "poll" THEN strayed \union Numbers(wire)
                ELSE strayed
  /\ UNCHANGED <<told, pc>> /\ XOnly

XPoll ==
  /\ winsys # "wayland" /\ pc["event"] = "poll" /\ wire # <<>>
  /\ Goto("event", IF winsys = "x11" THEN "XPending" ELSE "next")
  /\ UNCHANGED <<wire, queue, told, strayed>> /\ XOnly

(* XPending reads all there is if the queue is empty.  One event is taken  *)
(* before the next poll, and the rest stray.                               *)
XPending ==
  /\ winsys = "x11" /\ pc["event"] = "XPending" /\ Goto("event", "next")
  /\ IF queue = <<>> /\ wire # <<>>
     THEN Reads /\ strayed' = strayed \union Numbers(Tail(wire))
     ELSE UNCHANGED <<queue, wire, strayed>>
  /\ UNCHANGED told /\ XOnly

(* XNextEvent or xcb_poll_for_event, which read the socket when the queue  *)
(* is empty, and the function for the event, which has its own position.   *)
(* The first key has XKeycodeToKeysym, or xcb_key_symbols_get_keysym, wait *)
(* for the keymap and read the socket, before the function is called; XCB  *)
(* looks the key up even when there is no function.  X11 polls again after *)
(* each event, XCB when there is none left.                                *)
LooksUp(e) == e.kind = "key" /\ (winsys = "x11" => IsSet("key"))
AfterOne == "poll"
XcbAfterEvent == "next"

XNext ==
  /\ winsys # "wayland" /\ pc["event"] = "next" /\ queue \o wire # <<>>
  /\ LET e == Head(queue \o wire)
     IN /\ told' = Append(told, <<e.n, CASE ~IsSet(e.kind) -> Untold
                                        [] IsSet(e.kind) /\ e.kind = "key" -> Unplaced
                                        [] OTHER -> Point(e.n)>>)
        /\ \/ queue # <<>> /\ queue' = Tail(queue) /\ UNCHANGED <<wire, strayed>>
           \/ /\ queue = <<>> \/ LooksUp(e)
              /\ queue' = Tail(queue \o wire) /\ wire' = <<>>
              /\ strayed' = IF winsys = "x11" THEN strayed \union Numbers(wire) ELSE strayed
  /\ Goto("event", IF winsys = "x11" THEN AfterOne ELSE XcbAfterEvent)
  /\ XOnly

XcbDrained ==
  /\ winsys = "xcb" /\ pc["event"] = "next" /\ queue \o wire = <<>> /\ Goto("event", "poll")
  /\ UNCHANGED <<queue, wire, told, strayed>> /\ XOnly

--------------------------------------------------------------------------------
Wayland(t) ==
  \/ Prepare(t) \/ FlushForRead(t) \/ Poll(t) \/ Read(t)
  \/ Take(t) \/ Handle(t) \/ Store(t) \/ Tell(t) \/ DispatchEnds(t)

Host == Announce \/ (\E r \in Request : Answer(r)) \/ HostInput \/ HostPing \/ HostHangsUp

Next ==
  \/ Host
  \/ \E t \in Thread : Wayland(t)
  \/ PollInterrupted \/ PollFails
  \/ CreateWindow \/ SetFunction \/ Swap
  \/ ReadReply \/ XPoll \/ XPending \/ XNext \/ XcbDrained

(* The threads run where they can, the main thread goes on to create the   *)
(* window and to set the functions, and the host acts on requests.  Nobody *)
(* owes a swap, an input event or a ping.                                  *)
Fairness ==
  /\ \A t \in Thread : WF_vars(Wayland(t))
  /\ WF_vars(XPoll \/ XPending \/ XNext \/ XcbDrained)
  /\ WF_vars(CreateWindow \/ SetFunction)
  /\ WF_vars(Announce) /\ \A r \in Request : WF_vars(Answer(r))

Spec == Init /\ [][Next]_vars
FairSpec == Spec /\ Fairness

--------------------------------------------------------------------------------
Place == {"prepare", "flush", "poll", "read", "wait", "pending", "pending, flush", "XPending",
          "next", "out", "ended"}

(* The type invariant.  No reader is counted off twice.                    *)
TypeOK ==
  /\ winsys \in {"wayland", "x11", "xcb"} /\ vsync \in BOOLEAN
  /\ wire \in Seq(Event) /\ frame \in BOOLEAN
  /\ received \subseteq Request /\ announced \in 0..3 /\ granted \in BOOLEAN /\ gone \in BOOLEAN
  /\ queue \in Seq(Event) /\ unsent \subseteq Request
  /\ reader_count \in Nat /\ last_error \in BOOLEAN
  /\ pc \in [Thread -> Place] /\ handling \in [Thread -> Seq(Event)]
  /\ phase \in {"display", "window", "serve", "failed"} /\ functions \subseteq Function
  /\ bound \subseteq Global /\ seated \in BOOLEAN /\ cur_pointer \in Int \X Int
  /\ sent \in Seq(Inputs) /\ early \in 0..MaxEvents
  /\ told \in Seq((1..MaxEvents) \X (Int \X Int))
  /\ ping \in {"none", "sent", "answered"}
  /\ faults \in 0..MaxFaults /\ lost \in 0..MaxFaults
  /\ strayed \subseteq Nat /\ odd \subseteq Oddity

(* A thread that sleeps in wl_display_read_events has a reader to wait     *)
(* for: the readers counted are the threads on their way to read, and      *)
(* those an interrupted poll has lost for good.                            *)
Reading == {t \in Thread : pc[t] \in {"flush", "poll", "read"}}
SleepersHaveReader ==
  /\ winsys = "wayland" => reader_count = Cardinality(Reading) + lost
  /\ \A t \in Thread : pc[t] = "wait" => Reading # {} \/ lost > 0

(* When the main thread looks for wl_compositor and wl_shell after its one *)
(* wl_display_dispatch, each is known, whichever thread has read it.  Two  *)
(* exceptions are what the code does not care for: the event thread is     *)
(* just then in the handler that is to set it, or the globals came in      *)
(* pieces and this one is still under way; start-up fails then.  A failed  *)
(* poll is left out.                                                       *)
ToCome(g) == \E i \in DOMAIN Announcement : Announcement[i] = g /\ announced < i
Has(q, g) == \E i \in DOMAIN q : q[i] = Plain(g)
UnderWay(g) == ToCome(g) \/ Has(wire, g) \/ Has(queue, g)

GlobalsFound ==
  winsys = "wayland" /\ pc["main"] = "out" /\ phase = "display" /\ faults = 0 =>
    \A g \in {"wl_compositor", "wl_shell"} :
      g \in bound \/ handling["event"] = <<Plain(g)>> \/ ("cut" \in odd /\ UnderWay(g))

(* Input events are handled in the order of the host, each once and none   *)
(* left out, and the compositor is told of each, at the pointer's          *)
(* position, except of those sent before it had set its functions.  Left   *)
(* out are the y where pointer_handle_enter was the last to set it, for it *)
(* takes x for y, and what happens once both threads had input in hand.    *)
MovesTo(n) == {m \in 1..n : sent[m].kind \in Movers}
LastMove(n) == CHOOSE m \in MovesTo(n) : \A k \in MovesTo(n) : k <= m

Right(n, place) ==
  CASE sent[n].kind = "leave" -> place = Outside
    [] sent[n].kind = "key" -> place = Unplaced
    [] winsys # "wayland" /\ sent[n].kind \in {"motion", "button"} -> place = Point(n)
    [] OTHER -> /\ place[1] = Point(LastMove(n))[1]
                /\ sent[LastMove(n)].kind = "motion" => place[2] = Point(LastMove(n))[2]

ToldAsSent ==
  "race" \notin odd =>
    \A i \in DOMAIN told :
      /\ told[i][1] = i
      /\ Right(i, told[i][2]) \/ (told[i][2] = Untold /\ i <= early)

(* A wl_display_dispatch of the main thread comes back, at start-up and    *)
(* with vsync after each swap, although the event thread may read what it  *)
(* waits for, unless poll failed or the frame event was read between the   *)
(* commit and the wait: then the compositor stands still until the host    *)
(* has another event for it.                                               *)
DispatchReturns ==
  winsys = "wayland" /\ pc["main"] # "out" ~> pc["main"] = "out" \/ faults > 0 \/ "missed" \in odd

(* An input event is handled, whatever the event thread does when it comes *)
(* and whatever came before it; under Wayland even when the main thread    *)
(* reads and dispatches too, unless poll failed.  Under X an event that a  *)
(* read has put into the queue unseen by poll may stay there: those that   *)
(* the main thread reads, under X11 also those that come with another or   *)
(* while a key is looked up.                                               *)
EventsServed ==
  \A n \in 1..MaxEvents : Len(sent) >= n ~> Len(told) >= n \/ faults > 0 \/ n \in strayed

(* What wl_shell_surface asks of a client: a ping is answered.             *)
PingAnswered == ping = "sent" ~> (ping = "answered" \/ faults > 0)
================================================================================
