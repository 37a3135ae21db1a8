------------------------------ MODULE ProcessLife ------------------------------
(***************************************************************************)
(* Set-up and tear-down of the process: main() and handle_signal() of      *)
(* main.c, and util_egl.c.  Set-up can fail half way and then jumps to the *)
(* tear-down at `out`.  The input thread is started half way through       *)
(* set-up and never stopped: it calls the seat's functions, which use the  *)
(* compositor, its mutex and the display, until the process is gone.       *)
(***************************************************************************)
EXTENDS Naturals, SequencesExt

CONSTANT NULL
ASSUME NullAssumption == NULL \notin {"main", "signal"}

VARIABLES
  configs,         (* the sizes of red, green, blue and alpha of the EGL   *)
                   (* configurations, as eglChooseConfig sorts them        *)
  extensions,      (* whether EGL returns an extension string              *)
  pc,              (* main thread: the step it is about to take, "serve"   *)
                   (* or "ended"                                           *)
  made, destroyed, (* the steps of set-up and of tear-down done            *)
  config,          (* the EGLConfig found                                  *)
  thread,          (* input thread: "none", "running" or "ended"           *)
  callback,        (* where it is in a function of the seat: "none",       *)
                   (* "entered" or, with event_mutex, "sending"            *)
  focus,           (* focused_csfc # NULL                                  *)
  signal,          (* SIGINT or SIGTERM: "none", "pending" or "taken"      *)
  (* What happened so far.                                                 *)
  by,              (* who tears down: "main" or "signal"                   *)
  refused,         (* whether EGL would not undo what was done             *)
  undefined        (* whether the process did what C leaves undefined      *)

worldVars  == <<configs, extensions>>
threadVars == <<thread, callback>>
vars == <<worldVars, pc, made, destroyed, config, threadVars, focus, signal, by, refused,
          undefined>>

(* main() down to the first egl_swap; and the same with the signals        *)
(* blocked first.                                                          *)
SetUpSignalsFirst ==
  <<"wl_display", "signals", "socket", "native_display", "egl_display", "config",
    "native_window", "surface", "context", "current", "attributes", "compositor", "renderer",
    "seat", "extensions", "first_swap">>
SetUp ==
  <<"wl_display", "socket", "native_display", "egl_display", "config", "native_window",
    "surface", "context", "current", "attributes", "compositor", "signals", "renderer",
    "seat", "extensions", "first_swap">>

(* handle_signal and the end of main(); the first four are egl_terminate.  *)
FreeFirst == <<"unbind", "destroy_surface", "destroy_context", "terminate", "free",
               "destroy_display", "destroy_mutex">>
ContextLeft == <<"unbind", "destroy_surface", "terminate", "destroy_display",
                 "destroy_mutex", "free">>
TearDown == <<"unbind", "destroy_surface", "destroy_context", "terminate", "destroy_display",
              "destroy_mutex", "free">>

After(steps, step, end) ==
  LET i == CHOOSE k \in DOMAIN steps : steps[k] = step
  IN IF i = Len(steps) THEN end ELSE steps[i + 1]

(* The configurations EGL offers have at least the sizes asked for, the    *)
(* deepest first.                                                          *)
Asked == <<8, 8, 8, 8>>
Deep  == <<10, 10, 10, 8>>

Init ==
  /\ configs \in {<<>>, <<Asked>>, <<Deep>>, <<Deep, Asked>>} /\ extensions \in BOOLEAN
  /\ pc = Head(SetUp) /\ made = {} /\ destroyed = {} /\ config = NULL
  /\ thread = "none" /\ callback = "none" /\ focus = FALSE /\ signal = "none"
  /\ by = NULL /\ refused = FALSE /\ undefined = FALSE

Running == pc # "ended" /\ ~undefined

--------------------------------------------------------------------------------
(* Set-up.                                                                 *)

(* find_egl_config: the first configuration with the very sizes.           *)
find_egl_config == IF Contains(configs, Asked) THEN Asked ELSE NULL

SetUpStep ==
  /\ Running /\ Contains(SetUp, pc) /\ (pc = "config" => find_egl_config # NULL)
  /\ made' = made \union {pc} /\ pc' = After(SetUp, pc, "serve")
  /\ config' = IF pc = "config" THEN find_egl_config ELSE config
  /\ thread' = IF pc = "native_display" THEN "running" ELSE thread
  /\ undefined' = (pc = "extensions" /\ ~extensions)
  /\ UNCHANGED <<worldVars, destroyed, callback, focus, signal, by, refused>>

(* The steps whose failure is looked at.  main() returns when the socket   *)
(* fails and else goes to `out`; the DRM window system exits when there is *)
(* no window.                                                              *)
MayFail == {"native_display", "egl_display", "config", "native_window", "surface", "context",
            "current", "attributes", "first_swap"}

SetUpFails ==
  /\ Running
  /\ \/ pc \in {"socket", "native_window"} /\ pc' = "ended" /\ UNCHANGED by
     \/ /\ pc \in MayFail /\ (pc = "config" => find_egl_config = NULL)
        /\ pc' = Head(TearDown) /\ by' = "main"
  /\ UNCHANGED <<worldVars, made, destroyed, config, threadVars, focus, signal, refused, undefined>>

--------------------------------------------------------------------------------
(* The main loop.  A surface gets the focus or loses it (SeatInput has the *)
(* races of that with a function of the seat), or a swap fails.            *)

FocusChanges ==
  /\ Running /\ pc = "serve" /\ callback = "none" /\ focus' = ~focus
  /\ UNCHANGED <<worldVars, pc, made, destroyed, config, threadVars, signal, by, refused, undefined>>

SwapFails ==
  /\ Running /\ pc = "serve" /\ pc' = Head(TearDown) /\ by' = "main"
  /\ UNCHANGED <<worldVars, made, destroyed, config, threadVars, focus, signal, refused, undefined>>

--------------------------------------------------------------------------------
(* The input thread and the functions of the seat.                         *)

InThread ==
  UNCHANGED <<worldVars, pc, made, destroyed, config, focus, signal, by, refused>>

ThreadEnds ==
  /\ Running /\ thread = "running" /\ callback = "none" /\ thread' = "ended"
  /\ UNCHANGED <<callback, undefined>> /\ InThread

Enter ==
  /\ Running /\ thread = "running" /\ callback = "none" /\ "seat" \in made /\ focus
  /\ callback' = "entered" /\ UNCHANGED <<thread, undefined>> /\ InThread

Lock ==
  /\ Running /\ callback = "entered" /\ callback' = "sending"
  /\ undefined' = (destroyed \intersect {"free", "destroy_mutex"} # {})
  /\ UNCHANGED thread /\ InThread

Send ==
  /\ Running /\ callback = "sending" /\ callback' = "none"
  /\ undefined' = (destroyed \intersect {"free", "destroy_mutex", "destroy_display"} # {})
  /\ UNCHANGED thread /\ InThread

--------------------------------------------------------------------------------
(* Signals.  wl_event_loop_add_signal blocks them in the main thread, and  *)
(* a thread has the mask of its creator.  A thread that does not block     *)
(* them, or main() before it does, is killed with the process; otherwise   *)
(* the main loop finds the signal.                                         *)

Masked(t) == IF t = "main" THEN "signals" \in made
             ELSE SelectInSeq(SetUp, LAMBDA s : s = "signals") <
                  SelectInSeq(SetUp, LAMBDA s : s = "native_display")

SignalComes ==
  /\ Running /\ signal = "none"
  /\ IF Masked("main") /\ (thread = "running" => Masked("input"))
     THEN signal' = "pending" /\ UNCHANGED pc
     ELSE signal' = "taken" /\ pc' = "ended"
  /\ UNCHANGED <<worldVars, made, destroyed, config, threadVars, focus, by, refused, undefined>>

OnlyLogged == "serve"
HandlerGoesTo == Head(TearDown)

HandleSignal ==
  /\ Running /\ pc = "serve" /\ signal = "pending"
  /\ signal' = "taken" /\ pc' = HandlerGoesTo /\ by' = "signal"
  /\ UNCHANGED <<worldVars, made, destroyed, config, threadVars, focus, refused, undefined>>

--------------------------------------------------------------------------------
(* Tear-down.                                                              *)

(* What a step undoes.  egl_terminate stops at the first call that fails:  *)
(* one that has nothing to undo, or that EGL refuses.                      *)
Undoes == [unbind |-> "egl_display", destroy_surface |-> "surface",
           destroy_context |-> "context", terminate |-> "egl_display",
           destroy_display |-> "wl_display", destroy_mutex |-> "compositor",
           free |-> "compositor"]
OfEgl == {"unbind", "destroy_surface", "destroy_context", "terminate"}

Undo ==
  /\ Running /\ Contains(TearDown, pc) /\ (pc \in OfEgl => Undoes[pc] \in made)
  /\ destroyed' = destroyed \union {pc} /\ pc' = After(TearDown, pc, "ended")
  /\ undefined' = \/ Undoes[pc] \notin made
                  \/ pc = "destroy_mutex" /\ (callback = "sending" \/ "free" \in destroyed)
  /\ UNCHANGED <<worldVars, made, config, threadVars, focus, signal, by, refused>>

EglStops ==
  /\ Running /\ pc \in OfEgl /\ pc' = "destroy_display"
  /\ refused' = (Undoes[pc] \in made)
  /\ UNCHANGED <<worldVars, made, destroyed, config, threadVars, focus, signal, by, undefined>>

--------------------------------------------------------------------------------
MainThread == SetUpStep \/ SetUpFails \/ HandleSignal \/ Undo \/ EglStops

Next ==
  \/ MainThread
  \/ FocusChanges \/ SwapFails
  \/ ThreadEnds \/ Enter \/ Lock \/ Send
  \/ SignalComes

(* The main thread goes on where it can.                                   *)
Fairness == WF_vars(MainThread)

Spec == Init /\ [][Next]_vars
FairSpec == Spec /\ Fairness

--------------------------------------------------------------------------------
(* The type invariant.  The window surface has the sizes asked for and no  *)
(* others.                                                                 *)
TypeOK ==
  /\ pc \in ToSet(SetUp) \union ToSet(TearDown) \union {"serve", "ended"}
  /\ made \subseteq ToSet(SetUp) /\ destroyed \subseteq ToSet(TearDown)
  /\ config \in {NULL, Asked} /\ (config = NULL => "config" \notin made)
  /\ thread \in {"none", "running", "ended"} /\ callback \in {"none", "entered", "sending"}
  /\ focus \in BOOLEAN /\ signal \in {"none", "pending", "taken"} /\ by \in {NULL, "main", "signal"}
  /\ refused \in BOOLEAN /\ undefined \in BOOLEAN /\ extensions \in BOOLEAN

(* Nothing undefined happens unless EGL has no extension string, set-up    *)
(* failed before there was a compositor to tear down, or main() tears down *)
(* with the input thread still running.                                    *)
DefinedElsewhere ==
  undefined => \/ pc = "first_swap" /\ ~extensions
               \/ by = "main" /\ ("compositor" \notin made \/ thread = "running")

(* handle_signal never tears down what the input thread may be using: as   *)
(* long as the thread runs, it is the thread that gets the signal, and the *)
(* process is killed.                                                      *)
SignalTearsDownAlone == by = "signal" => thread # "running"

(* egl_terminate leaves off at the first call that fails, and what follows *)
(* goes on without it.  It terminates EGL's display if set-up had got as   *)
(* far as the context and EGL does not refuse, and only with nothing left  *)
(* in it; when set-up failed before, the display stays as it is.  (The     *)
(* socket, the native display and the native window are never undone.)     *)
PastEgl == pc \in {"destroy_display", "destroy_mutex", "free"} \/ "destroy_display" \in destroyed

EglTornDown ==
  /\ "terminate" \in destroyed => OfEgl \subseteq destroyed /\ "context" \in made
  /\ PastEgl /\ "context" \in made => "terminate" \in destroyed \/ refused

(* A signal ends the process, whenever it comes.                           *)
SignalEnds == signal # "none" ~> ~Running
================================================================================
