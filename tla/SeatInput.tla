------------------------------- MODULE SeatInput --------------------------------
(***************************************************************************)
(* The seat (src/compositor/wayland_seat.c): the devices of each client,   *)
(* and the callbacks by which the window system's input thread sends an    *)
(* event to the surface with the focus, while the main thread serves       *)
(* requests.  Stacking and focus change as FocusStack says.                *)
(*                                                                         *)
(* A callback reads focused_csfc again and again, first without a lock to  *)
(* find the client's resource and then, under event_mutex, to send.  The   *)
(* main thread changes focused_csfc under no lock.  A callback is two      *)
(* steps here, StartCallback and one that sends.  When the focus changes   *)
(* or a client ends inside a callback, that callback is "raced": it may    *)
(* come through as if the change had come before it sent, or go wrong.  A  *)
(* callback that goes wrong, or uses a released resource, makes the        *)
(* behaviour "undefined", and of what follows nothing is claimed, not even *)
(* that the process goes on.  Every other request between two reads of a   *)
(* callback acts as one between its two steps.                             *)
(***************************************************************************)
EXTENDS Naturals, Sequences, FiniteSets

CONSTANTS
  Client,
  Surface,   (* slots for compositor_surface objects with a shell surface  *)
  Owner,     (* the client of each                                         *)
  Orderly,   (* clients that bind wl_compositor once, ask for each device  *)
             (* once and keep it                                           *)
  Wants,     (* the devices each client has a use for                      *)
  NULL

ASSUME OwnerAssumption == Owner \in [Surface -> Client]
ASSUME OrderlyAssumption == Orderly \subseteq Client
ASSUME WantsAssumption == Wants \in [Client -> SUBSET {"pointer", "keyboard", "touch"}]
ASSUME NullAssumption == NULL \notin Surface /\ NULL \notin Client

VARIABLES
  surface_list, focused_csfc,        (* as in ShellFocus                   *)
  bound,             (* clients with a client_data in client_list          *)
  device,            (* the resources in a client's first client_data:     *)
                     (* "none", "live", or "freed" when released           *)
  leaving,           (* clients without client_data whose surfaces are     *)
                     (* still to be destroyed                              *)
  pointer_focused, keyboard_focused, (* of each surface                    *)
  xkb_state,         (* whether a modifier is active                       *)
  modifiers,         (* compositor->modifiers: what was last sent          *)
  finger,            (* whether a finger touches the screen                *)
  callback,          (* the callback the input thread is in, or NULL       *)
  (* What the clients see, whether the main thread has moved the focus or  *)
  (* ended a client inside the present callback, and whether the behaviour *)
  (* is undefined by now: no code reads these.                             *)
  raced,
  asked,             (* the devices each orderly client has asked for      *)
  pointer_in,        (* the surface the client's pointer is in, or NULL    *)
  keyboard_in,       (* the surfaces its keyboard has entered              *)
  known,             (* the modifiers it knows of                          *)
  told,              (* the client last sent modifiers, or NULL            *)
  undefined

focusVars  == <<surface_list, focused_csfc>>
clientVars == <<bound, device, leaving, asked>>
flagVars   == <<pointer_focused, keyboard_focused>>
keyVars    == <<xkb_state, modifiers, known, told>>
viewVars   == <<pointer_in, keyboard_in>>
vars == <<focusVars, clientVars, flagVars, keyVars, viewVars, finger, callback, raced, undefined>>

Stack == INSTANCE FocusStack WITH stack <- surface_list, focus <- focused_csfc

Device == {"pointer", "keyboard", "touch"}
NoDevices == [d \in Device |-> "none"]

(* The events of the window system and the device each is sent through.    *)
DeviceOf ==
  [motion |-> "pointer", button |-> "pointer", key |-> "keyboard",
   touch_down |-> "touch", touch_motion |-> "touch", touch_up |-> "touch"]
Event == DOMAIN DeviceOf

(* A callback holds the resource it found: of which client, and whether    *)
(* the object still exists.  "wild": the variable was never assigned.      *)
Callback == [event : Event, client : Client, resource : {"live", "freed", "wild"}]

Init ==
  /\ Stack!Init
  /\ bound = {} /\ leaving = {}
  /\ device = [c \in Client |-> NoDevices]
  /\ asked = [c \in Client |-> {}]
  /\ pointer_focused = [s \in Surface |-> FALSE]
  /\ keyboard_focused = [s \in Surface |-> FALSE]
  /\ xkb_state = FALSE /\ modifiers = FALSE
  /\ known = [c \in Client |-> FALSE] /\ told = NULL
  /\ pointer_in = [c \in Client |-> NULL]
  /\ keyboard_in = [c \in Client |-> {}]
  /\ finger = FALSE
  /\ callback = NULL /\ raced = FALSE /\ undefined = FALSE

--------------------------------------------------------------------------------
(* The main thread: requests and the end of a client.                      *)

(* The focus changes under a callback.                                     *)
Overtakes == raced' = (raced \/ (callback # NULL /\ focused_csfc' # focused_csfc))

MayRequest(c) == c \in bound /\ leaving = {}

(* compositor_bind: a new client_data, with no resources, at the head of   *)
(* client_list, where it hides an earlier one of the same client.          *)
CompositorBind(c) ==
  /\ leaving = {} /\ (c \in Orderly => c \notin bound)
  /\ bound' = bound \union {c}
  /\ device' = [device EXCEPT ![c] = NoDevices]
  /\ UNCHANGED <<leaving, asked, focusVars, flagVars, keyVars, viewVars, finger,
                 callback, raced, undefined>>

(* seat_get_pointer, seat_get_keyboard and seat_get_touch: the new object  *)
(* replaces the one in the first client_data of this client.               *)
StoreResource(c, d) == device' = [device EXCEPT ![c][d] = "live"]

SeatGet(c, d) ==
  /\ MayRequest(c) /\ d \in Wants[c] /\ (c \in Orderly => d \notin asked[c])
  /\ StoreResource(c, d)
  /\ asked' = [asked EXCEPT ![c] = IF c \in Orderly THEN @ \union {d} ELSE @]
  /\ UNCHANGED <<bound, leaving, focusVars, flagVars, keyVars, viewVars, finger,
                 callback, raced, undefined>>

(* pointer_release, keyboard_release and touch_release destroy the object; *)
(* client_data, and a callback that has found it, keep the pointer.        *)
Release(c, d) ==
  /\ MayRequest(c) /\ c \notin Orderly /\ device[c][d] = "live"
  /\ device' = [device EXCEPT ![c][d] = "freed"]
  /\ callback' = IF callback # NULL /\ callback.client = c /\ DeviceOf[callback.event] = d
                 THEN [callback EXCEPT !.resource = "freed"] ELSE callback
  /\ UNCHANGED <<bound, leaving, asked, focusVars, flagVars, keyVars, viewVars, finger,
                 raced, undefined>>

(* A new surface, whose flags calloc clears, and its shell surface.        *)
NotCleared(flag, s) == flag
Cleared(flag, s) == [flag EXCEPT ![s] = FALSE]

GetShellSurface(s) ==
  /\ MayRequest(Owner[s])
  /\ Stack!Raise(s)
  /\ pointer_focused' = Cleared(pointer_focused, s)
  /\ keyboard_focused' = Cleared(keyboard_focused, s)
  /\ Overtakes
  /\ UNCHANGED <<clientVars, keyVars, viewVars, finger, callback, undefined>>

(* A client goes: client_destroyed frees its client_data, a link of the    *)
(* list that every callback follows, then its resources are destroyed, the *)
(* surfaces one by one.                                                    *)
BoundEmptied(c) == {}
BoundWithout(c) == bound \ {c}

HangUp(c) ==
  /\ MayRequest(c)
  /\ bound' = BoundWithout(c)
  /\ leaving' = {c}
  /\ device' = [device EXCEPT ![c] = NoDevices]
  /\ asked' = [asked EXCEPT ![c] = {}]
  /\ pointer_in' = [pointer_in EXCEPT ![c] = NULL]
  /\ keyboard_in' = [keyboard_in EXCEPT ![c] = {}]
  /\ known' = [known EXCEPT ![c] = FALSE]
  /\ told' = IF told = c THEN NULL ELSE told
  /\ callback' = IF callback # NULL /\ callback.client = c
                 THEN [callback EXCEPT !.resource = "freed"] ELSE callback
  /\ raced' = (callback # NULL)
  /\ UNCHANGED <<focusVars, flagVars, xkb_state, modifiers, finger, undefined>>

SurfacesOf(c) == {s \in Stack!Elems(surface_list) : Owner[s] = c}

(* compositor_surface_destroy: the surface that inherits the focus will be *)
(* entered again by the pointer, not by the keyboard.                      *)
DestroySurface(s) ==
  /\ Owner[s] \in leaving
  /\ Stack!Drop(s)
  /\ pointer_focused' =
       [t \in Surface |-> pointer_focused[t] /\ ~(focused_csfc = s /\ t = focused_csfc')]
  /\ Overtakes
  /\ UNCHANGED <<clientVars, keyboard_focused, keyVars, viewVars, finger, callback, undefined>>

ClientGone(c) ==
  /\ c \in leaving /\ SurfacesOf(c) = {}
  /\ leaving' = {}
  /\ UNCHANGED <<bound, device, asked, focusVars, flagVars, keyVars, viewVars, finger,
                 callback, raced, undefined>>

--------------------------------------------------------------------------------
(* The input thread.                                                       *)

(* What a callback finds before it takes event_mutex: "none" makes it      *)
(* return; without a client_data its variable stays as it was, "wild".     *)
Found(e) ==
  IF focused_csfc = NULL THEN "none"
  ELSE IF Owner[focused_csfc] \in bound THEN device[Owner[focused_csfc]][DeviceOf[e]]
  ELSE "wild"

(* The focus is with a surface that the main thread is about to destroy.   *)
Dying == focused_csfc # NULL /\ Owner[focused_csfc] \in leaving

(* A finger touches, moves and lifts in this order.                        *)
Possible(e) == (e = "touch_down" => ~finger) /\ (e \in {"touch_motion", "touch_up"} => finger)

StartCallback(e) ==
  /\ callback = NULL /\ Possible(e)
  /\ finger' = (e = "touch_down" \/ (finger /\ e # "touch_up"))
  /\ callback' = IF Found(e) = "none" THEN NULL
                 ELSE [event |-> e, client |-> Owner[focused_csfc], resource |-> Found(e)]
  /\ raced' = Dying
  /\ UNCHANGED <<focusVars, clientVars, flagVars, keyVars, viewVars, undefined>>

(* The locked part of a callback for event e, with a surface s of the same *)
(* client that has the focus and a resource that still exists.             *)
Sends(e, s) ==
  /\ callback # NULL /\ callback.event = e /\ callback.resource = "live"
  /\ s = focused_csfc /\ Owner[s] = callback.client
  /\ callback' = NULL /\ raced' = FALSE
  /\ UNCHANGED <<focusVars, clientVars, finger, undefined>>

(* mousemove_cb, for a position inside the surface, outside of it, or      *)
(* (-1, -1) when the pointer leaves the window.                            *)
Enters(s, place) == ~pointer_focused[s] /\ place = "inside"
Leaves(s, place) == pointer_focused[s] /\ place = "left"

FlagKept(s, place) == pointer_focused[s] \/ Enters(s, place)
FlagAfter(s, place) == (pointer_focused[s] \/ Enters(s, place)) /\ ~Leaves(s, place)

SendMotion(s, place) ==
  /\ Sends("motion", s)
  /\ pointer_focused' = [pointer_focused EXCEPT ![s] = FlagAfter(s, place)]
  /\ pointer_in' = [pointer_in EXCEPT ![Owner[s]] = IF Enters(s, place) THEN s
                                                    ELSE IF Leaves(s, place) THEN NULL ELSE @]
  /\ UNCHANGED <<keyboard_focused, keyVars, keyboard_in>>

(* button_cb sends wherever the pointer is.                                *)
SendButton(s) ==
  /\ Sends("button", s)
  /\ UNCHANGED <<flagVars, keyVars, viewVars>>

(* keyboard_cb: keymap and enter before the first key, and the modifiers   *)
(* when the key has changed them.                                          *)
UnsetUnsent(active) == active /\ ~modifiers
Changed(active) == active # modifiers

SendKey(s, active) ==
  /\ Sends("key", s)
  /\ keyboard_focused' = [keyboard_focused EXCEPT ![s] = TRUE]
  /\ keyboard_in' = IF keyboard_focused[s] THEN keyboard_in
                    ELSE [keyboard_in EXCEPT ![Owner[s]] = @ \union {s}]
  /\ xkb_state' = active /\ modifiers' = active
  /\ known' = IF Changed(active) THEN [known EXCEPT ![Owner[s]] = active] ELSE known
  /\ told' = IF Changed(active) THEN Owner[s] ELSE told
  /\ UNCHANGED <<pointer_focused, pointer_in>>

(* touch_down_cb, touch_motion_cb and touch_up_cb.                         *)
SendTouch(s, e) ==
  /\ Sends(e, s)
  /\ UNCHANGED <<flagVars, keyVars, viewVars>>

(* The event goes through a resource that its client has released or a     *)
(* pointer that was never assigned, or the reads of a raced callback do    *)
(* not belong together: one client's resource with another's surface, a    *)
(* surface that was freed, NULL.                                           *)
SendWild ==
  /\ callback # NULL /\ (raced \/ callback.resource # "live")
  /\ callback' = NULL /\ raced' = FALSE /\ undefined' = TRUE
  /\ UNCHANGED <<focusVars, clientVars, flagVars, keyVars, viewVars, finger>>

--------------------------------------------------------------------------------
MainThread ==
  \/ \E c \in Client :
       \/ CompositorBind(c) \/ HangUp(c) \/ ClientGone(c)
       \/ \E d \in Device : SeatGet(c, d) \/ Release(c, d)
  \/ \E s \in Surface : GetShellSurface(s) \/ DestroySurface(s)

InputThread ==
  \/ \E e \in Event : StartCallback(e)
  \/ \E s \in Surface :
       \/ \E place \in {"inside", "outside", "left"} : SendMotion(s, place)
       \/ SendButton(s)
       \/ \E active \in BOOLEAN : SendKey(s, active)
       \/ \E e \in {"touch_down", "touch_motion", "touch_up"} : SendTouch(s, e)
  \/ SendWild

Next == MainThread \/ InputThread

Spec == Init /\ [][Next]_vars

--------------------------------------------------------------------------------
TypeOK ==
  /\ surface_list \in Seq(Surface) /\ focused_csfc \in Surface \union {NULL}
  /\ bound \subseteq Client /\ leaving \subseteq Client \ bound
  /\ device \in [Client -> [Device -> {"none", "live", "freed"}]]
  /\ asked \in [Client -> SUBSET Device]
  /\ pointer_focused \in [Surface -> BOOLEAN] /\ keyboard_focused \in [Surface -> BOOLEAN]
  /\ xkb_state \in BOOLEAN /\ modifiers \in BOOLEAN
  /\ known \in [Client -> BOOLEAN] /\ told \in Client \union {NULL}
  /\ pointer_in \in [Client -> Surface \union {NULL}]
  /\ keyboard_in \in [Client -> SUBSET Surface]
  /\ finger \in BOOLEAN
  /\ callback \in Callback \union {NULL} /\ raced \in BOOLEAN
  /\ undefined \in BOOLEAN

(* A callback that no focus change and no hang-up has raced sends through  *)
(* a resource of the client whose surface has the focus, and an orderly    *)
(* client's resource still exists, whatever else is asked for, bound or    *)
(* released inside it and however earlier callbacks were raced.  The code  *)
(* does not prevent the races themselves (wayland_seat.c:394), and nothing *)
(* is claimed of a raced callback; nor of one that starts while the client *)
(* with the focus is being torn down, which finds no client_data.          *)
CallbackSound ==
  ~undefined /\ callback # NULL /\ ~raced =>
    /\ focused_csfc # NULL /\ Owner[focused_csfc] = callback.client
    /\ callback.resource # "wild"
    /\ (callback.client \in Orderly => callback.resource = "live")

(* The surface with the focus is marked pointer_focused, so that motion is *)
(* sent, only while its client has its pointer in that very surface.       *)
MotionWhereEntered ==
  ~undefined /\ focused_csfc # NULL /\ Owner[focused_csfc] \in Orderly \ leaving
     /\ pointer_focused[focused_csfc]
  => pointer_in[Owner[focused_csfc]] = focused_csfc

(* A surface marked keyboard_focused, so that keys are sent without a      *)
(* keymap and an enter event, is one its client's keyboard has entered.    *)
KeyAfterEnter ==
  ~undefined =>
    \A s \in Stack!Elems(surface_list) :
      Owner[s] \in Orderly \ leaving /\ keyboard_focused[s] => s \in keyboard_in[Owner[s]]

(* The client that was told modifiers last knows those of xkb_state: no    *)
(* change of them is recorded that was not sent.                           *)
ModifiersTold ==
  ~undefined /\ told # NULL => known[told] = xkb_state

================================================================================
