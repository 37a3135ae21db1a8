------------------------------ MODULE InputDevices -----------------------------
(***************************************************************************)
(* The input thread of the DRM window system (winsys_drm.c): the choice of *)
(* devices from udev's, and what the thread hands on of libinput's events  *)
(* through the functions the compositor sets.                              *)
(*                                                                         *)
(* The thread starts in winsys_init_native_display, before the main thread *)
(* sets s_modeset_dev and, one by one, the functions; what happens until   *)
(* then is lost.                                                           *)
(***************************************************************************)
EXTENDS Integers, SequencesExt

CONSTANTS
  Udev,              (* lists of devices udev may return                   *)
  Environment,       (* settings of the EGLWINSYS_DRM_*_DEV variables      *)
  Device,            (* device nodes                                       *)
  Key, Slot,         (* keys, and the slots a touchscreen has for fingers  *)
  Width, Height,     (* of the mode; 0 when set-up has not copied one      *)
  Delta,             (* relative motions along an axis                     *)
  Absolute,          (* positions of absolute motions                      *)
  MAX_DEVICES,
  MaxStray,          (* bound on the cursor's position before start-up     *)
  NULL

ASSUME SizeAssumption == Width \in Nat /\ Height \in Nat
ASSUME DeltaAssumption == Delta \subseteq Int
ASSUME AbsoluteAssumption == Absolute \subseteq Nat \X Nat
ASSUME MaxAssumption == MAX_DEVICES \in Nat
ASSUME DeviceAssumption == IsFiniteSet(Device) /\ NULL \notin Device
(* Every usable device has a node of its own.                              *)
ASSUME UdevAssumption ==
  \A list \in Udev :
    /\ list \in Seq(ToSet(list))
    /\ \A i \in 1..Len(list) : list[i].usable => list[i].node \in Device
    /\ \A i, j \in 1..Len(list) :
         list[i].usable /\ list[j].usable /\ list[i].node = list[j].node => i = j

VARIABLES
  udev, env,         (* the configuration, which never changes             *)
  thread,            (* "start" or "loop"                                  *)
  input_devices,     (* the list of nodes the input thread makes           *)
  opened,            (* those libinput could open                          *)
  s_modeset_dev,     (* whether it is set                                  *)
  set,               (* how many of Functions are set                      *)
  s_cursor_pos,
  (* libinput's devices.                                                   *)
  held,              (* <<keyboard, key>> pairs                            *)
  fingers,           (* <<touchscreen, slot>> pairs                        *)
  (* What the compositor was told last; no code here reads these.          *)
  key_told,          (* of each key: "down", "up" or "nothing"             *)
  touch_told,        (* of each slot                                       *)
  astray             (* slots libinput's events of which do not pair up    *)

deviceVars == <<udev, env, thread, input_devices, opened>>
startVars  == <<s_modeset_dev, set>>
keyVars    == <<held, key_told>>
touchVars  == <<fingers, touch_told, astray>>
vars == <<deviceVars, startVars, s_cursor_pos, keyVars, touchVars>>

Class == {"keyboard", "touch", "mouse"}

Init ==
  /\ udev \in Udev /\ env \in Environment
  /\ thread = "start" /\ input_devices = <<>> /\ opened = {}
  /\ s_modeset_dev = FALSE /\ set = 0
  /\ s_cursor_pos = <<0, 0>>
  /\ held = {} /\ key_told = [k \in Key |-> "nothing"]
  /\ fingers = {} /\ touch_told = [i \in Slot |-> "nothing"] /\ astray = {}

--------------------------------------------------------------------------------
(* use_input_device_init_from_udev.  A device is [node, links, usable,     *)
(* classes]; it is usable when it is an event device of the seat and has a *)
(* node.  A variable names a device by its node, or by DEVLINKS as a       *)
(* whole, which is a link only when the device has no other.               *)
Named(path, dev) == path # NULL /\ (path = dev.node \/ dev.links = {path})

Usable(i, class) == udev[i].usable /\ class \in udev[i].classes

(* The last device found under a name is the specified one.                *)
Specified(class, path) ==
  LET found == {i \in DOMAIN udev : Usable(i, class) /\ Named(path, udev[i])}
  IN  IF found = {} THEN NULL ELSE udev[Max(found)].node

(* The others, NULL standing for those passed over.                        *)
Unnamed(class, paths) ==
  [i \in DOMAIN udev |->
     IF Usable(i, class) /\ \A path \in paths : ~Named(path, udev[i]) THEN udev[i].node ELSE NULL]

SpecifiedOrAll(class) ==
  IF Specified(class, env[class]) # NULL THEN <<Specified(class, env[class])>>
  ELSE Unnamed(class, {env[class]})

SpecifiedMice == <<Specified("mouse", env["mouse"]), Specified("mouse", env["mouse_abs"])>>
MiceOfSetting ==
  IF env["mouse"] = NULL /\ env["mouse_abs"] = NULL THEN Unnamed("mouse", {}) ELSE SpecifiedMice
Mice == IF SpecifiedMice = <<NULL, NULL>> THEN Unnamed("mouse", {env["mouse"], env["mouse_abs"]})
        ELSE SpecifiedMice

add_string_to_list(list, string) ==
  IF string = NULL \/ Contains(list, string) THEN list ELSE Append(list, string)

AddAll(strings) ==
  LET list[n \in 0..Len(strings)] ==
        IF n = 0 THEN <<>> ELSE add_string_to_list(list[n - 1], strings[n])
  IN list[Len(strings)]

(* input_thread_main up to its event loop: libinput may fail to open some. *)
StartLoop ==
  /\ thread = "start" /\ thread' = "loop"
  /\ input_devices' = AddAll(SpecifiedOrAll("keyboard") \o SpecifiedOrAll("touch") \o Mice)
  /\ opened' \in SUBSET ToSet(input_devices')
  /\ UNCHANGED <<udev, env, startVars, s_cursor_pos, keyVars, touchVars>>

--------------------------------------------------------------------------------
(* The main thread: create_drm_device, then compositor_seat_init, which    *)
(* sets the functions in this order.                                       *)
Functions == <<"motion", "button", "key", "touch_down", "touch_up", "touch_motion">>
IsSet(f) == \E i \in 1..set : Functions[i] = f

SetModesetDev ==
  /\ ~s_modeset_dev /\ s_modeset_dev' = TRUE
  /\ UNCHANGED <<deviceVars, set, s_cursor_pos, keyVars, touchVars>>

SetFunction ==
  /\ s_modeset_dev /\ set < Len(Functions) /\ set' = set + 1
  /\ UNCHANGED <<deviceVars, s_modeset_dev, s_cursor_pos, keyVars, touchVars>>

--------------------------------------------------------------------------------
(* libinput's events, handled one by one in process_input_events.          *)
Opened(class) ==
  {dev.node : dev \in {x \in ToSet(udev) : x.node \in opened /\ class \in x.classes}}

(* on_keyboard_key: "Ignore key events that are not seat wide state        *)
(* changes."                                                               *)
SeatCount(k, pairs) == Cardinality({d \in Device : <<d, k>> \in pairs})

ForwardAlways(state, count) == TRUE
SeatWide(state, count) == count = IF state = "down" THEN 1 ELSE 0

OnKeyboardKey(k, state) ==
  key_told' = IF IsSet("key") /\ SeatWide(state, SeatCount(k, held'))
              THEN [key_told EXCEPT ![k] = state] ELSE key_told

KeyDown(d, k) ==
  /\ d \in Opened("keyboard") /\ <<d, k>> \notin held /\ held' = held \union {<<d, k>>}
  /\ OnKeyboardKey(k, "down")
  /\ UNCHANGED <<deviceVars, startVars, s_cursor_pos, touchVars>>

KeyUp(d, k) ==
  /\ <<d, k>> \in held /\ held' = held \ {<<d, k>>}
  /\ OnKeyboardKey(k, "up")
  /\ UNCHANGED <<deviceVars, startVars, s_cursor_pos, touchVars>>

(* on_pointer_motion: the cursor stays on the screen, once the screen is   *)
(* known.  Each motion is told with the position it leads to.              *)
ClampedBelow(x) == IF x < 0 THEN 0 ELSE x
ClampedOneOff(x, size) == IF s_modeset_dev /\ x > size THEN size - 1 ELSE ClampedBelow(x)
Clamped(x, size) ==
  IF s_modeset_dev /\ ClampedBelow(x) > size - 1 THEN size - 1 ELSE ClampedBelow(x)

PointerMotion(dx, dy) ==
  /\ Opened("mouse") # {}
  /\ ~s_modeset_dev => s_cursor_pos[1] + dx <= MaxStray /\ s_cursor_pos[2] + dy <= MaxStray
  /\ s_cursor_pos' = <<Clamped(s_cursor_pos[1] + dx, Width),
                       Clamped(s_cursor_pos[2] + dy, Height)>>
  /\ UNCHANGED <<deviceVars, startVars, keyVars, touchVars>>

(* on_pointer_motion_absolute: the position is taken as it is.             *)
PointerMotionAbsolute(pos) ==
  /\ Opened("mouse") # {} /\ s_modeset_dev
  /\ s_cursor_pos' = pos
  /\ UNCHANGED <<deviceVars, startVars, keyVars, touchVars>>

(* on_touch_down and on_touch_up name a finger by its slot.  Up events     *)
(* need no s_modeset_dev.  A slot goes astray with a contact that begins   *)
(* before every function is set or in a slot in use on another             *)
(* touchscreen, until an up event leaves no finger in it.                  *)
InSlot(i, pairs) == {t \in Device : <<t, i>> \in pairs}

TouchDown(t, i) ==
  /\ t \in Opened("touch") /\ <<t, i>> \notin fingers
  /\ fingers' = fingers \union {<<t, i>>}
  /\ touch_told' = IF s_modeset_dev /\ IsSet("touch_down")
                   THEN [touch_told EXCEPT ![i] = "down"] ELSE touch_told
  /\ astray' = IF set < Len(Functions) \/ InSlot(i, fingers) # {}
               THEN astray \union {i} ELSE astray
  /\ UNCHANGED <<deviceVars, startVars, s_cursor_pos, keyVars>>

UpOnlyLogged(i) == touch_told
UpTold(i) == IF IsSet("touch_up") THEN [touch_told EXCEPT ![i] = "up"] ELSE touch_told

TouchUp(t, i) ==
  /\ <<t, i>> \in fingers /\ fingers' = fingers \ {<<t, i>>}
  /\ touch_told' = UpTold(i)
  /\ astray' = IF IsSet("touch_up") /\ InSlot(i, fingers') = {} THEN astray \ {i} ELSE astray
  /\ UNCHANGED <<deviceVars, startVars, s_cursor_pos, keyVars>>

(* LIBINPUT_EVENT_TOUCH_CANCEL ends a contact and is only logged.          *)
TouchCancel(t, i) ==
  /\ <<t, i>> \in fingers /\ fingers' = fingers \ {<<t, i>>}
  /\ astray' = astray \union {i}
  /\ UNCHANGED <<deviceVars, startVars, s_cursor_pos, keyVars, touch_told>>

Next ==
  \/ StartLoop \/ SetModesetDev \/ SetFunction
  \/ \E d \in Device, k \in Key : KeyDown(d, k) \/ KeyUp(d, k)
  \/ \E dx, dy \in Delta : PointerMotion(dx, dy)
  \/ \E pos \in Absolute : PointerMotionAbsolute(pos)
  \/ \E t \in Device, i \in Slot : TouchDown(t, i) \/ TouchUp(t, i) \/ TouchCancel(t, i)

Spec == Init /\ [][Next]_vars

--------------------------------------------------------------------------------
Told == {"nothing", "down", "up"}

(* The type invariant.  The cursor never leaves the screen to the left or  *)
(* the top, not even before the screen is known.                           *)
TypeOK ==
  /\ udev \in Udev /\ env \in Environment
  /\ thread \in {"start", "loop"} /\ opened \subseteq ToSet(input_devices)
  /\ s_modeset_dev \in BOOLEAN /\ set \in 0..Len(Functions)
  /\ s_cursor_pos \in (Nat \union {-1}) \X (Nat \union {-1})
  /\ held \subseteq Device \X Key /\ key_told \in [Key -> Told]
  /\ fingers \subseteq Device \X Slot /\ touch_told \in [Slot -> Told]
  /\ astray \subseteq Slot

(* The input thread finds a keyboard, a touchscreen and a mouse whenever   *)
(* the seat has one, whatever the environment names and however the        *)
(* classes overlap; it stays within the array of MAX_DEVICES when the seat *)
(* has no more devices; and where it finds the keyboard or touchscreen the *)
(* environment names, it takes no other that is nothing else.              *)
Eligible == {dev \in ToSet(udev) : dev.usable}
DevicesChosen ==
  thread = "loop" =>
    /\ \A class \in Class :
         (\E dev \in Eligible : class \in dev.classes) =>
           \E dev \in Eligible : class \in dev.classes /\ Contains(input_devices, dev.node)
    /\ Cardinality(Eligible) <= MAX_DEVICES => Len(input_devices) <= MAX_DEVICES
    /\ \A class \in {"keyboard", "touch"} : \A dev, other \in Eligible :
         /\ class \in dev.classes /\ Named(env[class], dev)
         /\ other.classes = {class} /\ Contains(input_devices, other.node)
         => Named(env[class], other)

(* A key the compositor was told of is, for it, down exactly while some    *)
(* keyboard holds it, however many keyboards press and release it and      *)
(* whatever was pressed before the compositor listened.                    *)
KeysAgree ==
  \A k \in Key : key_told[k] # "nothing" =>
    (key_told[k] = "down" <=> \E d \in Device : <<d, k>> \in held)

(* A slot the compositor was told of is, for it, down exactly while a      *)
(* finger is in it; and a slot that went astray, because of start-up, of a *)
(* second touchscreen or of a cancelled contact, is right again after the  *)
(* next contact that ends with all fingers up.                             *)
TouchesAgree ==
  \A i \in Slot \ astray : touch_told[i] # "nothing" =>
    (touch_told[i] = "down" <=> \E t \in Device : <<t, i>> \in fingers)

(* Once the screen is known, a relative motion leads to a point on it,     *)
(* from wherever start-up or an absolute motion has left the cursor; to -1 *)
(* along an axis whose size is 0, for want of a mode.                      *)
OnAxis(x, size) == x \in 0..size - 1 \/ (size = 0 /\ x = -1)
OnScreen(pos) == OnAxis(pos[1], Width) /\ OnAxis(pos[2], Height)
StaysOnScreen ==
  [][s_modeset_dev /\ s_cursor_pos' # s_cursor_pos =>
       OnScreen(s_cursor_pos') \/ s_cursor_pos' \in Absolute]_vars
================================================================================
