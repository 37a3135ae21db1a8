---------------------------- MODULE SeatInputProofs ----------------------------
(***************************************************************************)
(* Theorems about SeatInput, for any clients, surfaces and devices, and    *)
(* any interleaving of the two threads.                                    *)
(***************************************************************************)
EXTENDS SeatInput, SequenceTheorems, TLAPS

--------------------------------------------------------------------------------
(* What raising and dropping a surface does to the list.                   *)

Listed == Stack!Elems(surface_list)

LEMMA TopElem ==
  ASSUME NEW S, NEW q \in Seq(S)
  PROVE  Stack!Top(q) = NULL \/ Stack!Top(q) \in Stack!Elems(q)
<1>1. CASE q = <<>>
    BY <1>1 DEF Stack!Top
<1>2. CASE q # <<>>
  <2>1. Len(q) \in DOMAIN q
      BY <1>2, LenProperties, EmptySeq
  <2> QED
      BY <1>2, <2>1 DEF Stack!Top, Stack!Elems
<1> QED
    BY <1>1, <1>2

LEMMA ElemsIn ==
  ASSUME NEW S, NEW q \in Seq(S)
  PROVE  Stack!Elems(q) \subseteq S
BY ElementOfSeq, LenProperties DEF Stack!Elems

LEMMA RaisedElems ==
  ASSUME NEW S, NEW q \in Seq(S), NEW s \in S
  PROVE  /\ Append(q, s) \in Seq(S)
         /\ Stack!Elems(Append(q, s)) = Stack!Elems(q) \union {s}
<1> DEFINE r == Append(q, s)
<1>1. /\ r \in Seq(S) /\ DOMAIN r = 1..(Len(q) + 1) /\ DOMAIN q = 1..Len(q) /\ Len(q) \in Nat
      /\ \A i \in 1..Len(q) : r[i] = q[i]
      /\ r[Len(q) + 1] = s
    OBVIOUS
<1>2. \A i \in DOMAIN q : i \in DOMAIN r /\ r[i] = q[i]
    BY <1>1
<1>3. Len(q) + 1 \in DOMAIN r
    BY <1>1
<1>4. \A i \in DOMAIN r : i \in DOMAIN q \/ i = Len(q) + 1
    BY <1>1
<1> HIDE DEF r
<1>5. Stack!Elems(r) = Stack!Elems(q) \union {s}
    BY <1>1, <1>2, <1>3, <1>4 DEF Stack!Elems
<1> QED
    BY <1>1, <1>5 DEF r

(* Unlinking the i-th element: the others stay and keep their order.       *)
LEMMA CutElement ==
  ASSUME NEW S, NEW q \in Seq(S), NEW i \in 1..Len(q)
  PROVE  LET r == SubSeq(q, 1, i - 1) \o SubSeq(q, i + 1, Len(q))
         IN  /\ r \in Seq(S) /\ Len(r) = Len(q) - 1
             /\ \A j \in 1..(Len(q) - 1) : r[j] = IF j < i THEN q[j] ELSE q[j + 1]
<1> DEFINE n == Len(q)
           a == SubSeq(q, 1, i - 1)
           b == SubSeq(q, i + 1, n)
<1>1. n \in Nat /\ \A j \in 1..n : q[j] \in S
    BY LenProperties, ElementOfSeq
<1> HIDE DEF n
<1>2. a \in Seq(S) /\ Len(a) = i - 1 /\ \A j \in 1..(i - 1) : a[j] = q[j]
  <2>1. /\ 1 \in Int /\ i - 1 \in Int /\ \A j \in 1..(i - 1) : q[j] \in S
        /\ (IF 1 <= i - 1 THEN i - 1 - 1 + 1 ELSE 0) = i - 1 /\ i - 1 - 1 + 1 = i - 1
        /\ \A j \in 1..(i - 1) : 1 + j - 1 = j
      BY <1>1 DEF n
  <2>2. /\ a \in Seq(S) /\ Len(a) = IF 1 <= i - 1 THEN i - 1 - 1 + 1 ELSE 0
        /\ \A j \in 1..(i - 1 - 1 + 1) : a[j] = q[1 + j - 1]
      BY <2>1, SubSeqProperties
  <2> HIDE DEF a
  <2> QED
      BY <2>1, <2>2
<1>3. b \in Seq(S) /\ Len(b) = n - i /\ \A j \in 1..(n - i) : b[j] = q[i + j]
  <2>1. /\ i + 1 \in Int /\ n \in Int /\ \A j \in (i + 1)..n : q[j] \in S
        /\ (IF i + 1 <= n THEN n - (i + 1) + 1 ELSE 0) = n - i /\ n - (i + 1) + 1 = n - i
        /\ \A j \in 1..(n - i) : (i + 1) + j - 1 = i + j
      BY <1>1 DEF n
  <2>2. /\ b \in Seq(S) /\ Len(b) = IF i + 1 <= n THEN n - (i + 1) + 1 ELSE 0
        /\ \A j \in 1..(n - (i + 1) + 1) : b[j] = q[(i + 1) + j - 1]
    <3> DEFINE m == i + 1
    <3>1. m \in Int /\ n \in Int /\ \A j \in m..n : q[j] \in S
        BY <2>1
    <3> HIDE DEF m
    <3>2. /\ SubSeq(q, m, n) \in Seq(S)
          /\ Len(SubSeq(q, m, n)) = IF m <= n THEN n - m + 1 ELSE 0
          /\ \A j \in 1..(n - m + 1) : SubSeq(q, m, n)[j] = q[m + j - 1]
        BY <3>1, SubSeqProperties
    <3> QED
        BY <3>2 DEF m
  <2> HIDE DEF b
  <2> QED
      BY <2>1, <2>2
<1> HIDE DEF a, b
<1> DEFINE r == a \o b
<1>4. /\ r \in Seq(S) /\ Len(r) = Len(a) + Len(b)
      /\ \A j \in 1..(Len(a) + Len(b)) : r[j] = IF j <= Len(a) THEN a[j] ELSE b[j - Len(a)]
    BY <1>2, <1>3, ConcatProperties
<1> HIDE DEF r
<1>5. Len(a) + Len(b) = n - 1
    BY <1>1, <1>2, <1>3 DEF n
<1>6. ASSUME NEW j \in 1..(n - 1) PROVE r[j] = IF j < i THEN q[j] ELSE q[j + 1]
  <2>1. CASE j < i
    <3>1. j \in 1..(i - 1) /\ j <= Len(a) /\ j \in 1..(Len(a) + Len(b))
        BY <2>1, <1>1, <1>2, <1>5 DEF n
    <3> QED
        BY <2>1, <3>1, <1>2, <1>4
  <2>2. CASE ~(j < i)
    <3>1. j - (i - 1) \in 1..(n - i) /\ i + (j - (i - 1)) = j + 1
        BY <2>2, <1>1 DEF n
    <3>2. r[j] = b[j - (i - 1)]
        BY <2>2, <1>1, <1>2, <1>4, <1>5 DEF n
    <3>3. b[j - (i - 1)] = q[i + (j - (i - 1))]
        BY <3>1, <1>3
    <3> QED
        BY <2>2, <3>1, <3>2, <3>3
  <2> QED
      BY <2>1, <2>2
<1> QED
    BY <1>4, <1>5, <1>6 DEF r, a, b, n

LEMMA DroppedElems ==
  ASSUME NEW S, NEW q \in Seq(S), NEW s
  PROVE  /\ Stack!Without(q, s) \in Seq(S)
         /\ Stack!Elems(Stack!Without(q, s)) \subseteq Stack!Elems(q)
         /\ Stack!Elems(q) \ {s} \subseteq Stack!Elems(Stack!Without(q, s))
<1>1. CASE s \notin Stack!Elems(q)
    BY <1>1 DEF Stack!Without
<1>2. CASE s \in Stack!Elems(q)
  <2> DEFINE i == CHOOSE k \in DOMAIN q : q[k] = s
             r == SubSeq(q, 1, i - 1) \o SubSeq(q, i + 1, Len(q))
  <2>1. i \in 1..Len(q) /\ q[i] = s /\ Len(q) \in Nat /\ DOMAIN q = 1..Len(q)
      BY <1>2, LenProperties DEF Stack!Elems
  <2>2. Stack!Without(q, s) = r
      BY <1>2 DEF Stack!Without
  <2> HIDE DEF i
  <2>3. /\ r \in Seq(S) /\ Len(r) = Len(q) - 1
        /\ \A j \in 1..(Len(q) - 1) : r[j] = IF j < i THEN q[j] ELSE q[j + 1]
      BY <2>1, CutElement
  <2> HIDE DEF r
  <2>4. DOMAIN r = 1..(Len(q) - 1)
      BY <2>3, LenProperties
  <2>5. \A j \in DOMAIN r : \E k \in DOMAIN q : r[j] = q[k]
    <3> TAKE j \in DOMAIN r
    <3>1. j \in DOMAIN q /\ j + 1 \in DOMAIN q
        BY <2>1, <2>4
    <3> QED
        BY <3>1, <2>3, <2>4
  <2>6. \A k \in DOMAIN q : k # i => \E j \in DOMAIN r : r[j] = q[k]
    <3> SUFFICES ASSUME NEW k \in DOMAIN q, k # i PROVE \E j \in DOMAIN r : r[j] = q[k]
        OBVIOUS
    <3>1. CASE k < i
      <4>1. k \in DOMAIN r /\ r[k] = q[k]
          BY <3>1, <2>1, <2>3, <2>4
      <4> QED
          BY <4>1
    <3>2. CASE ~(k < i)
      <4>1. k - 1 \in DOMAIN r /\ ~(k - 1 < i) /\ (k - 1) + 1 = k
          BY <3>2, <2>1, <2>4
      <4>2. r[k - 1] = q[k]
          BY <4>1, <2>3, <2>4
      <4> QED
          BY <4>1, <4>2
    <3> QED
        BY <3>1, <3>2
  <2>7. Stack!Elems(r) \subseteq Stack!Elems(q)
      BY <2>5 DEF Stack!Elems
  <2>8. Stack!Elems(q) \ {s} \subseteq Stack!Elems(r)
      BY <2>1, <2>6 DEF Stack!Elems
  <2> QED
      BY <2>2, <2>3, <2>7, <2>8
<1> QED
    BY <1>1, <1>2

--------------------------------------------------------------------------------
(* The actions of the input thread's second half, so that a step of Next   *)
(* is split in one place.                                                  *)
Places == {"inside", "outside", "left"}
Touches == {"touch_down", "touch_motion", "touch_up"}

LEMMA NewFocus ==
  ASSUME TypeOK, NEW s \in Surface, Stack!Raise(s) \/ Stack!Drop(s)
  PROVE  /\ surface_list' \in Seq(Surface)
         /\ focused_csfc' \in Surface \union {NULL}
<1>1. surface_list \in Seq(Surface) /\ focused_csfc \in Surface \union {NULL}
    BY DEF TypeOK
<1>2. CASE Stack!Raise(s)
    BY <1>1, <1>2, RaisedElems DEF Stack!Raise
<1>3. CASE Stack!Drop(s)
  <2>1. surface_list' \in Seq(Surface)
      BY <1>1, <1>3, DroppedElems DEF Stack!Drop
  <2>2. Stack!Top(surface_list') \in Surface \union {NULL}
      BY <2>1, TopElem, ElemsIn
  <2> QED
      BY <1>1, <1>3, <2>1, <2>2 DEF Stack!Drop
<1> QED
    BY <1>2, <1>3

(* Every step keeps the types.                                             *)
LEMMA TypeCorrectStep == TypeOK /\ [Next]_vars => TypeOK'
<1> SUFFICES ASSUME TypeOK, [Next]_vars PROVE TypeOK'
    OBVIOUS
<1> USE DEF TypeOK, focusVars, clientVars, flagVars, keyVars, viewVars
<1>1. ASSUME NEW c \in Client, CompositorBind(c) PROVE TypeOK'
    BY <1>1 DEF CompositorBind, NoDevices
<1>2. ASSUME NEW c \in Client, HangUp(c) PROVE TypeOK'
  <2>1. callback' \in Callback \union {NULL}
      BY <1>2 DEF HangUp, Callback
  <2> QED
      BY <1>2, <2>1 DEF HangUp, MayRequest, BoundWithout, NoDevices
<1>3. ASSUME NEW c \in Client, ClientGone(c) PROVE TypeOK'
    BY <1>3 DEF ClientGone
<1>4. ASSUME NEW c \in Client, NEW d \in Device, SeatGet(c, d) PROVE TypeOK'
    BY <1>4 DEF SeatGet, StoreResource
<1>5. ASSUME NEW c \in Client, NEW d \in Device, Release(c, d) PROVE TypeOK'
    BY <1>5 DEF Release, Callback
<1>6. ASSUME NEW s \in Surface, GetShellSurface(s) PROVE TypeOK'
    BY <1>6, NewFocus DEF GetShellSurface, Overtakes, Cleared
<1>7. ASSUME NEW s \in Surface, DestroySurface(s) PROVE TypeOK'
    BY <1>7, NewFocus DEF DestroySurface, Overtakes
<1>8. ASSUME NEW e \in Event, StartCallback(e) PROVE TypeOK'
  <2>1. Found(e) # "none" => callback' \in Callback
      BY <1>8, OwnerAssumption DEF StartCallback, Found, Callback, Event, DeviceOf, Device
  <2> QED
      BY <1>8, <2>1 DEF StartCallback, Dying
<1>9. ASSUME NEW s \in Surface, NEW place \in Places, SendMotion(s, place) PROVE TypeOK'
    BY <1>9 DEF SendMotion, Sends, FlagAfter
<1>10. ASSUME NEW s \in Surface, SendButton(s) PROVE TypeOK'
    BY <1>10 DEF SendButton, Sends
<1>11. ASSUME NEW s \in Surface, NEW active \in BOOLEAN, SendKey(s, active) PROVE TypeOK'
    BY <1>11, OwnerAssumption DEF SendKey, Sends
<1>12. ASSUME NEW s \in Surface, NEW e \in Touches, SendTouch(s, e) PROVE TypeOK'
    BY <1>12 DEF SendTouch, Sends
<1>13. CASE SendWild
    BY <1>13 DEF SendWild
<1>14. CASE UNCHANGED vars
    BY <1>14 DEF vars
<1> QED
    BY <1>1, <1>2, <1>3, <1>4, <1>5, <1>6, <1>7, <1>8, <1>9, <1>10, <1>11, <1>12, <1>13,
       <1>14 DEF Next, MainThread, InputThread, Places, Touches

(* Every variable keeps its type, and a client without its client_data is  *)
(* the only one whose surfaces are being destroyed.                        *)
THEOREM TypeCorrect == Spec => []TypeOK
<1>1. Init => TypeOK
  <2>1. NoDevices \in [Device -> {"none", "live", "freed"}] /\ <<>> \in Seq(Surface)
      BY DEF NoDevices
  <2> QED
      BY <2>1 DEF Init, TypeOK, Stack!Init
<1> QED
    BY <1>1, TypeCorrectStep, PTL DEF Spec

--------------------------------------------------------------------------------
(* The invariant.  It is needed because a callback started now relies on   *)
(* facts about the time before: that the focus is with a listed surface,   *)
(* that a listed surface's client has a client_data or is leaving, that an *)
(* orderly client never released a resource, and that what was last sent   *)
(* as modifiers is what the keyboard's state says.                         *)

FocusListed == focused_csfc # NULL => focused_csfc \in Listed
OwnersHere == \A s \in Listed : Owner[s] \in bound \union leaving
OneLeaving == \A c, d \in leaving : c = d
NothingReleased == \A c \in Orderly : \A d \in Device : device[c][d] # "freed"
ModifiersCurrent == modifiers = xkb_state

Clients == FocusListed /\ OwnersHere /\ OneLeaving /\ NothingReleased

LEMMA ClientsInit == Init => Clients
<1>1. Stack!Elems(<<>>) = {}
    BY DEF Stack!Elems
<1>2. ASSUME Init PROVE NothingReleased
    BY <1>2, OrderlyAssumption DEF Init, NothingReleased, NoDevices
<1> QED
    BY <1>1, <1>2 DEF Init, Stack!Init, Clients, FocusListed, OwnersHere, OneLeaving, Listed

(* What a new focus is, and who is in the list.                            *)
LEMMA ListSteps ==
  ASSUME TypeOK, FocusListed, NEW s \in Surface
  PROVE  /\ Stack!Raise(s) => /\ Listed' = Listed \union {s} /\ focused_csfc' = s
         /\ Stack!Drop(s) => /\ Listed' \subseteq Listed /\ FocusListed'
                             /\ focused_csfc # s => focused_csfc' = focused_csfc
<1>1. surface_list \in Seq(Surface)
    BY DEF TypeOK
<1>2. ASSUME Stack!Raise(s) PROVE Listed' = Listed \union {s} /\ focused_csfc' = s
    BY <1>1, <1>2, RaisedElems DEF Stack!Raise, Listed
<1>3. ASSUME Stack!Drop(s)
      PROVE  /\ Listed' \subseteq Listed /\ FocusListed'
             /\ focused_csfc # s => focused_csfc' = focused_csfc
  <2>1. /\ surface_list' \in Seq(Surface) /\ Listed' \subseteq Listed
        /\ Listed \ {s} \subseteq Listed'
      BY <1>1, <1>3, DroppedElems DEF Stack!Drop, Listed
  <2>2. focused_csfc # s => focused_csfc' = focused_csfc
      BY <1>3 DEF Stack!Drop
  <2>3. CASE focused_csfc = s
    <3>1. focused_csfc' = Stack!Top(surface_list')
        BY <1>3, <2>3 DEF Stack!Drop
    <3> QED
        BY <2>1, <2>2, <3>1, TopElem DEF FocusListed, Listed
  <2>4. CASE focused_csfc # s
      BY <2>1, <2>2, <2>4 DEF FocusListed
  <2> QED
      BY <2>1, <2>2, <2>3, <2>4
<1> QED
    BY <1>2, <1>3

LEMMA ClientsStep == TypeOK /\ Clients /\ [Next]_vars => Clients'
<1> SUFFICES ASSUME TypeOK, Clients, [Next]_vars PROVE Clients'
    OBVIOUS
<1> USE DEF Clients
<1>1. CASE UNCHANGED focusVars /\ UNCHANGED clientVars
    BY <1>1 DEF focusVars, clientVars, FocusListed, OwnersHere, OneLeaving,
                NothingReleased, Listed
<1>2. ASSUME NEW c \in Client, CompositorBind(c) PROVE Clients'
  <2>1. NothingReleased'
      BY <1>2, OrderlyAssumption DEF CompositorBind, NothingReleased, TypeOK, NoDevices
  <2> QED
      BY <1>2, <2>1 DEF CompositorBind, focusVars, FocusListed, OwnersHere, OneLeaving, Listed
<1>3. ASSUME NEW c \in Client, HangUp(c) PROVE Clients'
  <2>1. NothingReleased'
      BY <1>3, OrderlyAssumption DEF HangUp, NothingReleased, TypeOK, NoDevices
  <2> QED
      BY <1>3, <2>1 DEF HangUp, MayRequest, BoundWithout, focusVars, FocusListed, OwnersHere,
                        OneLeaving, Listed
<1>4. ASSUME NEW c \in Client, ClientGone(c) PROVE Clients'
    BY <1>4 DEF ClientGone, SurfacesOf, focusVars, FocusListed, OwnersHere, OneLeaving,
                NothingReleased, Listed
<1>5. ASSUME NEW c \in Client, NEW d \in Device, SeatGet(c, d) PROVE Clients'
  <2>1. NothingReleased'
      BY <1>5, OrderlyAssumption DEF SeatGet, StoreResource, NothingReleased, TypeOK
  <2> QED
      BY <1>5, <2>1 DEF SeatGet, focusVars, FocusListed, OwnersHere, OneLeaving, Listed
<1>6. ASSUME NEW c \in Client, NEW d \in Device, Release(c, d) PROVE Clients'
  <2>1. NothingReleased'
      BY <1>6, OrderlyAssumption DEF Release, NothingReleased, TypeOK
  <2> QED
      BY <1>6, <2>1 DEF Release, focusVars, FocusListed, OwnersHere, OneLeaving, Listed
<1>7. ASSUME NEW s \in Surface, GetShellSurface(s) PROVE Clients'
  <2>1. /\ Listed' = Listed \union {s} /\ focused_csfc' = s
        /\ Owner[s] \in bound /\ UNCHANGED clientVars
      BY <1>7, ListSteps DEF GetShellSurface, MayRequest
  <2> QED
      BY <2>1 DEF clientVars, FocusListed, OwnersHere, OneLeaving, NothingReleased
<1>8. ASSUME NEW s \in Surface, DestroySurface(s) PROVE Clients'
  <2>1. Listed' \subseteq Listed /\ FocusListed' /\ UNCHANGED clientVars
      BY <1>8, ListSteps DEF DestroySurface
  <2> QED
      BY <2>1 DEF clientVars, OwnersHere, OneLeaving, NothingReleased
<1>9. InputThread => UNCHANGED focusVars /\ UNCHANGED clientVars
    BY DEF InputThread, StartCallback, SendMotion, SendButton, SendKey, SendTouch, SendWild, Sends
<1> QED
    BY <1>1, <1>2, <1>3, <1>4, <1>5, <1>6, <1>7, <1>8, <1>9
    DEF Next, MainThread, vars

LEMMA ClientsKept == Spec => []Clients
    BY ClientsInit, ClientsStep, TypeCorrect, PTL DEF Spec

--------------------------------------------------------------------------------
(* What StartCallback found stays true in every callback that is not       *)
(* raced: the focus and the clients are then those it found, and what else *)
(* the main thread does - binding, new devices, releases of clients that   *)
(* are not orderly - leaves an orderly client's resource alone.  The       *)
(* client has a client_data, because a callback for a client that has lost *)
(* it is raced from its start.                                             *)
THEOREM CallbacksAreSound == Spec => []CallbackSound
<1>1. Init => CallbackSound
    BY DEF Init, CallbackSound
<1>2. TypeOK /\ Clients /\ CallbackSound /\ [Next]_vars => CallbackSound'
  <2> SUFFICES ASSUME TypeOK, Clients, CallbackSound, [Next]_vars,
                      ~undefined', callback' # NULL, ~raced'
               PROVE  CallbackSound'
      BY DEF CallbackSound
  <2>1. CASE UNCHANGED <<focused_csfc, callback, raced, undefined>>
      BY <2>1 DEF CallbackSound
  <2>2. ASSUME NEW c \in Client, NEW d \in Device, Release(c, d) PROVE CallbackSound'
    <3>1. /\ callback # NULL /\ ~undefined /\ ~raced
          /\ callback'.client = callback.client /\ UNCHANGED focused_csfc
          /\ \/ callback'.resource = callback.resource
             \/ callback'.resource = "freed" /\ callback.client = c /\ c \notin Orderly
        BY <2>2 DEF Release, focusVars, TypeOK, Callback
    <3> QED
        BY <3>1 DEF CallbackSound
  <2>3. ASSUME NEW e \in Event, StartCallback(e) PROVE CallbackSound'
    <3>1. /\ Found(e) # "none" /\ focused_csfc # NULL /\ UNCHANGED focused_csfc
          /\ callback' = [event |-> e, client |-> Owner[focused_csfc], resource |-> Found(e)]
        BY <2>3 DEF StartCallback, Found, focusVars
    <3>2. Owner[focused_csfc] \notin leaving
        BY <2>3, <3>1 DEF StartCallback, Dying
    <3>3. Owner[focused_csfc] \in bound
        BY <3>1, <3>2 DEF Clients, FocusListed, OwnersHere
    <3>4. /\ Found(e) = device[Owner[focused_csfc]][DeviceOf[e]]
          /\ DeviceOf[e] \in Device /\ Owner[focused_csfc] \in Client
        BY <3>1, <3>3, OwnerAssumption DEF Found, DeviceOf, Event, Device, TypeOK
    <3>5. Found(e) \in {"none", "live", "freed"}
        BY <3>4 DEF TypeOK
    <3>6. Owner[focused_csfc] \in Orderly => Found(e) # "freed"
        BY <3>4 DEF Clients, NothingReleased
    <3> QED
        BY <3>1, <3>5, <3>6 DEF CallbackSound
  <2>4. ~(\E c \in Client : HangUp(c))
    <3>1. ASSUME NEW c \in Client, HangUp(c) PROVE FALSE
      <4>1. callback # NULL
          BY <3>1, NullAssumption DEF HangUp
      <4> QED
          BY <3>1, <4>1 DEF HangUp
    <3> QED
        BY <3>1
  <2>5. ASSUME NEW s \in Surface, GetShellSurface(s) \/ DestroySurface(s)
        PROVE  UNCHANGED <<focused_csfc, callback, raced, undefined>>
    <3>1. Overtakes /\ UNCHANGED <<callback, undefined>> /\ raced \in BOOLEAN
        BY <2>5 DEF GetShellSurface, DestroySurface, TypeOK
    <3> QED
        BY <3>1 DEF Overtakes
  <2>6. ASSUME NEW c \in Client, NEW d \in Device,
               CompositorBind(c) \/ ClientGone(c) \/ SeatGet(c, d)
        PROVE  UNCHANGED <<focused_csfc, callback, raced, undefined>>
      BY <2>6 DEF CompositorBind, ClientGone, SeatGet, focusVars
  <2>7. InputThread => \E e \in Event : StartCallback(e)
      BY DEF InputThread, SendMotion, SendButton, SendKey, SendTouch, SendWild, Sends
  <2>8. CASE MainThread
    <3>1. Device # {}
        BY DEF Device
    <3> QED
        BY <2>1, <2>2, <2>4, <2>5, <2>6, <2>8, <3>1 DEF MainThread
  <2>9. CASE UNCHANGED vars
      BY <2>1, <2>9 DEF vars, focusVars
  <2> QED
      BY <2>3, <2>7, <2>8, <2>9 DEF Next
<1> QED
    BY <1>1, <1>2, TypeCorrect, ClientsKept, PTL DEF Spec

--------------------------------------------------------------------------------
(* The surface with the focus is marked only while its pointer is in it:   *)
(* a new focus is unmarked, and a client's pointer is forgotten with it.   *)
THEOREM MotionIsWhereEntered == Spec => []MotionWhereEntered
<1>1. Init => MotionWhereEntered
    BY DEF Init, Stack!Init, MotionWhereEntered
<1>2. TypeOK /\ Clients /\ MotionWhereEntered /\ [Next]_vars => MotionWhereEntered'
  <2> SUFFICES ASSUME TypeOK, Clients, MotionWhereEntered, [Next]_vars,
                      ~undefined', focused_csfc' # NULL,
                      Owner[focused_csfc'] \in Orderly \ leaving',
                      pointer_focused'[focused_csfc']
               PROVE  pointer_in'[Owner[focused_csfc']] = focused_csfc'
      BY DEF MotionWhereEntered
  <2>1. CASE UNCHANGED <<focused_csfc, leaving, undefined, pointer_focused, pointer_in>>
      BY <2>1 DEF MotionWhereEntered
  <2>2. ASSUME NEW c \in Client, CompositorBind(c)
        PROVE  pointer_in'[Owner[focused_csfc']] = focused_csfc'
      BY <2>1, <2>2 DEF CompositorBind, focusVars, flagVars, viewVars
  <2>3. ASSUME NEW c \in Client, HangUp(c)
        PROVE  pointer_in'[Owner[focused_csfc']] = focused_csfc'
    <3>1. /\ UNCHANGED <<focused_csfc, pointer_focused>> /\ ~undefined
          /\ leaving = {} /\ leaving' = {c} /\ pointer_in' = [pointer_in EXCEPT ![c] = NULL]
        BY <2>3 DEF HangUp, MayRequest, focusVars, flagVars
    <3> QED
        BY <3>1 DEF MotionWhereEntered, TypeOK
  <2>4. ASSUME NEW c \in Client, ClientGone(c)
        PROVE  pointer_in'[Owner[focused_csfc']] = focused_csfc'
    <3>1. /\ UNCHANGED <<focused_csfc, pointer_focused, undefined, pointer_in>>
          /\ c \in leaving /\ \A s \in Listed : Owner[s] # c
        BY <2>4 DEF ClientGone, SurfacesOf, Listed, focusVars, flagVars, viewVars
    <3>2. Owner[focused_csfc] \notin leaving
        BY <3>1 DEF Clients, FocusListed, OneLeaving
    <3> QED
        BY <3>1, <3>2 DEF MotionWhereEntered
  <2>5. ASSUME NEW c \in Client, NEW d \in Device, SeatGet(c, d) \/ Release(c, d)
        PROVE  pointer_in'[Owner[focused_csfc']] = focused_csfc'
      BY <2>1, <2>5 DEF SeatGet, Release, focusVars, flagVars, viewVars
  <2>6. ASSUME NEW s \in Surface, GetShellSurface(s) PROVE FALSE
    <3>1. focused_csfc' = s /\ pointer_focused' = [pointer_focused EXCEPT ![s] = FALSE]
        BY <2>6 DEF GetShellSurface, Stack!Raise, Cleared
    <3> QED
        BY <3>1 DEF TypeOK
  <2>7. ASSUME NEW s \in Surface, DestroySurface(s)
        PROVE  pointer_in'[Owner[focused_csfc']] = focused_csfc'
    <3>1. /\ UNCHANGED <<leaving, pointer_in>> /\ focused_csfc' \in Surface
          /\ ~undefined
        BY <2>7, NewFocus DEF DestroySurface, clientVars, viewVars, Overtakes, TypeOK
    <3>2. pointer_focused[focused_csfc'] /\ focused_csfc # s
        BY <2>7, <3>1 DEF DestroySurface
    <3>3. focused_csfc' = focused_csfc
        BY <2>7, <3>2 DEF DestroySurface, Stack!Drop
    <3> QED
        BY <3>1, <3>2, <3>3 DEF MotionWhereEntered
  <2>8. ASSUME NEW s \in Surface, NEW place \in Places, SendMotion(s, place)
        PROVE  pointer_in'[Owner[focused_csfc']] = focused_csfc'
    <3>1. /\ s = focused_csfc /\ UNCHANGED <<focused_csfc, leaving, undefined>>
          /\ Owner[s] \in Client
          /\ pointer_focused' = [pointer_focused EXCEPT ![s] = FlagAfter(s, place)]
          /\ pointer_in' = [pointer_in EXCEPT ![Owner[s]] = IF Enters(s, place) THEN s
                                                            ELSE IF Leaves(s, place) THEN NULL ELSE @]
        BY <2>8, OwnerAssumption DEF SendMotion, Sends, focusVars, clientVars
    <3>2. FlagAfter(s, place)
        BY <3>1 DEF TypeOK
    <3>3. Enters(s, place) \/ (pointer_focused[s] /\ ~Leaves(s, place))
        BY <3>2 DEF FlagAfter
    <3>4. pointer_in'[Owner[s]] = IF Enters(s, place) THEN s
                                 ELSE IF Leaves(s, place) THEN NULL ELSE pointer_in[Owner[s]]
        BY <3>1 DEF TypeOK
    <3>5. CASE Enters(s, place)
        BY <3>1, <3>4, <3>5
    <3>6. CASE ~Enters(s, place)
      <4>1. pointer_in'[Owner[s]] = pointer_in[Owner[s]] /\ pointer_focused[s]
          BY <3>3, <3>4, <3>6
      <4> QED
          BY <3>1, <4>1 DEF MotionWhereEntered
    <3> QED
        BY <3>5, <3>6
  <2>9. ASSUME NEW e \in Event, StartCallback(e)
        PROVE  pointer_in'[Owner[focused_csfc']] = focused_csfc'
    <3>1. /\ UNCHANGED <<focused_csfc, leaving, pointer_focused, pointer_in>> /\ ~undefined
        BY <2>9 DEF StartCallback, focusVars, clientVars, flagVars, viewVars
    <3> QED
        BY <3>1 DEF MotionWhereEntered
  <2>10. ASSUME NEW s \in Surface, NEW active \in BOOLEAN, NEW e \in Touches,
                SendButton(s) \/ SendKey(s, active) \/ SendTouch(s, e)
         PROVE  pointer_in'[Owner[focused_csfc']] = focused_csfc'
      BY <2>1, <2>10 DEF SendButton, SendKey, SendTouch, Sends, focusVars, clientVars,
                         flagVars, viewVars
  <2>11. CASE SendWild
      BY <2>11 DEF SendWild
  <2>12. CASE UNCHANGED vars
      BY <2>1, <2>12 DEF vars, focusVars, clientVars, flagVars, viewVars
  <2>13. Touches # {} /\ Device # {} /\ TRUE \in BOOLEAN
      BY DEF Touches, Device
  <2>14. CASE MainThread
      BY <2>2, <2>3, <2>4, <2>5, <2>6, <2>7, <2>14 DEF MainThread
  <2>15. CASE InputThread
      BY <2>8, <2>9, <2>10, <2>11, <2>13, <2>15 DEF InputThread, Places, Touches
  <2> QED
      BY <2>12, <2>14, <2>15 DEF Next
<1> QED
    BY <1>1, <1>2, TypeCorrect, ClientsKept, PTL DEF Spec

--------------------------------------------------------------------------------
(* A surface marked keyboard_focused has been entered by the keyboard of   *)
(* its client: a new surface is unmarked, and a client forgets what its    *)
(* keyboard entered only when its surfaces are being destroyed.            *)
THEOREM KeysAfterEnter == Spec => []KeyAfterEnter
<1>1. Init => KeyAfterEnter
    BY DEF Init, Stack!Init, Stack!Elems, KeyAfterEnter
<1>2. TypeOK /\ Clients /\ KeyAfterEnter /\ [Next]_vars => KeyAfterEnter'
  <2> SUFFICES ASSUME TypeOK, Clients, KeyAfterEnter, [Next]_vars, ~undefined', NEW t \in Listed',
                      Owner[t] \in Orderly \ leaving', keyboard_focused'[t]
               PROVE  t \in keyboard_in'[Owner[t]]
      BY DEF KeyAfterEnter, Listed
  <2> DEFINE Before == t \in Listed /\ Owner[t] \notin leaving /\ keyboard_focused[t] /\ ~undefined
  <2>1. Before => t \in keyboard_in[Owner[t]]
      BY DEF KeyAfterEnter, Listed
  <2>2. t \in Surface
      BY NewFocus, ElemsIn, TypeCorrectStep DEF Listed, TypeOK
  <2>3. CASE UNCHANGED <<Listed, leaving, undefined, keyboard_focused, keyboard_in>>
      BY <2>1, <2>3
  <2>4. ASSUME NEW c \in Client, HangUp(c) PROVE t \in keyboard_in'[Owner[t]]
    <3>1. /\ Listed' = Listed /\ UNCHANGED keyboard_focused /\ ~undefined
          /\ leaving = {} /\ leaving' = {c} /\ keyboard_in' = [keyboard_in EXCEPT ![c] = {}]
        BY <2>4 DEF HangUp, MayRequest, focusVars, flagVars, Listed
    <3>2. Owner[t] \in Client /\ Owner[t] # c
        BY <2>2, <3>1, OwnerAssumption
    <3> QED
        BY <2>1, <3>1, <3>2 DEF TypeOK
  <2>5. ASSUME NEW c \in Client, ClientGone(c) PROVE t \in keyboard_in'[Owner[t]]
    <3>1. /\ UNCHANGED <<keyboard_focused, undefined, keyboard_in>> /\ Listed' = Listed
          /\ c \in leaving /\ \A s \in Listed : Owner[s] # c
        BY <2>5 DEF ClientGone, SurfacesOf, Listed, focusVars, flagVars, viewVars
    <3>2. Owner[t] \notin leaving
        BY <3>1 DEF Clients, OneLeaving
    <3> QED
        BY <2>1, <3>1, <3>2
  <2>6. ASSUME NEW s \in Surface, GetShellSurface(s) PROVE t \in keyboard_in'[Owner[t]]
    <3>1. /\ Listed' = Listed \union {s} /\ UNCHANGED <<leaving, keyboard_in>> /\ ~undefined
          /\ keyboard_focused' = [keyboard_focused EXCEPT ![s] = FALSE]
        BY <2>6, ListSteps DEF GetShellSurface, clientVars, viewVars, Clients, Cleared,
                               Overtakes, TypeOK
    <3>2. t # s
        BY <3>1 DEF TypeOK
    <3> QED
        BY <2>1, <2>2, <3>1, <3>2 DEF TypeOK
  <2>7. ASSUME NEW s \in Surface, DestroySurface(s) PROVE t \in keyboard_in'[Owner[t]]
    <3>1. /\ Listed' \subseteq Listed /\ UNCHANGED <<leaving, keyboard_in, keyboard_focused>>
          /\ ~undefined
        BY <2>7, ListSteps DEF DestroySurface, clientVars, viewVars, Clients, Overtakes, TypeOK
    <3> QED
        BY <2>1, <3>1
  <2>8. ASSUME NEW s \in Surface, NEW active \in BOOLEAN, SendKey(s, active)
        PROVE  t \in keyboard_in'[Owner[t]]
    <3>1. /\ Listed' = Listed /\ UNCHANGED <<leaving, undefined>> /\ Owner[s] \in Client
          /\ keyboard_focused' = [keyboard_focused EXCEPT ![s] = TRUE]
          /\ keyboard_in' = IF keyboard_focused[s] THEN keyboard_in
                            ELSE [keyboard_in EXCEPT ![Owner[s]] = @ \union {s}]
        BY <2>8, OwnerAssumption DEF SendKey, Sends, focusVars, clientVars, Listed
    <3>2. CASE t = s /\ ~keyboard_focused[s]
        BY <3>1, <3>2 DEF TypeOK
    <3>3. CASE keyboard_focused[t]
      <4>1. t \in keyboard_in[Owner[t]] /\ Owner[t] \in Client
          BY <2>1, <2>2, <3>1, <3>3, OwnerAssumption
      <4> QED
          BY <3>1, <4>1 DEF TypeOK
    <3> QED
        BY <2>2, <3>1, <3>2, <3>3 DEF TypeOK
  <2>9. ASSUME NEW c \in Client, NEW d \in Device,
               CompositorBind(c) \/ SeatGet(c, d) \/ Release(c, d)
        PROVE  t \in keyboard_in'[Owner[t]]
      BY <2>3, <2>9 DEF CompositorBind, SeatGet, Release, focusVars, flagVars, viewVars, Listed
  <2>10. ASSUME NEW e \in Event, StartCallback(e) PROVE t \in keyboard_in'[Owner[t]]
    <3>1. /\ Listed' = Listed /\ UNCHANGED <<leaving, keyboard_focused, keyboard_in>>
          /\ ~undefined
        BY <2>10 DEF StartCallback, focusVars, clientVars, flagVars, viewVars, Listed
    <3> QED
        BY <2>1, <3>1
  <2>11. ASSUME NEW s \in Surface, NEW place \in Places, NEW e \in Touches,
                SendMotion(s, place) \/ SendButton(s) \/ SendTouch(s, e)
         PROVE  t \in keyboard_in'[Owner[t]]
      BY <2>3, <2>11 DEF SendMotion, SendButton, SendTouch, Sends, focusVars, clientVars,
                         flagVars, viewVars, Listed
  <2>12. CASE SendWild
      BY <2>12 DEF SendWild
  <2>13. CASE UNCHANGED vars
      BY <2>3, <2>13 DEF vars, focusVars, clientVars, flagVars, viewVars, Listed
  <2>14. Touches # {} /\ Device # {} /\ Places # {}
      BY DEF Touches, Device, Places
  <2>15. CASE MainThread
      BY <2>4, <2>5, <2>6, <2>7, <2>9, <2>14, <2>15 DEF MainThread
  <2>16. CASE InputThread
      BY <2>8, <2>10, <2>11, <2>12, <2>14, <2>16 DEF InputThread, Places, Touches
  <2> QED
      BY <2>13, <2>15, <2>16 DEF Next
<1> QED
    BY <1>1, <1>2, TypeCorrect, ClientsKept, PTL DEF Spec

--------------------------------------------------------------------------------
(* The client that was last told modifiers knows the current ones: they    *)
(* are sent whenever they differ from what was sent last, which is what    *)
(* the keyboard's state was then.                                          *)
THEOREM ModifiersAreTold == Spec => []ModifiersTold
<1> DEFINE Inv == ModifiersCurrent /\ (told # NULL => known[told] = xkb_state)
<1>1. Init => Inv
    BY DEF Init, ModifiersCurrent
<1>2. TypeOK /\ Inv /\ [Next]_vars => Inv'
  <2> SUFFICES ASSUME TypeOK, Inv, [Next]_vars PROVE Inv'
      OBVIOUS
  <2>1. CASE UNCHANGED keyVars
      BY <2>1 DEF keyVars, ModifiersCurrent
  <2>2. ASSUME NEW c \in Client, HangUp(c) PROVE Inv'
    <3>1. /\ UNCHANGED <<xkb_state, modifiers>> /\ known' = [known EXCEPT ![c] = FALSE]
          /\ told' = IF told = c THEN NULL ELSE told
        BY <2>2 DEF HangUp
    <3> QED
        BY <3>1, NullAssumption DEF ModifiersCurrent, TypeOK
  <2>3. ASSUME NEW s \in Surface, NEW active \in BOOLEAN, SendKey(s, active) PROVE Inv'
    <3>1. /\ xkb_state' = active /\ modifiers' = active /\ Owner[s] \in Client
          /\ known' = IF active # modifiers THEN [known EXCEPT ![Owner[s]] = active] ELSE known
          /\ told' = IF active # modifiers THEN Owner[s] ELSE told
        BY <2>3, OwnerAssumption DEF SendKey, Changed
    <3>2. CASE active # modifiers
        BY <3>1, <3>2 DEF ModifiersCurrent, TypeOK
    <3>3. CASE active = modifiers
        BY <3>1, <3>3 DEF ModifiersCurrent
    <3> QED
        BY <3>2, <3>3
  <2>4. CASE MainThread
    <3>1. (\E c \in Client : HangUp(c)) \/ UNCHANGED keyVars
        BY <2>4 DEF MainThread, CompositorBind, ClientGone, SeatGet, Release,
                    GetShellSurface, DestroySurface
    <3> QED
        BY <2>1, <2>2, <3>1
  <2>5. CASE InputThread
    <3>1. (\E s \in Surface, active \in BOOLEAN : SendKey(s, active)) \/ UNCHANGED keyVars
        BY <2>5 DEF InputThread, StartCallback, SendMotion, SendButton, SendTouch, SendWild
    <3> QED
        BY <2>1, <2>3, <3>1
  <2>6. CASE UNCHANGED vars
      BY <2>1, <2>6 DEF vars
  <2> QED
      BY <2>4, <2>5, <2>6 DEF Next
<1>3. Inv => ModifiersTold
    BY DEF ModifiersTold
<1> QED
    BY <1>1, <1>2, <1>3, TypeCorrect, PTL DEF Spec

================================================================================
