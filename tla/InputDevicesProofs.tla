--------------------------- MODULE InputDevicesProofs --------------------------
(***************************************************************************)
(* Proofs about InputDevices, for any devices, keys, slots and             *)
(* configurations.                                                         *)
(***************************************************************************)
EXTENDS InputDevices, FiniteSetTheorems, SequenceTheorems, WellFoundedInduction, TLAPS

LEMMA SixFunctions == Len(Functions) = 6
BY DEF Functions

LEMMA IsSetAt ==
  ASSUME TypeOK
  PROVE  /\ IsSet("key") <=> set >= 3
         /\ IsSet("touch_down") <=> set >= 4
         /\ IsSet("touch_up") <=> set >= 5
BY DEF TypeOK, IsSet, Functions

LEMMA ClampedType ==
  ASSUME NEW x \in Int, NEW size \in Nat, TypeOK
  PROVE  /\ Clamped(x, size) \in Nat \union {-1}
         /\ s_modeset_dev => OnAxis(Clamped(x, size), size)
BY DEF Clamped, ClampedBelow, OnAxis, TypeOK

--------------------------------------------------------------------------------
(* Every variable keeps its type; the cursor has no coordinate below -1.   *)
THEOREM TypeCorrect == Spec => []TypeOK
<1>1. Init => TypeOK
  <2>1. <<0, 0>> \in (Nat \union {-1}) \X (Nat \union {-1}) /\ 0 \in 0..Len(Functions)
    BY SixFunctions
  <2> QED BY <2>1 DEF Init, TypeOK, Told
<1>2. TypeOK /\ [Next]_vars => TypeOK'
  <2> SUFFICES ASSUME TypeOK, [Next]_vars PROVE TypeOK'
    OBVIOUS
  <2> USE DEF TypeOK
  <2>1. CASE StartLoop
    BY <2>1 DEF StartLoop, startVars, keyVars, touchVars
  <2>2. CASE SetModesetDev
    BY <2>2 DEF SetModesetDev, deviceVars, keyVars, touchVars
  <2>3. CASE SetFunction
    BY <2>3 DEF SetFunction, deviceVars, keyVars, touchVars, Functions
  <2>4. ASSUME NEW d \in Device, NEW k \in Key, KeyDown(d, k) PROVE TypeOK'
    BY <2>4 DEF KeyDown, OnKeyboardKey, deviceVars, startVars, touchVars, Told
  <2>5. ASSUME NEW d \in Device, NEW k \in Key, KeyUp(d, k) PROVE TypeOK'
    BY <2>5 DEF KeyUp, OnKeyboardKey, deviceVars, startVars, touchVars, Told
  <2>6. ASSUME NEW dx \in Delta, NEW dy \in Delta, PointerMotion(dx, dy) PROVE TypeOK'
    <3>1. s_cursor_pos[1] + dx \in Int /\ s_cursor_pos[2] + dy \in Int
      BY DeltaAssumption
    <3>2. s_cursor_pos' \in (Nat \union {-1}) \X (Nat \union {-1})
      BY <2>6, <3>1, ClampedType, SizeAssumption DEF PointerMotion
    <3> QED BY <2>6, <3>2 DEF PointerMotion, deviceVars, startVars, keyVars, touchVars
  <2>7. ASSUME NEW pos \in Absolute, PointerMotionAbsolute(pos) PROVE TypeOK'
    BY <2>7, AbsoluteAssumption
    DEF PointerMotionAbsolute, deviceVars, startVars, keyVars, touchVars
  <2>8. ASSUME NEW t \in Device, NEW i \in Slot, TouchDown(t, i) PROVE TypeOK'
    BY <2>8 DEF TouchDown, deviceVars, startVars, keyVars, Told
  <2>9. ASSUME NEW t \in Device, NEW i \in Slot, TouchUp(t, i) PROVE TypeOK'
    BY <2>9 DEF TouchUp, UpTold, deviceVars, startVars, keyVars, Told
  <2>10. ASSUME NEW t \in Device, NEW i \in Slot, TouchCancel(t, i) PROVE TypeOK'
    BY <2>10 DEF TouchCancel, deviceVars, startVars, keyVars
  <2>11. CASE UNCHANGED vars
    BY <2>11 DEF vars, deviceVars, startVars, keyVars, touchVars
  <2> QED
    BY <2>1, <2>2, <2>3, <2>4, <2>5, <2>6, <2>7, <2>8, <2>9, <2>10, <2>11 DEF Next
<1> QED BY <1>1, <1>2, PTL DEF Spec

--------------------------------------------------------------------------------
(* Keys are told of only once the key function is set, so a key told to be *)
(* up is held nowhere, and the first press of it is told.                  *)
Untold == ~IsSet("key") => \A k \in Key : key_told[k] = "nothing"

LEMMA SeatCountEmpty ==
  ASSUME NEW k \in Key, NEW pairs
  PROVE  /\ SeatCount(k, pairs) = 0 <=> ~\E d \in Device : <<d, k>> \in pairs
         /\ SeatCount(k, pairs) \in Nat
<1> DEFINE holders == {d \in Device : <<d, k>> \in pairs}
<1>1. IsFiniteSet(holders)
  BY DeviceAssumption, FS_Subset
<1>2. Cardinality(holders) \in Nat /\ (Cardinality(holders) = 0 <=> holders = {})
  BY <1>1, FS_CardinalityType, FS_EmptySet
<1> QED BY <1>2 DEF SeatCount

LEMMA FirstHolder ==
  ASSUME NEW d \in Device, NEW k \in Key, NEW pairs,
         ~\E e \in Device : <<e, k>> \in pairs
  PROVE  SeatCount(k, pairs \union {<<d, k>>}) = 1
<1>1. {e \in Device : <<e, k>> \in pairs \union {<<d, k>>}} = {d}
  OBVIOUS
<1> QED BY <1>1, FS_Singleton DEF SeatCount

(* However many keyboards press and release a key, the compositor's idea   *)
(* of it agrees with theirs.                                               *)
THEOREM KeysAlwaysAgree == Spec => []KeysAgree
<1> DEFINE Inv == Untold /\ KeysAgree
<1>1. Init => Inv
  BY DEF Init, Untold, KeysAgree
<1>2. TypeOK /\ Inv /\ [Next]_vars => Inv'
  <2> SUFFICES ASSUME TypeOK, Inv, [Next]_vars PROVE Inv'
    OBVIOUS
  <2>1. ASSUME UNCHANGED <<keyVars, set>> PROVE Inv'
    BY <2>1 DEF keyVars, Untold, KeysAgree, IsSet
  <2>2. CASE SetFunction
    <3>1. UNCHANGED keyVars /\ (IsSet("key") => IsSet("key")')
      BY <2>2 DEF SetFunction, IsSet, TypeOK, Functions
    <3> QED BY <3>1 DEF keyVars, Untold, KeysAgree
  <2>3. ASSUME NEW d \in Device, NEW k \in Key, KeyDown(d, k) PROVE Inv'
    <3>1. /\ held' = held \union {<<d, k>>} /\ set' = set
          /\ key_told' = IF IsSet("key") /\ SeatWide("down", SeatCount(k, held'))
                         THEN [key_told EXCEPT ![k] = "down"] ELSE key_told
      BY <2>3 DEF KeyDown, OnKeyboardKey, startVars
    <3>2. Untold'
      BY <3>1 DEF Untold, IsSet
    <3>3. ASSUME NEW j \in Key, key_told'[j] # "nothing"
          PROVE  key_told'[j] = "down" <=> \E e \in Device : <<e, j>> \in held'
      <4>1. CASE j # k
        BY <3>1, <3>3, <4>1 DEF KeysAgree, TypeOK
      <4>2. CASE j = k /\ key_told'[k] = "down"
        BY <3>1, <4>2
      <4>3. CASE j = k /\ key_told'[k] # "down"
        <5>1. key_told[k] = "up" /\ IsSet("key")
          BY <3>1, <3>3, <4>3 DEF Untold, TypeOK, Told
        <5>2. SeatCount(k, held') = 1
          BY <3>1, <5>1, FirstHolder DEF KeysAgree
        <5> QED BY <3>1, <4>3, <5>1, <5>2 DEF SeatWide, TypeOK
      <4> QED BY <4>1, <4>2, <4>3
    <3> QED BY <3>2, <3>3 DEF KeysAgree
  <2>4. ASSUME NEW d \in Device, NEW k \in Key, KeyUp(d, k) PROVE Inv'
    <3>1. /\ <<d, k>> \in held /\ held' = held \ {<<d, k>>} /\ set' = set
          /\ key_told' = IF IsSet("key") /\ SeatWide("up", SeatCount(k, held'))
                         THEN [key_told EXCEPT ![k] = "up"] ELSE key_told
      BY <2>4 DEF KeyUp, OnKeyboardKey, startVars
    <3>2. Untold'
      BY <3>1 DEF Untold, IsSet
    <3>3. ASSUME NEW j \in Key, key_told'[j] # "nothing"
          PROVE  key_told'[j] = "down" <=> \E e \in Device : <<e, j>> \in held'
      <4>1. CASE j # k
        BY <3>1, <3>3, <4>1 DEF KeysAgree, TypeOK
      <4>2. CASE j = k /\ SeatCount(k, held') = 0
        <5>1. key_told'[k] = "up"
          BY <3>1, <3>3, <4>2 DEF SeatWide, TypeOK, Untold
        <5> QED BY <4>2, <5>1, SeatCountEmpty
      <4>3. CASE j = k /\ SeatCount(k, held') # 0
        <5>1. key_told'[k] = key_told[k]
          BY <3>1, <4>3 DEF SeatWide
        <5> QED BY <3>1, <3>3, <4>3, <5>1, SeatCountEmpty DEF KeysAgree
      <4> QED BY <4>1, <4>2, <4>3
    <3> QED BY <3>2, <3>3 DEF KeysAgree
  <2> QED
    BY <2>1, <2>2, <2>3, <2>4
    DEF Next, StartLoop, SetModesetDev, PointerMotion, PointerMotionAbsolute, TouchDown,
        TouchUp, TouchCancel, startVars, vars
<1> QED BY <1>1, <1>2, TypeCorrect, PTL DEF Spec

--------------------------------------------------------------------------------
(* Fingers that share a slot, or that came before every function was set,  *)
(* leave the slot astray.                                                  *)
AstrayOK ==
  /\ set > 0 => s_modeset_dev
  /\ \A i \in Slot : \A t, u \in Device :
       <<t, i>> \in fingers /\ <<u, i>> \in fingers /\ i \notin astray => t = u /\ set = 6

(* With every function set and one touchscreen to a slot, contacts are     *)
(* told as they are; a slot that went astray recovers.                     *)
THEOREM TouchesAlwaysAgree == Spec => []TouchesAgree
<1> DEFINE Inv == AstrayOK /\ TouchesAgree
<1>1. Init => Inv
  BY DEF Init, AstrayOK, TouchesAgree
<1>2. TypeOK /\ Inv /\ [Next]_vars => Inv'
  <2> SUFFICES ASSUME TypeOK, Inv, [Next]_vars PROVE Inv'
    OBVIOUS
  <2> USE DEF AstrayOK, TouchesAgree
  <2>1. ASSUME UNCHANGED <<touchVars, startVars>> PROVE Inv'
    BY <2>1 DEF touchVars, startVars
  <2>2. CASE SetModesetDev
    BY <2>2 DEF SetModesetDev, touchVars
  <2>3. CASE SetFunction
    <3>1. /\ set < 6 /\ s_modeset_dev /\ s_modeset_dev' = s_modeset_dev
          /\ UNCHANGED touchVars
      BY <2>3, SixFunctions DEF SetFunction
    <3> QED BY <3>1 DEF touchVars
  <2>4. ASSUME NEW t \in Device, NEW i \in Slot, TouchDown(t, i) PROVE Inv'
    <3>1. /\ fingers' = fingers \union {<<t, i>>} /\ UNCHANGED startVars
          /\ touch_told' = IF s_modeset_dev /\ IsSet("touch_down")
                           THEN [touch_told EXCEPT ![i] = "down"] ELSE touch_told
          /\ astray' = IF set < 6 \/ InSlot(i, fingers) # {}
                       THEN astray \union {i} ELSE astray
      BY <2>4, SixFunctions DEF TouchDown
    <3>2. AstrayOK'
      <4>1. s_modeset_dev' = s_modeset_dev /\ set' = set /\ set \in 0..6
        BY <3>1, SixFunctions DEF startVars, TypeOK
      <4>2. ASSUME NEW j \in Slot, NEW u \in Device, NEW v \in Device, j \notin astray',
                   <<u, j>> \in fingers', <<v, j>> \in fingers'
            PROVE  u = v /\ set = 6
        <5>1. CASE j # i
          BY <3>1, <4>2, <5>1
        <5>2. CASE j = i
          <6>1. set = 6 /\ \A w \in Device : <<w, i>> \notin fingers
            BY <3>1, <4>1, <4>2, <5>2 DEF InSlot
          <6> QED BY <3>1, <4>2, <5>2, <6>1
        <5> QED BY <5>1, <5>2
      <4> QED BY <4>1, <4>2
    <3>3. TouchesAgree'
      <4>1. i \notin astray' => s_modeset_dev /\ IsSet("touch_down")
        BY <3>1, IsSetAt, SixFunctions DEF TypeOK
      <4> QED BY <3>1, <4>1 DEF TypeOK
    <3> QED BY <3>2, <3>3
  <2>5. ASSUME NEW t \in Device, NEW i \in Slot, TouchUp(t, i) PROVE Inv'
    <3>1. /\ <<t, i>> \in fingers /\ fingers' = fingers \ {<<t, i>>} /\ UNCHANGED startVars
          /\ touch_told' = IF IsSet("touch_up")
                           THEN [touch_told EXCEPT ![i] = "up"] ELSE touch_told
          /\ astray' = IF IsSet("touch_up") /\ InSlot(i, fingers') = {}
                       THEN astray \ {i} ELSE astray
      BY <2>5 DEF TouchUp, UpTold
    <3>2. AstrayOK'
      BY <3>1 DEF InSlot, startVars
    <3>3. TouchesAgree'
      <4>1. i \in astray \/ IsSet("touch_up")
        BY <3>1, IsSetAt
      <4>2. CASE IsSet("touch_up")
        BY <3>1, <4>2 DEF InSlot, TypeOK
      <4>3. CASE ~IsSet("touch_up")
        BY <3>1, <4>1, <4>3 DEF TypeOK
      <4> QED BY <4>2, <4>3
    <3> QED BY <3>2, <3>3
  <2>6. ASSUME NEW t \in Device, NEW i \in Slot, TouchCancel(t, i) PROVE Inv'
    BY <2>6 DEF TouchCancel, startVars
  <2> QED
    BY <2>1, <2>2, <2>3, <2>4, <2>5, <2>6
    DEF Next, StartLoop, KeyDown, KeyUp, PointerMotion, PointerMotionAbsolute, vars
<1> QED BY <1>1, <1>2, TypeCorrect, PTL DEF Spec

--------------------------------------------------------------------------------
(* Relative motions lead to points of a screen of any size, and to -1      *)
(* along an axis whose size is 0.                                          *)
THEOREM CursorOnScreen == Spec => StaysOnScreen
<1> DEFINE Step == s_modeset_dev /\ s_cursor_pos' # s_cursor_pos =>
                     OnScreen(s_cursor_pos') \/ s_cursor_pos' \in Absolute
<1>1. TypeOK /\ [Next]_vars => [Step]_vars
  <2> SUFFICES ASSUME TypeOK, [Next]_vars, s_modeset_dev, s_cursor_pos' # s_cursor_pos
               PROVE  OnScreen(s_cursor_pos') \/ s_cursor_pos' \in Absolute
    OBVIOUS
  <2>1. ASSUME NEW dx \in Delta, NEW dy \in Delta, PointerMotion(dx, dy)
        PROVE  OnScreen(s_cursor_pos')
    <3>1. s_cursor_pos[1] + dx \in Int /\ s_cursor_pos[2] + dy \in Int
      BY DeltaAssumption DEF TypeOK
    <3> QED BY <2>1, <3>1, ClampedType, SizeAssumption DEF PointerMotion, OnScreen
  <2>2. ASSUME NEW pos \in Absolute, PointerMotionAbsolute(pos) PROVE s_cursor_pos' \in Absolute
    BY <2>2 DEF PointerMotionAbsolute
  <2> QED
    BY <2>1, <2>2
    DEF Next, StartLoop, SetModesetDev, SetFunction, KeyDown, KeyUp, TouchDown, TouchUp,
        TouchCancel, vars
<1> QED BY <1>1, TypeCorrect, PTL DEF Spec, StaysOnScreen

--------------------------------------------------------------------------------
(* The list of devices.  A set of numbers has a least one.                 *)
LEMMA Least ==
  ASSUME NEW T \in SUBSET Nat, T # {}
  PROVE  \E x \in T : \A y \in T : x <= y
<1>1. IsWellFoundedOn(OpToRel(<, Nat), Nat)
    BY NatLessThanWellFounded
<1>2. PICK x \in T : \A y \in T : ~ (<<y, x>> \in OpToRel(<, Nat))
    BY <1>1, WFMin
<1>3. \A y \in T : ~(y < x)
    BY <1>2 DEF OpToRel
<1> QED
    BY <1>3

(* And a greatest one, if they are bounded.                                *)
LEMMA Greatest ==
  ASSUME NEW n \in Nat, NEW T \in SUBSET (1..n), T # {}
  PROVE  Max(T) \in T
<1> DEFINE Rest == {m \in Nat : n - m \in T}
<1>1. \A x \in T : x \in Nat /\ n - x \in Nat /\ n - (n - x) = x
    OBVIOUS
<1>2. \A x \in T : n - x \in Rest
    BY <1>1
<1>3. Rest \in SUBSET Nat /\ Rest # {}
    BY <1>2
<1>4. PICK y \in Rest : \A z \in Rest : y <= z
  <2> HIDE DEF Rest
  <2> QED
      BY <1>3, Least
<1>5. n - y \in T /\ y \in Nat
    OBVIOUS
<1>6. \A z \in T : n - y >= z
  <2> TAKE z \in T
  <2>1. y <= n - z /\ z \in Nat
      BY <1>1, <1>2, <1>4
  <2> QED
      BY <1>5, <2>1
<1>7. (CHOOSE x \in T : \A z \in T : x >= z) \in T
    BY <1>5, <1>6
<1> QED
    BY <1>7 DEF Max

(* AddAll takes its strings one by one.                                    *)
Longer(list, q, n) == IF n = 0 THEN <<>> ELSE add_string_to_list(list[n - 1], q[n])
Lists(list, q, m) == list = [n \in 0..m |-> Longer(list, q, n)]

(* There is such a list of lists, for as many strings as one likes.        *)
LEMMA ListsExist ==
  ASSUME NEW q, NEW k \in Nat
  PROVE  \E list : Lists(list, q, k)
<1> DEFINE T == {m \in Nat : ~ \E list : Lists(list, q, m)}
<1>1. SUFFICES ASSUME T # {} PROVE FALSE
    OBVIOUS
<1>2. PICK m \in T : \A y \in T : m <= y
  <2>1. T \in SUBSET Nat
      OBVIOUS
  <2> HIDE DEF T
  <2> QED
      BY <1>1, <2>1, Least
<1>3. CASE m = 0
  <2> DEFINE list == [n \in 0..0 |-> <<>>]
  <2>1. list = [n \in 0..0 |-> Longer(list, q, n)]
      BY DEF Longer
  <2> HIDE DEF list
  <2>2. Lists(list, q, 0)
      BY <2>1 DEF Lists
  <2> QED
      BY <1>3, <2>2
<1>4. CASE m # 0
  <2>1. m - 1 \in Nat /\ m - 1 \notin T
    <3>1. m \in Nat /\ m - 1 \in Nat /\ ~(m <= m - 1)
        BY <1>4
    <3> HIDE DEF T
    <3> QED
        BY <1>2, <3>1
  <2>2. PICK f : Lists(f, q, m - 1)
      BY <2>1
  <2> DEFINE g == [n \in 0..m |-> IF n = m THEN Longer(f, q, m) ELSE f[n]]
  <2>3. \A n \in 0..(m - 1) : f[n] = Longer(f, q, n) /\ g[n] = f[n]
    <3>1. \A n \in 0..(m - 1) : f[n] = Longer(f, q, n)
        BY <2>2 DEF Lists
    <3>2. \A n \in 0..(m - 1) : n \in 0..m /\ n # m
        BY <2>1
    <3> QED
        BY <3>1, <3>2
  <2>4. \A n \in 0..m : n # 0 => n - 1 \in 0..(m - 1) /\ g[n - 1] = f[n - 1]
      BY <2>1, <2>3
  <2>5. \A n \in 0..m : Longer(g, q, n) = Longer(f, q, n)
      BY <2>4 DEF Longer
  <2>6. \A n \in 0..m : g[n] = Longer(g, q, n)
      BY <2>1, <2>3, <2>5
  <2>7. g = [n \in 0..m |-> g[n]]
      OBVIOUS
  <2> HIDE DEF g
  <2>8. Lists(g, q, m)
      BY <2>6, <2>7 DEF Lists
  <2> QED
      BY <2>8
<1> QED
    BY <1>3, <1>4

(* AddAll has the last of them.                                            *)
LEMMA AddAllLists ==
  ASSUME NEW q, Len(q) \in Nat
  PROVE  \E list : Lists(list, q, Len(q)) /\ AddAll(q) = list[Len(q)]
<1> DEFINE list[n \in 0..Len(q)] ==
             IF n = 0 THEN <<>> ELSE add_string_to_list(list[n - 1], q[n])
<1>1. PICK f : f = [n \in 0..Len(q) |-> Longer(f, q, n)]
    BY ListsExist DEF Lists
<1>2. list = [n \in 0..Len(q) |->
                IF n = 0 THEN <<>> ELSE add_string_to_list(list[n - 1], q[n])]
    BY <1>1 DEF Longer
<1>3. AddAll(q) = list[Len(q)]
    BY DEF AddAll
<1> QED
    BY <1>2, <1>3 DEF Lists, Longer

(* What add_string_to_list makes of the first n strings: each of them,     *)
(* once.                                                                   *)
Merged(r, q, n, S) ==
  /\ r \in Seq(S)
  /\ \A i, j \in 1..Len(r) : r[i] = r[j] => i = j
  /\ \A x : Contains(r, x) <=> x # NULL /\ \E i \in 1..n : q[i] = x

(* add_string_to_list merges one string more.                              *)
LEMMA OneMore ==
  ASSUME NEW S, NEW q \in Seq(S), NEW n \in 1..Len(q), NEW r, Merged(r, q, n - 1, S)
  PROVE  Merged(add_string_to_list(r, q[n]), q, n, S)
<1>1. /\ r \in Seq(S) /\ \A i, j \in 1..Len(r) : r[i] = r[j] => i = j
      /\ \A x : Contains(r, x) <=> x # NULL /\ \E i \in 1..(n - 1) : q[i] = x
    BY DEF Merged
<1>2. q[n] \in S /\ Len(q) \in Nat /\ n \in Nat /\ Len(r) \in Nat
    BY <1>1, ElementOfSeq, LenProperties
<1>3. \A x : (\E i \in 1..n : q[i] = x) <=> q[n] = x \/ \E i \in 1..(n - 1) : q[i] = x
  <2>1. 1..n = (1..(n - 1)) \union {n}
      BY <1>2
  <2> QED
      BY <2>1
<1>4. CASE q[n] = NULL \/ Contains(r, q[n])
    BY <1>1, <1>3, <1>4 DEF add_string_to_list, Merged
<1>5. CASE q[n] # NULL /\ ~Contains(r, q[n])
  <2> DEFINE a == Append(r, q[n])
  <2>1. /\ a \in Seq(S) /\ Len(a) = Len(r) + 1 /\ a[Len(r) + 1] = q[n]
        /\ \A i \in 1..Len(r) : a[i] = r[i]
      BY <1>1, <1>2, AppendProperties
  <2> HIDE DEF a
  <2>2. 1..Len(a) = (1..Len(r)) \union {Len(r) + 1}
      BY <1>2, <2>1
  <2>3. \A x : Contains(a, x) <=> Contains(r, x) \/ x = q[n]
      BY <2>1, <2>2 DEF Contains
  <2>4. \A i, j \in 1..Len(a) : a[i] = a[j] => i = j
    <3>1. \A i \in 1..Len(r) : r[i] # q[n]
        BY <1>5 DEF Contains
    <3> QED
        BY <1>1, <2>1, <2>2, <3>1
  <2>5. \A x : Contains(a, x) <=> x # NULL /\ \E i \in 1..n : q[i] = x
      BY <1>1, <1>3, <1>5, <2>3
  <2>6. Merged(a, q, n, S)
      BY <2>1, <2>4, <2>5 DEF Merged
  <2> QED
      BY <1>5, <2>6 DEF add_string_to_list, a
<1> QED
    BY <1>4, <1>5

(* AddAll merges all of its strings.                                       *)
LEMMA AddAllMerges ==
  ASSUME NEW S, NEW q \in Seq(S)
  PROVE  Merged(AddAll(q), q, Len(q), S)
<1>1. Len(q) \in Nat
    BY LenProperties
<1>2. PICK list : Lists(list, q, Len(q)) /\ AddAll(q) = list[Len(q)]
    BY <1>1, AddAllLists
<1> DEFINE T == {n \in 0..Len(q) : ~Merged(list[n], q, n, S)}
<1>3. SUFFICES ASSUME T # {} PROVE FALSE
  <2>1. Len(q) \in 0..Len(q)
      BY <1>1
  <2> QED
      BY <1>2, <1>3, <2>1
<1>4. T \in SUBSET Nat
    BY <1>1
<1>5. PICK n \in T : \A y \in T : n <= y
  <2> HIDE DEF T
  <2> QED
      BY <1>3, <1>4, Least
<1>6. n \in 0..Len(q) /\ list[n] = Longer(list, q, n)
    BY <1>2 DEF Lists
<1>7. CASE n = 0
  <2>1. list[n] = <<>> /\ Len(<<>>) = 0 /\ 1..0 = {}
      BY <1>6, <1>7 DEF Longer
  <2>2. Merged(<<>>, q, 0, S)
      BY <2>1, EmptySeq DEF Merged, Contains
  <2> QED
      BY <1>7, <2>1, <2>2
<1>8. CASE n # 0
  <2>1. n \in 1..Len(q) /\ n - 1 \in 0..Len(q) /\ ~(n <= n - 1)
      BY <1>1, <1>6, <1>8
  <2>2. Merged(list[n - 1], q, n - 1, S)
      BY <1>5, <2>1
  <2>3. list[n] = add_string_to_list(list[n - 1], q[n])
      BY <1>6, <1>8 DEF Longer
  <2> QED
      BY <2>1, <2>2, <2>3, OneMore
<1> QED
    BY <1>7, <1>8

(* The devices of udev, each with a node of its own.                       *)
LEMMA UdevList ==
  ASSUME udev \in Udev
  PROVE  /\ Len(udev) \in Nat /\ DOMAIN udev = 1..Len(udev)
         /\ \A i \in DOMAIN udev : udev[i].usable => udev[i].node \in Device /\ udev[i].node # NULL
         /\ \A i, j \in DOMAIN udev :
              udev[i].usable /\ udev[j].usable /\ udev[i].node = udev[j].node => i = j
         /\ \A dev : dev \in Eligible <=> \E i \in DOMAIN udev : dev = udev[i] /\ dev.usable
<1>1. udev \in Seq(ToSet(udev))
    BY UdevAssumption
<1>2. Len(udev) \in Nat /\ DOMAIN udev = 1..Len(udev)
    BY <1>1, LenProperties
<1>3. /\ \A i \in DOMAIN udev : udev[i].usable => udev[i].node \in Device
      /\ \A i, j \in DOMAIN udev :
           udev[i].usable /\ udev[j].usable /\ udev[i].node = udev[j].node => i = j
    BY <1>2, UdevAssumption
<1> QED
    BY <1>2, <1>3, DeviceAssumption DEF Eligible, ToSet

(* The device specified is one found under the name, if there is one.      *)
LEMMA SpecifiedIs ==
  ASSUME udev \in Udev, NEW class, NEW path
  PROVE  /\ (\E i \in DOMAIN udev : Usable(i, class) /\ Named(path, udev[i])) =>
              Specified(class, path) # NULL
         /\ Specified(class, path) # NULL =>
              \E i \in DOMAIN udev : /\ Usable(i, class) /\ Named(path, udev[i])
                                     /\ Specified(class, path) = udev[i].node
<1> DEFINE found == {i \in DOMAIN udev : Usable(i, class) /\ Named(path, udev[i])}
<1>1. Specified(class, path) = IF found = {} THEN NULL ELSE udev[Max(found)].node
    BY DEF Specified
<1>2. CASE found = {}
    BY <1>1, <1>2
<1>3. CASE found # {}
  <2>1. Len(udev) \in Nat /\ found \in SUBSET (1..Len(udev))
      BY UdevList
  <2> HIDE DEF found
  <2>2. Max(found) \in found
      BY <1>3, <2>1, Greatest
  <2>3. Specified(class, path) = udev[Max(found)].node
      BY <1>1, <1>3
  <2>4. Max(found) \in DOMAIN udev /\ Usable(Max(found), class) /\ Named(path, udev[Max(found)])
      BY <2>2 DEF found
  <2>5. udev[Max(found)].node # NULL
      BY <2>4, UdevList DEF Usable
  <2> QED
      BY <2>3, <2>4, <2>5
<1> QED
    BY <1>2, <1>3

(* What is chosen for a class: devices of it, and one at least if there is *)
(* any.                                                                    *)
Has(q, x) == \E j \in 1..Len(q) : q[j] = x
ChosenFor(q, class) ==
  /\ q \in Seq(Device \union {NULL})
  /\ \A x : Has(q, x) /\ x # NULL => \E i \in DOMAIN udev : Usable(i, class) /\ x = udev[i].node
  /\ (\E i \in DOMAIN udev : Usable(i, class)) => \E x : Has(q, x) /\ x # NULL

(* Unnamed has the nodes of the devices of the class that have no such name.*)
LEMMA UnnamedHas ==
  ASSUME udev \in Udev, NEW class, NEW paths
  PROVE  /\ Unnamed(class, paths) \in Seq(Device \union {NULL})
         /\ \A x : x # NULL =>
              (Has(Unnamed(class, paths), x) <=>
                \E i \in DOMAIN udev : /\ Usable(i, class) /\ x = udev[i].node
                                       /\ \A path \in paths : ~Named(path, udev[i]))
<1> DEFINE q == Unnamed(class, paths)
           wanted(i) == Usable(i, class) /\ \A path \in paths : ~Named(path, udev[i])
<1>1. /\ Len(udev) \in Nat /\ DOMAIN udev = 1..Len(udev)
      /\ q = [i \in 1..Len(udev) |-> IF wanted(i) THEN udev[i].node ELSE NULL]
    BY UdevList DEF Unnamed
<1>2. \A i \in 1..Len(udev) : (IF wanted(i) THEN udev[i].node ELSE NULL) \in Device \union {NULL}
    BY UdevList DEF Usable
<1>3. q \in [1..Len(udev) -> Device \union {NULL}]
    BY <1>1, <1>2
<1>4. q \in Seq(Device \union {NULL}) /\ Len(q) = Len(udev)
  <2> HIDE DEF q
  <2>1. q \in Seq(Device \union {NULL})
      BY <1>1, <1>3, IsASeq
  <2>2. DOMAIN q = 1..Len(udev) /\ DOMAIN q = 1..Len(q) /\ Len(q) \in Nat
      BY <1>3, <2>1, LenProperties
  <2> QED
      BY <1>1, <2>1, <2>2
<1>5. \A i \in 1..Len(udev) : q[i] = IF wanted(i) THEN udev[i].node ELSE NULL
    BY <1>1
<1>6. \A i \in 1..Len(udev) : wanted(i) => udev[i].node # NULL
    BY UdevList DEF Usable
<1> HIDE DEF q
<1>7. \A x : x # NULL => (Has(q, x) <=> \E i \in DOMAIN udev : wanted(i) /\ x = udev[i].node)
    BY <1>1, <1>4, <1>5, <1>6 DEF Has
<1> QED
    BY <1>4, <1>7 DEF q

(* A device specified is a node.                                           *)
LEMMA SpecifiedType ==
  ASSUME udev \in Udev, NEW class, NEW path
  PROVE  Specified(class, path) \in Device \union {NULL}
BY SpecifiedIs, UdevList DEF Usable

(* The choice of keyboards, or of touchscreens.                            *)
LEMMA SpecifiedOrAllChosen ==
  ASSUME udev \in Udev, NEW class
  PROVE  ChosenFor(SpecifiedOrAll(class), class)
<1> DEFINE s == Specified(class, env[class])
<1>1. CASE s # NULL
  <2>1. PICK i \in DOMAIN udev : Usable(i, class) /\ s = udev[i].node
      BY <1>1, SpecifiedIs
  <2>2. SpecifiedOrAll(class) = <<s>>
      BY <1>1 DEF SpecifiedOrAll
  <2>3. s \in Device \union {NULL}
      BY SpecifiedType
  <2> HIDE DEF s
  <2>4. <<s>> \in Seq(Device \union {NULL}) /\ \A x : Has(<<s>>, x) <=> x = s
    <3>1. <<s>> \in Seq(Device \union {NULL})
        BY <2>3
    <3>2. \A x : Has(<<s>>, x) <=> x = s
        BY DEF Has
    <3> QED
        BY <3>1, <3>2
  <2> QED
      BY <1>1, <2>1, <2>2, <2>4 DEF ChosenFor
<1>2. CASE s = NULL
  <2> DEFINE q == Unnamed(class, {env[class]})
  <2>1. SpecifiedOrAll(class) = q
      BY <1>2 DEF SpecifiedOrAll
  <2>2. \A i \in DOMAIN udev : Usable(i, class) => ~Named(env[class], udev[i])
      BY <1>2, SpecifiedIs
  <2>3. /\ q \in Seq(Device \union {NULL})
        /\ \A x : x # NULL => (Has(q, x) <=> \E i \in DOMAIN udev : Usable(i, class) /\ x = udev[i].node)
      BY <2>2, UnnamedHas
  <2> HIDE DEF q
  <2>4. \A i \in DOMAIN udev : Usable(i, class) => udev[i].node # NULL
      BY UdevList DEF Usable
  <2>5. \A i \in DOMAIN udev : Usable(i, class) => Has(q, udev[i].node) /\ udev[i].node # NULL
      BY <2>3, <2>4
  <2> QED
      BY <2>1, <2>3, <2>5 DEF ChosenFor
<1> QED
    BY <1>1, <1>2

(* The choice of mice, by either of two variables.                         *)
LEMMA MiceChosen ==
  ASSUME udev \in Udev
  PROVE  ChosenFor(Mice, "mouse")
<1> DEFINE m == Specified("mouse", env["mouse"])
           a == Specified("mouse", env["mouse_abs"])
<1>1. /\ m # NULL => \E i \in DOMAIN udev : Usable(i, "mouse") /\ m = udev[i].node
      /\ a # NULL => \E i \in DOMAIN udev : Usable(i, "mouse") /\ a = udev[i].node
      /\ m \in Device \union {NULL} /\ a \in Device \union {NULL}
    BY SpecifiedIs, SpecifiedType
<1>2. SpecifiedMice = <<m, a>> /\ (SpecifiedMice = <<NULL, NULL>> <=> m = NULL /\ a = NULL)
    BY DEF SpecifiedMice
<1>3. CASE m # NULL \/ a # NULL
  <2> HIDE DEF m, a
  <2>1. Mice = <<m, a>>
    <3>1. SpecifiedMice # <<NULL, NULL>>
        BY <1>2, <1>3
    <3> QED
        BY <1>2, <3>1 DEF Mice
  <2>2. <<m, a>> \in Seq(Device \union {NULL}) /\ \A x : Has(<<m, a>>, x) <=> x = m \/ x = a
    <3>1. m \in Device \union {NULL} /\ a \in Device \union {NULL}
        BY <1>1
    <3>2. <<m, a>> \in Seq(Device \union {NULL})
        BY <3>1
    <3>3. \A x : Has(<<m, a>>, x) <=> x = m \/ x = a
        BY DEF Has
    <3> QED
        BY <3>2, <3>3
  <2> QED
      BY <1>1, <1>3, <2>1, <2>2 DEF ChosenFor
<1>4. CASE m = NULL /\ a = NULL
  <2> DEFINE q == Unnamed("mouse", {env["mouse"], env["mouse_abs"]})
  <2>1. Mice = q
      BY <1>2, <1>4 DEF Mice
  <2>2. \A i \in DOMAIN udev : Usable(i, "mouse") =>
            \A path \in {env["mouse"], env["mouse_abs"]} : ~Named(path, udev[i])
      BY <1>4, SpecifiedIs
  <2>3. /\ q \in Seq(Device \union {NULL})
        /\ \A x : x # NULL => (Has(q, x) <=> \E i \in DOMAIN udev : Usable(i, "mouse") /\ x = udev[i].node)
      BY <2>2, UnnamedHas
  <2> HIDE DEF q
  <2>4. \A i \in DOMAIN udev : Usable(i, "mouse") => udev[i].node # NULL
      BY UdevList DEF Usable
  <2>5. \A i \in DOMAIN udev : Usable(i, "mouse") => Has(q, udev[i].node) /\ udev[i].node # NULL
      BY <2>3, <2>4
  <2> QED
      BY <2>1, <2>3, <2>5 DEF ChosenFor
<1> QED
    BY <1>3, <1>4

(* Where the environment names a device of a class, only named ones are    *)
(* chosen for it.                                                          *)
LEMMA OnlyNamed ==
  ASSUME udev \in Udev, NEW class, NEW i \in DOMAIN udev, Usable(i, class), Named(env[class], udev[i]),
         NEW x, Has(SpecifiedOrAll(class), x)
  PROVE  \E j \in DOMAIN udev : Usable(j, class) /\ Named(env[class], udev[j]) /\ x = udev[j].node
<1> DEFINE s == Specified(class, env[class])
<1>1. s # NULL
    BY SpecifiedIs
<1>2. PICK j \in DOMAIN udev : Usable(j, class) /\ Named(env[class], udev[j]) /\ s = udev[j].node
    BY <1>1, SpecifiedIs
<1>3. SpecifiedOrAll(class) = <<s>>
    BY <1>1 DEF SpecifiedOrAll
<1> HIDE DEF s
<1>4. x = s
    BY <1>3 DEF Has
<1> QED
    BY <1>2, <1>4

(* What two lists have together.                                           *)
LEMMA JoinedHas ==
  ASSUME NEW S, NEW a \in Seq(S), NEW b \in Seq(S)
  PROVE  a \o b \in Seq(S) /\ \A x : Has(a \o b, x) <=> Has(a, x) \/ Has(b, x)
<1> DEFINE r == a \o b
           n == Len(a)
           m == Len(b)
<1>1. /\ r \in Seq(S) /\ Len(r) = n + m /\ n \in Nat /\ m \in Nat
      /\ \A i \in 1..(n + m) : r[i] = IF i <= n THEN a[i] ELSE b[i - n]
    BY ConcatProperties, LenProperties
<1>2. \A i \in 1..n : i \in 1..(n + m) /\ i <= n
    BY <1>1
<1>3. \A i \in 1..m : n + i \in 1..(n + m) /\ ~(n + i <= n) /\ (n + i) - n = i
    BY <1>1
<1>4. \A i \in 1..(n + m) : i \in 1..n \/ (~(i <= n) /\ i - n \in 1..m)
    BY <1>1
<1> HIDE DEF r, n, m
<1>5. \A i \in 1..n : r[i] = a[i]
    BY <1>1, <1>2
<1>6. \A i \in 1..m : r[n + i] = b[i]
    BY <1>1, <1>3
<1>7. \A x : Has(a, x) \/ Has(b, x) => Has(r, x)
    BY <1>1, <1>2, <1>3, <1>5, <1>6 DEF Has, n, m
<1>8. \A x : Has(r, x) => Has(a, x) \/ Has(b, x)
  <2> SUFFICES ASSUME NEW i \in 1..(n + m) PROVE Has(a, r[i]) \/ Has(b, r[i])
      BY <1>1 DEF Has
  <2>1. CASE i \in 1..n
      BY <2>1, <1>5 DEF Has, n
  <2>2. CASE ~(i <= n) /\ i - n \in 1..m
      BY <2>2, <1>1 DEF Has, m
  <2> QED
      BY <1>4, <2>1, <2>2
<1> QED
    BY <1>1, <1>7, <1>8 DEF r

(* The list of the input thread has the strings chosen, each once.         *)
LEMMA ListHas ==
  ASSUME udev \in Udev
  PROVE  LET list == AddAll(SpecifiedOrAll("keyboard") \o SpecifiedOrAll("touch") \o Mice)
         IN  /\ Len(list) \in Nat /\ \A i, j \in 1..Len(list) : list[i] = list[j] => i = j
             /\ \A x : Contains(list, x) <=>
                  x # NULL /\ \/ Has(SpecifiedOrAll("keyboard"), x)
                              \/ Has(SpecifiedOrAll("touch"), x)
                              \/ Has(Mice, x)
<1> DEFINE S == Device \union {NULL}
           k == SpecifiedOrAll("keyboard")
           t == SpecifiedOrAll("touch")
           q == (k \o t) \o Mice
           list == AddAll(q)
<1>1. k \in Seq(S) /\ t \in Seq(S) /\ Mice \in Seq(S)
    BY SpecifiedOrAllChosen, MiceChosen DEF ChosenFor
<1> HIDE DEF S, k, t
<1>2. k \o t \in Seq(S) /\ \A x : Has(k \o t, x) <=> Has(k, x) \/ Has(t, x)
    BY <1>1, JoinedHas
<1>3. q \in Seq(S) /\ \A x : Has(q, x) <=> Has(k \o t, x) \/ Has(Mice, x)
    BY <1>1, <1>2, JoinedHas
<1> HIDE DEF q
<1>4. Merged(list, q, Len(q), S)
    BY <1>3, AddAllMerges
<1> HIDE DEF list
<1>5. /\ Len(list) \in Nat /\ \A i, j \in 1..Len(list) : list[i] = list[j] => i = j
      /\ \A x : Contains(list, x) <=> x # NULL /\ Has(q, x)
    BY <1>4, LenProperties DEF Merged, Has
<1>6. \A x : Contains(list, x) <=> x # NULL /\ (Has(k, x) \/ Has(t, x) \/ Has(Mice, x))
    BY <1>2, <1>3, <1>5
<1> QED
    BY <1>5, <1>6 DEF list, q, k, t

(* A list of nodes of n different devices is not longer than n.            *)
LEMMA NoLonger ==
  ASSUME udev \in Udev, NEW list, Len(list) \in Nat,
         \A i, j \in 1..Len(list) : list[i] = list[j] => i = j,
         \A i \in 1..Len(list) : \E dev \in Eligible : list[i] = dev.node
  PROVE  IsFiniteSet(Eligible) /\ Len(list) <= Cardinality(Eligible)
<1>1. IsFiniteSet(Eligible)
  <2> DEFINE f == [i \in 1..Len(udev) |-> udev[i]]
  <2>1. f \in Surjection(1..Len(udev), ToSet(udev))
      BY UdevList DEF Surjection, ToSet
  <2>2. IsFiniteSet(1..Len(udev))
      BY UdevList, FS_Interval
  <2> HIDE DEF f
  <2>3. IsFiniteSet(ToSet(udev))
      BY <2>1, <2>2, FS_Surjection
  <2>4. Eligible \subseteq ToSet(udev)
      BY DEF Eligible
  <2> QED
      BY <2>3, <2>4, FS_Subset
<1> DEFINE g == [i \in 1..Len(list) |-> CHOOSE dev \in Eligible : list[i] = dev.node]
<1>2. \A i \in 1..Len(list) : g[i] \in Eligible /\ list[i] = g[i].node
    OBVIOUS
<1>3. g \in [1..Len(list) -> Eligible]
    BY <1>2
<1> HIDE DEF g
<1>4. \A i, j \in 1..Len(list) : g[i] = g[j] => i = j
    BY <1>2
<1>5. g \in Injection(1..Len(list), Eligible)
    BY <1>3, <1>4 DEF Injection, IsInjective
<1>6. Cardinality(1..Len(list)) <= Cardinality(Eligible)
    BY <1>1, <1>5, FS_Injection
<1>7. Cardinality(1..Len(list)) = Len(list)
  <2> DEFINE n == Len(list)
  <2>1. n \in Nat /\ 1 \in Int /\ n \in Int
      OBVIOUS
  <2> HIDE DEF n
  <2>2. Cardinality(1..n) = IF 1 > n THEN 0 ELSE n - 1 + 1
      BY <2>1, FS_Interval
  <2>3. Cardinality(1..n) = n
      BY <2>1, <2>2
  <2> QED
      BY <2>3 DEF n
<1> QED
    BY <1>1, <1>6, <1>7

(* The input thread chooses its devices.                                   *)
LEMMA StartChooses ==
  ASSUME TypeOK, StartLoop
  PROVE  DevicesChosen'
<1> DEFINE k == SpecifiedOrAll("keyboard")
           t == SpecifiedOrAll("touch")
<1>1. /\ udev \in Udev /\ UNCHANGED <<udev, env>>
      /\ input_devices' = AddAll(k \o t \o Mice)
    BY DEF TypeOK, StartLoop
<1>2. /\ Len(input_devices') \in Nat
      /\ \A i, j \in 1..Len(input_devices') : input_devices'[i] = input_devices'[j] => i = j
      /\ \A x : Contains(input_devices', x) <=> x # NULL /\ (Has(k, x) \/ Has(t, x) \/ Has(Mice, x))
    BY <1>1, ListHas
<1>3. ChosenFor(k, "keyboard") /\ ChosenFor(t, "touch") /\ ChosenFor(Mice, "mouse")
    BY <1>1, SpecifiedOrAllChosen, MiceChosen
<1> HIDE DEF k, t
<1>4. /\ \A dev : dev \in Eligible <=> \E i \in DOMAIN udev : dev = udev[i] /\ dev.usable
      /\ Eligible' = Eligible
    BY <1>1, UdevList DEF Eligible
<1>5. ASSUME NEW class \in Class, NEW dev \in Eligible, class \in dev.classes
      PROVE  \E other \in Eligible : class \in other.classes /\ Contains(input_devices', other.node)
  <2> DEFINE q == IF class = "keyboard" THEN k ELSE IF class = "touch" THEN t ELSE Mice
  <2>1. ChosenFor(q, class) /\ \A x : Has(q, x) => Has(k, x) \/ Has(t, x) \/ Has(Mice, x)
      BY <1>3 DEF Class
  <2> HIDE DEF q
  <2>2. \E i \in DOMAIN udev : Usable(i, class)
      BY <1>4, <1>5 DEF Usable
  <2>3. PICK x : Has(q, x) /\ x # NULL
      BY <2>1, <2>2 DEF ChosenFor
  <2>4. PICK i \in DOMAIN udev : Usable(i, class) /\ x = udev[i].node
      BY <2>1, <2>3 DEF ChosenFor
  <2>5. Contains(input_devices', udev[i].node)
      BY <1>2, <2>1, <2>3, <2>4
  <2> QED
      BY <1>4, <2>4, <2>5 DEF Usable
<1>6. ASSUME Cardinality(Eligible) <= MAX_DEVICES
      PROVE  Len(input_devices') <= MAX_DEVICES
  <2>1. ASSUME NEW i \in 1..Len(input_devices')
        PROVE  \E dev \in Eligible : input_devices'[i] = dev.node
    <3>1. Contains(input_devices', input_devices'[i])
        BY <2>1 DEF Contains
    <3>2. PICK j \in DOMAIN udev : udev[j].usable /\ input_devices'[i] = udev[j].node
        BY <1>2, <1>3, <3>1 DEF ChosenFor, Usable
    <3> QED
        BY <1>4, <3>2
  <2>2. Len(input_devices') <= Cardinality(Eligible) /\ IsFiniteSet(Eligible)
      BY <1>1, <1>2, <2>1, NoLonger
  <2> QED
      BY <1>2, <1>6, <2>2, FS_CardinalityType, MaxAssumption
<1>7. ASSUME NEW class \in {"keyboard", "touch"}, NEW dev \in Eligible, NEW other \in Eligible,
             class \in dev.classes, Named(env[class], dev),
             other.classes = {class}, Contains(input_devices', other.node)
      PROVE  Named(env[class], other)
  <2>1. PICK i \in DOMAIN udev : udev[i] = dev /\ Usable(i, class)
      BY <1>4, <1>7 DEF Usable
  <2>2. PICK j \in DOMAIN udev : udev[j] = other /\ other.usable
      BY <1>4
  <2>3. \A l \in DOMAIN udev : \A c : Usable(l, c) /\ udev[l].node = other.node => l = j /\ c = class
      BY <1>1, <1>7, <2>2, UdevList DEF Usable
  <2>4. other.node # NULL /\ (Has(k, other.node) \/ Has(t, other.node) \/ Has(Mice, other.node))
      BY <1>2, <1>7
  <2>5. /\ Has(k, other.node) => class = "keyboard"
        /\ Has(t, other.node) => class = "touch"
        /\ ~Has(Mice, other.node)
      BY <1>3, <1>7, <2>3, <2>4 DEF ChosenFor
  <2>6. Has(SpecifiedOrAll(class), other.node)
      BY <2>4, <2>5 DEF k, t
  <2>7. PICK l \in DOMAIN udev : /\ Usable(l, class) /\ Named(env[class], udev[l])
                                /\ other.node = udev[l].node
      BY <1>1, <1>7, <2>1, <2>6, OnlyNamed
  <2> QED
      BY <2>2, <2>3, <2>7
<1> QED
    BY <1>1, <1>4, <1>5, <1>6, <1>7 DEF DevicesChosen, Named

(* Whatever udev lists and the environment names, the devices are chosen   *)
(* as DevicesChosen says.                                                  *)
THEOREM DevicesAreChosen == Spec => []DevicesChosen
<1>1. Init => DevicesChosen
    BY DEF Init, DevicesChosen
<1>2. TypeOK /\ DevicesChosen /\ [Next]_vars => DevicesChosen'
  <2> SUFFICES ASSUME TypeOK, DevicesChosen, [Next]_vars PROVE DevicesChosen'
      OBVIOUS
  <2>1. CASE StartLoop
      BY <2>1, StartChooses
  <2>2. CASE UNCHANGED deviceVars
      BY <2>2 DEF deviceVars, DevicesChosen, Eligible, Named
  <2> QED
      BY <2>1, <2>2 DEF Next, SetModesetDev, SetFunction, KeyDown, KeyUp, PointerMotion,
                        PointerMotionAbsolute, TouchDown, TouchUp, TouchCancel, vars
<1> QED
    BY <1>1, <1>2, TypeCorrect, PTL DEF Spec
================================================================================
