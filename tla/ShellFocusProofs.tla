--------------------------- MODULE ShellFocusProofs ----------------------------
(***************************************************************************)
(* Theorems about ShellFocus, for any clients, surfaces and options.       *)
(***************************************************************************)
EXTENDS ShellFocus, SequenceTheorems, TLAPS

--------------------------------------------------------------------------------
(* What unlinking a surface does to a list without duplicates.             *)

Distinct(q) == \A i, j \in DOMAIN q : q[i] = q[j] => i = j

LEMMA AppendElems ==
  ASSUME NEW S, NEW q \in Seq(S), NEW s \in S
  PROVE  /\ Append(q, s) \in Seq(S)
         /\ Elems(Append(q, s)) = Elems(q) \union {s}
         /\ Top(Append(q, s)) = s
         /\ Distinct(q) /\ s \notin Elems(q) => Distinct(Append(q, s))
<1>1. /\ Append(q, s) \in Seq(S) /\ Len(Append(q, s)) = Len(q) + 1
      /\ DOMAIN Append(q, s) = 1..(Len(q) + 1) /\ DOMAIN q = 1..Len(q) /\ Len(q) \in Nat
      /\ \A i \in 1..Len(q) : Append(q, s)[i] = q[i]
      /\ Append(q, s)[Len(q) + 1] = s
    OBVIOUS
<1>2. Append(q, s) # <<>>
    BY <1>1
<1>3. Elems(Append(q, s)) = Elems(q) \union {s}
  <2> DEFINE r == Append(q, s)
  <2>1. \A i \in DOMAIN r : r[i] \in Elems(q) \union {s}
      BY <1>1 DEF Elems
  <2>2. \A i \in DOMAIN q : q[i] \in Elems(r)
    <3>1. \A i \in DOMAIN q : i \in DOMAIN r /\ r[i] = q[i]
        BY <1>1
    <3> HIDE DEF r
    <3> QED
        BY <3>1 DEF Elems
  <2>3. s \in Elems(r)
    <3>1. Len(q) + 1 \in DOMAIN r /\ r[Len(q) + 1] = s
        BY <1>1
    <3> HIDE DEF r
    <3> QED
        BY <3>1 DEF Elems
  <2> HIDE DEF r
  <2>4. Elems(r) = Elems(q) \union {s}
      BY <2>1, <2>2, <2>3 DEF Elems
  <2> QED
      BY <2>4 DEF r
<1>4. Distinct(q) /\ s \notin Elems(q) => Distinct(Append(q, s))
    BY <1>1 DEF Distinct, Elems
<1> QED
    BY <1>1, <1>2, <1>3, <1>4 DEF Top

(* Unlinking the i-th element: the others stay and keep their order.       *)
LEMMA CutElement ==
  ASSUME NEW S, NEW q \in Seq(S), NEW i \in 1..Len(q)
  PROVE  LET r == SubSeq(q, 1, i - 1) \o SubSeq(q, i + 1, Len(q))
         IN  /\ r \in Seq(S) /\ Len(r) = Len(q) - 1
             /\ \A j \in 1..(Len(q) - 1) : r[j] = IF j < i THEN q[j] ELSE q[j + 1]
<1> DEFINE n == Len(q)
           a == SubSeq(q, 1, i - 1)
           b == SubSeq(q, i + 1, n)
<1>1. n \in Nat /\ \A j \in 1..n : q[j] \in S
    BY LenProperties, ElementOfSeq
<1> HIDE DEF n
<1>2. a \in Seq(S) /\ Len(a) = i - 1 /\ \A j \in 1..(i - 1) : a[j] = q[j]
  <2>1. /\ 1 \in Int /\ i - 1 \in Int /\ \A j \in 1..(i - 1) : q[j] \in S
        /\ (IF 1 <= i - 1 THEN i - 1 - 1 + 1 ELSE 0) = i - 1 /\ i - 1 - 1 + 1 = i - 1
        /\ \A j \in 1..(i - 1) : 1 + j - 1 = j
      BY <1>1 DEF n
  <2>2. /\ a \in Seq(S) /\ Len(a) = IF 1 <= i - 1 THEN i - 1 - 1 + 1 ELSE 0
        /\ \A j \in 1..(i - 1 - 1 + 1) : a[j] = q[1 + j - 1]
      BY <2>1, SubSeqProperties
  <2> HIDE DEF a
  <2> QED
      BY <2>1, <2>2
<1>3. b \in Seq(S) /\ Len(b) = n - i /\ \A j \in 1..(n - i) : b[j] = q[i + j]
  <2>1. /\ i + 1 \in Int /\ n \in Int /\ \A j \in (i + 1)..n : q[j] \in S
        /\ (IF i + 1 <= n THEN n - (i + 1) + 1 ELSE 0) = n - i /\ n - (i + 1) + 1 = n - i
        /\ \A j \in 1..(n - i) : (i + 1) + j - 1 = i + j
      BY <1>1 DEF n
  <2>2. /\ b \in Seq(S) /\ Len(b) = IF i + 1 <= n THEN n - (i + 1) + 1 ELSE 0
        /\ \A j \in 1..(n - (i + 1) + 1) : b[j] = q[(i + 1) + j - 1]
    <3> DEFINE m == i + 1
    <3>1. m \in Int /\ n \in Int /\ \A j \in m..n : q[j] \in S
        BY <2>1
    <3> HIDE DEF m
    <3>2. /\ SubSeq(q, m, n) \in Seq(S)
          /\ Len(SubSeq(q, m, n)) = IF m <= n THEN n - m + 1 ELSE 0
          /\ \A j \in 1..(n - m + 1) : SubSeq(q, m, n)[j] = q[m + j - 1]
        BY <3>1, SubSeqProperties
    <3> QED
        BY <3>2 DEF m
  <2> HIDE DEF b
  <2> QED
      BY <2>1, <2>2
<1> HIDE DEF a, b
<1> DEFINE r == a \o b
<1>4. /\ r \in Seq(S) /\ Len(r) = Len(a) + Len(b)
      /\ \A j \in 1..(Len(a) + Len(b)) : r[j] = IF j <= Len(a) THEN a[j] ELSE b[j - Len(a)]
    BY <1>2, <1>3, ConcatProperties
<1> HIDE DEF r
<1>5. Len(a) + Len(b) = n - 1
    BY <1>1, <1>2, <1>3 DEF n
<1>6. ASSUME NEW j \in 1..(n - 1) PROVE r[j] = IF j < i THEN q[j] ELSE q[j + 1]
  <2>1. CASE j < i
    <3>1. j \in 1..(i - 1) /\ j <= Len(a) /\ j \in 1..(Len(a) + Len(b))
        BY <2>1, <1>1, <1>2, <1>5 DEF n
    <3> QED
        BY <2>1, <3>1, <1>2, <1>4
  <2>2. CASE ~(j < i)
    <3>1. j - (i - 1) \in 1..(n - i) /\ i + (j - (i - 1)) = j + 1
        BY <2>2, <1>1 DEF n
    <3>2. r[j] = b[j - (i - 1)]
        BY <2>2, <1>1, <1>2, <1>4, <1>5 DEF n
    <3>3. b[j - (i - 1)] = q[i + (j - (i - 1))]
        BY <3>1, <1>3
    <3> QED
        BY <2>2, <3>1, <3>2, <3>3
  <2> QED
      BY <2>1, <2>2
<1> QED
    BY <1>4, <1>5, <1>6 DEF r, a, b, n

LEMMA WithoutElems ==
  ASSUME NEW S, NEW q \in Seq(S), NEW s, Distinct(q)
  PROVE  /\ Without(q, s) \in Seq(S)
         /\ Elems(Without(q, s)) \subseteq Elems(q) \ {s}
         /\ Distinct(Without(q, s))
         /\ Top(q) # s => Top(Without(q, s)) = Top(q)
<1>1. CASE s \notin Elems(q)
    BY <1>1 DEF Without
<1>2. CASE s \in Elems(q)
  <2> DEFINE i == CHOOSE k \in DOMAIN q : q[k] = s
             r == SubSeq(q, 1, i - 1) \o SubSeq(q, i + 1, Len(q))
  <2>1. i \in 1..Len(q) /\ q[i] = s /\ Len(q) \in Nat /\ DOMAIN q = 1..Len(q)
      BY <1>2, LenProperties DEF Elems
  <2>2. Without(q, s) = r
      BY <1>2 DEF Without
  <2> HIDE DEF i
  <2>3. /\ r \in Seq(S) /\ Len(r) = Len(q) - 1
        /\ \A j \in 1..(Len(q) - 1) : r[j] = IF j < i THEN q[j] ELSE q[j + 1]
      BY <2>1, CutElement
  <2> HIDE DEF r
  <2>4. DOMAIN r = 1..(Len(q) - 1)
      BY <2>3, LenProperties
  <2>5. \A j \in DOMAIN r : \E k \in DOMAIN q : k # i /\ r[j] = q[k]
    <3> TAKE j \in DOMAIN r
    <3>1. CASE j < i
        BY <3>1, <2>1, <2>3, <2>4
    <3>2. CASE ~(j < i)
      <4>1. j + 1 \in DOMAIN q /\ j + 1 # i /\ r[j] = q[j + 1]
          BY <3>2, <2>1, <2>3, <2>4
      <4> QED
          BY <4>1
    <3> QED
        BY <3>1, <3>2
  <2>6. Elems(r) \subseteq Elems(q) \ {s}
    <3>1. ASSUME NEW j \in DOMAIN r PROVE r[j] \in Elems(q) \ {s}
      <4>1. PICK k \in DOMAIN q : k # i /\ r[j] = q[k]
          BY <2>5
      <4>2. q[k] # s
          BY <2>1, <4>1 DEF Distinct
      <4> QED
          BY <4>1, <4>2 DEF Elems
    <3> QED
        BY <3>1 DEF Elems
  <2>7. Distinct(r)
    <3>1. ASSUME NEW j \in DOMAIN r, NEW k \in DOMAIN r, r[j] = r[k] PROVE j = k
      <4> DEFINE old(m) == IF m < i THEN m ELSE m + 1
      <4>1. j \in 1..(Len(q) - 1) /\ k \in 1..(Len(q) - 1)
          BY <2>4
      <4>2. r[j] = q[old(j)] /\ r[k] = q[old(k)]
          BY <2>3, <4>1
      <4>3. old(j) \in DOMAIN q /\ old(k) \in DOMAIN q
          BY <2>1, <4>1
      <4>4. old(j) = old(k)
          BY <3>1, <4>2, <4>3 DEF Distinct
      <4> QED
          BY <2>1, <4>1, <4>4
    <3> QED
        BY <3>1 DEF Distinct
  <2>8. ASSUME Top(q) # s PROVE Top(r) = Top(q)
    <3>1. q # <<>> /\ Len(q) >= 1
        BY <2>1
    <3>2. Top(q) = q[Len(q)]
        BY <3>1 DEF Top
    <3>3. i < Len(q)
        BY <2>1, <2>8, <3>2
    <3>4. r[Len(q) - 1] = q[Len(q)] /\ Len(r) = Len(q) - 1 /\ Len(q) - 1 >= 1
        BY <2>1, <2>3, <3>3
    <3>5. r # <<>>
        BY <3>4
    <3> QED
        BY <3>2, <3>4, <3>5 DEF Top
  <2> QED
      BY <2>2, <2>3, <2>6, <2>7, <2>8
<1> QED
    BY <1>1, <1>2

LEMMA TopElem ==
  ASSUME NEW S, NEW q \in Seq(S)
  PROVE  /\ q = <<>> => Top(q) = NULL
         /\ q # <<>> => Top(q) \in Elems(q) /\ Top(q) \in S
<1>1. ASSUME q # <<>> PROVE Top(q) \in Elems(q) /\ Top(q) \in S
  <2>1. Len(q) \in Nat /\ Len(q) # 0 /\ DOMAIN q = 1..Len(q)
      BY <1>1, LenProperties, EmptySeq
  <2>2. Len(q) \in 1..Len(q)
      BY <2>1
  <2>3. q[Len(q)] \in S /\ q[Len(q)] \in Elems(q)
      BY <2>1, <2>2, ElementOfSeq DEF Elems
  <2> QED
      BY <1>1, <2>3 DEF Top
<1> QED
    BY <1>1 DEF Top

--------------------------------------------------------------------------------
(* The inductive invariant: the focus and the list are valid, the list has *)
(* no surface twice, a surface gets its role objects in their order, and   *)
(* one that the focus falls to is activated.                               *)

RolesInOrder ==
  \A s \in Surface :
    /\ toplevel[s] # "none" => shell_surface[s] # "none"
    /\ added[s] => toplevel[s] # "none"

IInv == TypeOK /\ FocusValid /\ Distinct(surface_list) /\ RolesInOrder /\ FocusedIsActivated

(* Only two kinds of step change the list or the focus: a shell surface is *)
(* made, or a surface is destroyed.                                        *)
Made(s) == Requests(s) /\ \E shell \in {"wl", "xdg"} : TakeFocus(s, shell)

(* A step that makes a shell surface, seen from the list.                  *)
LEMMA MadeStep ==
  ASSUME IInv, NEW s \in Surface, Made(s)
  PROVE  /\ s \notin Elems(surface_list)
         /\ surface_list' \in Seq(Surface) /\ Distinct(surface_list')
         /\ Elems(surface_list') = Elems(surface_list) \union {s}
         /\ focused_csfc' = s /\ Top(surface_list') = s
         /\ shell_surface' \in [Surface -> {"none", "wl", "xdg"}]
         /\ \A t \in Surface : shell_surface'[t] # "none" <=> (shell_surface[t] # "none" \/ t = s)
         /\ alive' = alive /\ s \in alive
<1>1. /\ shell_surface[s] = "none" /\ surface_list' = Append(surface_list, s)
      /\ focused_csfc' = s /\ s \in alive /\ alive' = alive
      /\ \E shell \in {"wl", "xdg"} : shell_surface' = [shell_surface EXCEPT ![s] = shell]
    BY DEF Made, Requests, TakeFocus, InsertAtTail
<1>2. /\ surface_list \in Seq(Surface) /\ Distinct(surface_list)
      /\ shell_surface \in [Surface -> {"none", "wl", "xdg"}]
    BY DEF IInv, TypeOK
<1>3. s \notin Elems(surface_list)
    BY <1>1 DEF IInv, FocusValid
<1>4. /\ surface_list' \in Seq(Surface) /\ Distinct(surface_list')
      /\ Elems(surface_list') = Elems(surface_list) \union {s}
      /\ Top(surface_list') = s
    BY <1>1, <1>2, <1>3, AppendElems
<1> QED
    BY <1>1, <1>2, <1>3, <1>4

(* A step that destroys one, seen from the list.                           *)
LEMMA DestroyStep ==
  ASSUME IInv, NEW s \in Surface, DestroySurface(s)
  PROVE  /\ surface_list' \in Seq(Surface) /\ Distinct(surface_list')
         /\ Elems(surface_list') \subseteq Elems(surface_list) \ {s}
         /\ focused_csfc' = Top(surface_list')
<1>1. /\ surface_list \in Seq(Surface) /\ Distinct(surface_list)
      /\ focused_csfc = Top(surface_list)
    BY DEF IInv, TypeOK, FocusValid
<1>2. /\ surface_list' = Without(surface_list, s)
      /\ focused_csfc' = IF focused_csfc = s THEN Top(surface_list') ELSE focused_csfc
    BY DEF DestroySurface
<1>3. /\ surface_list' \in Seq(Surface) /\ Distinct(surface_list')
      /\ Elems(surface_list') \subseteq Elems(surface_list) \ {s}
      /\ Top(surface_list) # s => Top(surface_list') = Top(surface_list)
    BY <1>1, <1>2, WithoutElems
<1> QED
    BY <1>1, <1>2, <1>3

(* The other steps leave the list, the focus and the shell surfaces alone. *)
LEMMA OtherSteps ==
  ASSUME [Next]_vars
  PROVE  \/ \E s \in Surface : Made(s) \/ DestroySurface(s)
         \/ /\ UNCHANGED <<surface_list, focused_csfc, shell_surface>>
            /\ alive \subseteq alive'
<1> USE DEF Requests, listVars, roleVars
<1>1. ASSUME NEW s \in Surface, Request(s)
      PROVE  \/ Made(s)
             \/ UNCHANGED <<surface_list, focused_csfc, shell_surface>> /\ alive \subseteq alive'
  <2>1. CASE CreateSurface(s)
      BY <2>1 DEF CreateSurface
  <2>2. CASE GetShellSurface(s) \/ GetXdgSurface(s)
      BY <2>2 DEF GetShellSurface, GetXdgSurface, Made
  <2>3. CASE GetToplevel(s) \/ ToplevelDestroy(s)
      BY <2>3 DEF GetToplevel, ToplevelDestroy
  <2>4. CASE Commit(s) \/ CommitBuffer(s) \/ CommitNull(s)
      BY <2>4 DEF Commit, CommitBuffer, CommitNull
  <2>5. ASSUME NEW on \in BOOLEAN, SetFullscreen(s, on)
        PROVE  UNCHANGED <<surface_list, focused_csfc, shell_surface>> /\ alive \subseteq alive'
      BY <2>5 DEF SetFullscreen
  <2> QED
      BY <1>1, <2>1, <2>2, <2>3, <2>4, <2>5 DEF Request
<1>2. ASSUME NEW c \in Client, HangUp(c)
      PROVE  UNCHANGED <<surface_list, focused_csfc, shell_surface>> /\ alive \subseteq alive'
    BY <1>2 DEF HangUp
<1>3. CASE EndBatch \/ NextBatch \/ XdgSendConfigureEvent
    BY <1>3 DEF EndBatch, NextBatch, XdgSendConfigureEvent
<1>4. CASE UNCHANGED vars
    BY <1>4 DEF vars
<1> QED
    BY <1>1, <1>2, <1>3, <1>4 DEF Next, Dispatch

--------------------------------------------------------------------------------
(* Type correctness.                                                       *)

LEMMA TypeStep == IInv /\ [Next]_vars => TypeOK'
<1> SUFFICES ASSUME IInv, [Next]_vars PROVE TypeOK'
    OBVIOUS
<1>0. TypeOK
    BY DEF IInv
<1> USE <1>0 DEF TypeOK, State, NoState
<1> USE DEF listVars, roleVars, clientVars
<1>1. ASSUME NEW s \in Surface, Request(s) PROVE TypeOK'
  <2>0. Owner[s] \in Client
      BY OwnerAssumption
  <2>1. ASSUME Requests(s)
        PROVE  /\ alive' = alive /\ phase' = phase /\ leaving' = leaving
               /\ turn' \in Client \union {NULL} /\ served' \subseteq Client
      BY <2>0, <2>1 DEF Requests, Serve
  <2>2. CASE CreateSurface(s)
      BY <2>0, <2>2 DEF CreateSurface, Serve
  <2>3. Deactivated \in [Surface -> State]
      BY DEF Deactivated
  <2>4. ASSUME Made(s)
        PROVE  /\ surface_list' \in Seq(Surface) /\ focused_csfc' \in Surface
               /\ shell_surface' \in [Surface -> {"none", "wl", "xdg"}]
               /\ pending' \in [Surface -> State]
    <3>1. pending' = Deactivated
        BY <2>4 DEF Made, TakeFocus
    <3> QED
        BY <2>3, <2>4, <3>1, MadeStep
  <2>5. CASE GetShellSurface(s)
    <3>1. Made(s) /\ Requests(s)
        BY <2>5 DEF GetShellSurface, Made
    <3>2. robbed' \subseteq Surface
        BY <2>5 DEF GetShellSurface, Losers
    <3>3. UNCHANGED <<toplevel, added, idle, sent, stage>>
        BY <2>5 DEF GetShellSurface
    <3> QED
        BY <2>1, <2>4, <3>1, <3>2, <3>3
  <2>6. CASE GetXdgSurface(s)
    <3>1. Made(s) /\ Requests(s)
        BY <2>6 DEF GetXdgSurface, Made
    <3>2. IdleForLosers \in Seq(Surface)
      <4>1. CASE Losers = {}
          BY <4>1 DEF IdleForLosers
      <4>2. CASE Losers # {}
        <5>1. focused_csfc \in Surface
            BY <4>2 DEF Losers
        <5> QED
            BY <4>2, <5>1, AppendElems DEF IdleForLosers
      <4> QED
          BY <4>1, <4>2
    <3>3. idle' = IdleForLosers /\ UNCHANGED <<toplevel, added, sent, stage, robbed>>
        BY <2>6 DEF GetXdgSurface
    <3> QED
        BY <2>1, <2>4, <3>1, <3>2, <3>3
  <2>7. CASE GetToplevel(s)
      BY <2>1, <2>7 DEF GetToplevel
  <2>8. CASE Commit(s)
    <3>1. FirstCommitState(s) \in State
        BY OptionAssumption DEF FirstCommitState
    <3>2. IdleAfterFirstCommit(s) \in Seq(Surface)
        BY AppendElems DEF IdleAfterFirstCommit
    <3>3. /\ pending' \in [Surface -> State] /\ idle' \in Seq(Surface)
          /\ added' \in [Surface -> BOOLEAN]
        BY <2>8, <3>1, <3>2 DEF Commit
    <3> QED
        BY <2>1, <2>8, <3>3 DEF Commit
  <2>9. CASE CommitBuffer(s)
      BY <2>1, <2>9 DEF CommitBuffer
  <2>10. CASE CommitNull(s)
      BY <2>1, <2>10 DEF CommitNull
  <2>11. CASE ToplevelDestroy(s)
      BY <2>1, <2>11 DEF ToplevelDestroy
  <2>12. ASSUME NEW on \in BOOLEAN, SetFullscreen(s, on) PROVE TypeOK'
    <3>1. idle' \in Seq(Surface)
        BY <2>12, AppendElems DEF SetFullscreen, IdleAfterFullscreen
    <3> QED
        BY <2>1, <2>12, <3>1 DEF SetFullscreen
  <2> QED
      BY <1>1, <2>2, <2>5, <2>6, <2>7, <2>8, <2>9, <2>10, <2>11, <2>12 DEF Request
<1>2. ASSUME NEW c \in Client, HangUp(c) PROVE TypeOK'
    BY <1>2 DEF HangUp, SurfacesOf
<1>3. CASE EndBatch
    BY <1>3 DEF EndBatch
<1>4. CASE NextBatch
    BY <1>4 DEF NextBatch
<1>5. CASE XdgSendConfigureEvent
  <2>1. idle' \in Seq(Surface) /\ Head(idle) \in Surface
    <3>1. idle # <<>> /\ idle' = Tail(idle)
        BY <1>5 DEF XdgSendConfigureEvent
    <3> QED
        BY <3>1, HeadTailProperties
  <2>2. /\ sent' \in [Surface -> State \union {NULL}] /\ robbed' \subseteq Surface
        /\ stage' \in [Surface -> {"new", "awaiting", "remapping", "configured", "mapped"}]
        /\ phase' \in {"serve", "idle", "crashed"}
    <3>1. CASE Reachable(Head(idle))
      <4>1. sent' = [sent EXCEPT ![Head(idle)] = pending[Head(idle)]] /\ robbed' \subseteq robbed
            /\ phase' = phase
          BY <1>5, <3>1 DEF XdgSendConfigureEvent
      <4>2. stage' \in [Surface -> {"new", "awaiting", "remapping", "configured", "mapped"}]
          BY <1>5, <2>1, <3>1 DEF XdgSendConfigureEvent
      <4> QED
          BY <2>1, <4>1, <4>2
    <3>2. CASE ~Reachable(Head(idle))
        BY <1>5, <3>2 DEF XdgSendConfigureEvent
    <3> QED
        BY <3>1, <3>2
  <2> QED
      BY <1>5, <2>1, <2>2 DEF XdgSendConfigureEvent
<1>6. ASSUME NEW s \in Surface, DestroySurface(s) PROVE TypeOK'
  <2>1. surface_list' \in Seq(Surface) /\ focused_csfc' = Top(surface_list')
      BY <1>6, DestroyStep
  <2>2. focused_csfc' \in Surface \union {NULL}
      BY <2>1, TopElem
  <2>3. idle' \in Seq(Surface)
    <3>1. CASE Heirs(s) = {}
        BY <1>6, <3>1 DEF DestroySurface
    <3>2. CASE Heirs(s) # {}
      <4>1. focused_csfc' \in Surface
          BY <1>6, <3>2 DEF DestroySurface, Heirs
      <4>2. idle' = Append(idle, focused_csfc')
          BY <1>6, <3>2 DEF DestroySurface
      <4> QED
          BY <4>1, <4>2, AppendElems
    <3> QED
        BY <3>1, <3>2
  <2>4. pending' \in [Surface -> State]
    <3>1. \A t \in Surface :
            [pending[t] EXCEPT !.activated = pending[t].activated \/ t \in Heirs(s)] \in State
        OBVIOUS
    <3> QED
        BY <1>6, <3>1 DEF DestroySurface
  <2> QED
      BY <1>6, <2>1, <2>2, <2>3, <2>4 DEF DestroySurface
<1>7. CASE UNCHANGED vars
    BY <1>7 DEF vars
<1> QED
    BY <1>1, <1>2, <1>3, <1>4, <1>5, <1>6, <1>7 DEF Next, Dispatch

--------------------------------------------------------------------------------
(* The other parts of the invariant.                                       *)

LEMMA FocusStep == IInv /\ [Next]_vars => FocusValid' /\ Distinct(surface_list')
<1> SUFFICES ASSUME IInv, [Next]_vars PROVE FocusValid' /\ Distinct(surface_list')
    OBVIOUS
<1>1. /\ \A t \in Elems(surface_list) : t \in alive /\ shell_surface[t] # "none"
      /\ focused_csfc = Top(surface_list) /\ Distinct(surface_list)
      /\ Elems(surface_list) \subseteq Surface
  <2>1. \A i \in DOMAIN surface_list : surface_list[i] \in Surface
      BY LenProperties, ElementOfSeq DEF IInv, TypeOK
  <2> QED
      BY <2>1 DEF IInv, FocusValid, Elems
<1>2. ASSUME NEW s \in Surface, Made(s) PROVE FocusValid' /\ Distinct(surface_list')
  <2>1. /\ Elems(surface_list') = Elems(surface_list) \union {s}
        /\ focused_csfc' = Top(surface_list') /\ Distinct(surface_list')
        /\ \A t \in Surface : shell_surface'[t] # "none" <=> (shell_surface[t] # "none" \/ t = s)
        /\ alive' = alive /\ s \in alive
      BY <1>2, MadeStep
  <2>2. Elems(surface_list)' = Elems(surface_list') /\ Top(surface_list)' = Top(surface_list')
      BY DEF Elems, Top
  <2> QED
      BY <1>1, <2>1, <2>2 DEF FocusValid
<1>3. ASSUME NEW s \in Surface, DestroySurface(s) PROVE FocusValid' /\ Distinct(surface_list')
  <2>1. /\ Elems(surface_list') \subseteq Elems(surface_list) \ {s}
        /\ focused_csfc' = Top(surface_list') /\ Distinct(surface_list')
      BY <1>3, DestroyStep
  <2>2. /\ alive' = alive \ {s}
        /\ shell_surface' = [shell_surface EXCEPT ![s] = "none"]
      BY <1>3 DEF DestroySurface
  <2>3. \A t \in Surface : t # s => shell_surface'[t] = shell_surface[t]
      BY <2>2 DEF IInv, TypeOK
  <2>4. Elems(surface_list)' = Elems(surface_list') /\ Top(surface_list)' = Top(surface_list')
      BY DEF Elems, Top
  <2> QED
      BY <1>1, <2>1, <2>2, <2>3, <2>4 DEF FocusValid
<1>4. ASSUME UNCHANGED <<surface_list, focused_csfc, shell_surface>>, alive \subseteq alive'
      PROVE  FocusValid' /\ Distinct(surface_list')
    BY <1>1, <1>4 DEF FocusValid, Elems, Top
<1> QED
    BY <1>2, <1>3, <1>4, OtherSteps

LEMMA RolesStep == IInv /\ [Next]_vars => RolesInOrder' /\ FocusedIsActivated'
<1> SUFFICES ASSUME IInv, [Next]_vars PROVE RolesInOrder' /\ FocusedIsActivated'
    OBVIOUS
<1>0. TypeOK /\ RolesInOrder /\ FocusedIsActivated
    BY DEF IInv
<1> USE <1>0 DEF TypeOK, RolesInOrder, FocusedIsActivated, State, NoState
<1> USE DEF listVars, roleVars, clientVars
<1>1. ASSUME NEW s \in Surface, Request(s) PROVE RolesInOrder' /\ FocusedIsActivated'
  <2>1. CASE CreateSurface(s)
      BY <2>1 DEF CreateSurface
  <2>2. CASE GetShellSurface(s) \/ GetXdgSurface(s)
    <3>1. Made(s) /\ UNCHANGED <<toplevel, added>> /\ shell_surface[s] = "none"
        BY <2>2 DEF GetShellSurface, GetXdgSurface, Made, TakeFocus
    <3>2. /\ focused_csfc' = s
          /\ \A t \in Surface : shell_surface'[t] # "none" <=> (shell_surface[t] # "none" \/ t = s)
        BY <3>1, MadeStep
    <3> QED
        BY <3>1, <3>2
  <2>3. CASE GetToplevel(s)
      BY <2>3 DEF GetToplevel
  <2>4. CASE Commit(s)
    <3>1. UNCHANGED <<shell_surface, toplevel, focused_csfc>> /\ toplevel[s] # "none"
        BY <2>4 DEF Commit
    <3>2. CASE added[s]
        BY <2>4, <3>1, <3>2 DEF Commit
    <3>3. CASE ~added[s]
      <4>1. /\ added' = [added EXCEPT ![s] = TRUE]
            /\ pending' = [pending EXCEPT ![s] = FirstCommitState(s)]
          BY <2>4, <3>3 DEF Commit
      <4>2. FirstCommitState(s).activated
          BY DEF FirstCommitState
      <4>3. \A t \in Surface : pending'[t] = IF t = s THEN FirstCommitState(s) ELSE pending[t]
          BY <4>1
      <4>4. \A t \in Surface : t # s => added'[t] = added[t]
          BY <4>1
      <4> QED
          BY <3>1, <4>1, <4>2, <4>3, <4>4
    <3> QED
        BY <3>2, <3>3
  <2>5. CASE CommitBuffer(s) \/ CommitNull(s)
      BY <2>5 DEF CommitBuffer, CommitNull
  <2>6. CASE ToplevelDestroy(s)
      BY <2>6 DEF ToplevelDestroy
  <2>7. ASSUME NEW on \in BOOLEAN, SetFullscreen(s, on)
        PROVE  RolesInOrder' /\ FocusedIsActivated'
      BY <2>7 DEF SetFullscreen
  <2> QED
      BY <1>1, <2>1, <2>2, <2>3, <2>4, <2>5, <2>6, <2>7 DEF Request
<1>2. ASSUME NEW c \in Client, HangUp(c) PROVE RolesInOrder' /\ FocusedIsActivated'
    BY <1>2 DEF HangUp
<1>3. CASE EndBatch \/ NextBatch \/ XdgSendConfigureEvent
    BY <1>3 DEF EndBatch, NextBatch, XdgSendConfigureEvent
<1>4. ASSUME NEW s \in Surface, DestroySurface(s) PROVE RolesInOrder' /\ FocusedIsActivated'
  <2>1. /\ toplevel' = [toplevel EXCEPT ![s] = "none"]
        /\ shell_surface' = [shell_surface EXCEPT ![s] = "none"]
        /\ added' = [added EXCEPT ![s] = FALSE]
      BY <1>4 DEF DestroySurface
  <2>2. RolesInOrder'
      BY <2>1
  <2>3. ASSUME NEW t \in Surface, t = focused_csfc', added'[t]
        PROVE  pending'[t].activated
    <3>1. t # s /\ added[t] /\ toplevel[t] # "none"
        BY <2>1, <2>3
    <3>2. t \in Heirs(s) \/ pending[t].activated => pending'[t].activated
      <4>1. pending'[t] = [pending[t] EXCEPT !.activated = pending[t].activated \/ t \in Heirs(s)]
          BY <1>4, <3>1 DEF DestroySurface
      <4>2. ASSUME NEW v \in BOOLEAN PROVE [pending[t] EXCEPT !.activated = v].activated = v
          BY DEF State
      <4>3. pending'[t].activated = (pending[t].activated \/ t \in Heirs(s))
          BY <4>1, <4>2
      <4> QED
          BY <4>3
    <3>3. CASE focused_csfc = s
      <4>1. t = Top(Without(surface_list, s))
          BY <1>4, <2>3, <3>3 DEF DestroySurface
      <4>2. t \in Heirs(s)
          BY <3>1, <3>3, <4>1 DEF Heirs
      <4> QED
          BY <3>2, <4>2
    <3>4. CASE focused_csfc # s
      <4>1. focused_csfc' = focused_csfc
          BY <1>4, <3>4 DEF DestroySurface
      <4>2. pending[t].activated
          BY <2>3, <3>1, <4>1
      <4> QED
          BY <3>2, <4>2
    <3> QED
        BY <3>3, <3>4
  <2> QED
      BY <2>2, <2>3
<1>5. CASE UNCHANGED vars
    BY <1>5 DEF vars
<1> QED
    BY <1>1, <1>2, <1>3, <1>4, <1>5 DEF Next, Dispatch

--------------------------------------------------------------------------------
LEMMA Invariant == Spec => []IInv
<1>1. Init => IInv
  <2> SUFFICES ASSUME Init PROVE IInv
      OBVIOUS
  <2>1. TypeOK
      BY DEF Init, TypeOK, State, NoState
  <2>2. FocusValid /\ Distinct(surface_list)
      BY DEF Init, FocusValid, Elems, Top, Distinct
  <2>3. RolesInOrder /\ FocusedIsActivated
      BY DEF Init, RolesInOrder, FocusedIsActivated
  <2> QED
      BY <2>1, <2>2, <2>3 DEF IInv
<1>2. IInv /\ [Next]_vars => IInv'
  <2> SUFFICES ASSUME IInv, [Next]_vars PROVE IInv'
      OBVIOUS
  <2>1. Distinct(surface_list)' <=> Distinct(surface_list')
      BY DEF Distinct
  <2> QED
      BY <2>1, TypeStep, FocusStep, RolesStep DEF IInv
<1> QED
    BY <1>1, <1>2, PTL DEF Spec

(* Every variable keeps its type: a task is never queued for no surface,   *)
(* and the focus is a surface or nothing.                                  *)
THEOREM TypeCorrect == Spec => []TypeOK
<1>1. IInv => TypeOK
    BY DEF IInv
<1> QED
    BY <1>1, Invariant, PTL

(* The focus is always with the topmost surface, which exists and has a    *)
(* shell surface to follow, whatever order clients come and go in.         *)
THEOREM FocusAlwaysValid == Spec => []FocusValid
<1>1. IInv => FocusValid
    BY DEF IInv
<1> QED
    BY <1>1, Invariant, PTL

(* A toplevel that has the focus after its first commit is activated.      *)
THEOREM FocusActivates == Spec => []FocusedIsActivated
<1>1. IInv => FocusedIsActivated
    BY DEF IInv
<1> QED
    BY <1>1, Invariant, PTL

(* The stacking of the surfaces implements FocusStack: making a shell      *)
(* surface raises it, destroying a surface drops it, and no other step     *)
(* changes the stack or the focus.                                         *)
THEOREM ImplementsFocusStack == Spec => StackingImplemented
<1>1. Init => Stacking!Init
    BY DEF Init, Stacking!Init
<1>2. ASSUME IInv, [Next]_vars PROVE [Stacking!Next]_(Stacking!vars)
  <2>1. ASSUME NEW s \in Surface, Made(s) PROVE Stacking!Raise(s)
    <3>1. s \notin Elems(surface_list) /\ focused_csfc' = s
        BY <1>2, <2>1, MadeStep
    <3>2. surface_list' = Append(surface_list, s)
        BY <2>1 DEF Made, TakeFocus, InsertAtTail
    <3> QED
        BY <3>1, <3>2 DEF Stacking!Raise, Stacking!Elems, Elems
  <2>2. ASSUME NEW s \in Surface, DestroySurface(s)
        PROVE  Stacking!Drop(s) \/ UNCHANGED Stacking!vars
    <3>1. /\ surface_list' = Without(surface_list, s)
          /\ focused_csfc' = IF focused_csfc = s THEN Top(surface_list') ELSE focused_csfc
        BY <2>2 DEF DestroySurface
    <3>2. CASE s \in Elems(surface_list)
        BY <3>1, <3>2
        DEF Stacking!Drop, Stacking!Elems, Stacking!Without, Stacking!Top, Elems, Without, Top
    <3>3. CASE s \notin Elems(surface_list)
      <4>1. surface_list' = surface_list
          BY <3>1, <3>3 DEF Without
      <4>2. focused_csfc # s
        <5>1. /\ surface_list \in Seq(Surface) /\ focused_csfc = Top(surface_list)
              /\ NULL # s
            BY <1>2, NullAssumption DEF IInv, TypeOK, FocusValid
        <5> QED
            BY <3>3, <5>1, TopElem
      <4> QED
          BY <3>1, <4>1, <4>2 DEF Stacking!vars
    <3> QED
        BY <3>2, <3>3
  <2>3. ASSUME UNCHANGED <<surface_list, focused_csfc, shell_surface>>
        PROVE  UNCHANGED Stacking!vars
      BY <2>3 DEF Stacking!vars
  <2> QED
      BY <1>2, <2>1, <2>2, <2>3, OtherSteps DEF Stacking!Next
<1> QED
    BY <1>1, <1>2, Invariant, PTL DEF Spec, StackingImplemented, Stacking!Spec

--------------------------------------------------------------------------------
(* Idle tasks.  What a task points to is gone only when its client hung up *)
(* in this batch, after its turn: nothing of that client is served until   *)
(* the tasks have run, so no new surface takes the slot before.            *)

LEMMA TailElems ==
  ASSUME NEW S, NEW q \in Seq(S), q # <<>>
  PROVE  /\ Tail(q) \in Seq(S) /\ Head(q) \in Elems(q) /\ Elems(Tail(q)) \subseteq Elems(q)
         /\ Elems(q) \subseteq Elems(Tail(q)) \union {Head(q)}
<1>1. /\ Len(q) \in Nat /\ Len(q) # 0 /\ DOMAIN q = 1..Len(q)
    BY LenProperties, EmptySeq
<1>2. /\ Head(q) = q[1] /\ Tail(q) \in Seq(S) /\ Len(Tail(q)) = Len(q) - 1
      /\ \A i \in 1..Len(Tail(q)) : Tail(q)[i] = q[i + 1]
    BY HeadTailProperties
<1>3. DOMAIN Tail(q) = 1..(Len(q) - 1)
    BY <1>2, LenProperties
<1>4. \A i \in DOMAIN Tail(q) : i + 1 \in DOMAIN q /\ Tail(q)[i] = q[i + 1]
    BY <1>1, <1>2, <1>3
<1>5. \A j \in DOMAIN q : j = 1 \/ (j - 1 \in DOMAIN Tail(q) /\ Tail(q)[j - 1] = q[j])
    BY <1>1, <1>2, <1>3
<1>6. 1 \in DOMAIN q
    BY <1>1
<1>7. Head(q) \in Elems(q)
    BY <1>2, <1>6 DEF Elems
<1>8. Elems(Tail(q)) \subseteq Elems(q)
    BY <1>4 DEF Elems
<1>9. ASSUME NEW j \in DOMAIN q PROVE q[j] \in Elems(Tail(q)) \union {Head(q)}
  <2>1. CASE j = 1
      BY <1>2, <2>1
  <2>2. CASE j # 1
      BY <1>5, <2>2 DEF Elems
  <2> QED
      BY <2>1, <2>2
<1> QED
    BY <1>2, <1>7, <1>8, <1>9 DEF Elems

Blank == \A s \in Surface : toplevel[s] # "none" => s \in alive
Leaving ==
  /\ \A s \in leaving : Owner[s] \in served
  /\ leaving # {} => phase = "serve" /\ served # {} /\ turn = NULL
FreshBatch == phase = "serve" /\ served = {} => idle = <<>>
TasksOfGone ==
  \A s \in Elems(idle) :
    /\ s \in alive => toplevel[s] # "none"
    /\ s \notin alive => Owner[s] \in served /\ turn # Owner[s]

Batches == Blank /\ Leaving /\ FreshBatch /\ TasksOfGone

(* A request of s, as the batch sees it: it may add tasks for surfaces     *)
(* that have a toplevel.                                                   *)
LEMMA RequestKeepsBatches ==
  ASSUME IInv, Batches, NEW s \in Surface,
         Serve(Owner[s]), UNCHANGED <<phase, leaving>>, leaving = {},
         \/ s \in alive /\ alive' = alive
         \/ s \notin alive /\ alive' = alive \union {s} /\ UNCHANGED <<toplevel, idle>>,
         \A u \in Surface : toplevel'[u] = toplevel[u] \/ (u = s /\ toplevel'[u] = "live")
                                                    \/ (u = s /\ toplevel'[u] = "dead"),
         \A u \in Elems(idle') : u \in Surface /\ (u \in Elems(idle) \/ toplevel[u] # "none")
  PROVE  Batches'
<1>1. served' = served \union {Owner[s]} /\ turn' = Owner[s] /\ (Owner[s] \in served => turn = Owner[s])
    BY DEF Serve, MayServe
<1>2. Blank'
    BY DEF Batches, Blank
<1>3. Leaving' /\ FreshBatch'
    BY <1>1 DEF Leaving, FreshBatch
<1>4. ASSUME NEW u \in Elems(idle')
      PROVE  /\ u \in alive' => toplevel'[u] # "none"
             /\ u \notin alive' => Owner[u] \in served' /\ turn' # Owner[u]
  <2>1. CASE u \in alive
      BY <1>4, <2>1 DEF Batches, TasksOfGone
  <2>2. CASE u \notin alive
    <3>1. u \in Elems(idle) /\ Owner[u] \in served /\ turn # Owner[u]
        BY <1>4, <2>2 DEF Batches, Blank, TasksOfGone
    <3>2. Owner[u] # Owner[s]
        BY <1>1, <3>1
    <3> QED
        BY <1>1, <2>2, <3>1, <3>2
  <2> QED
      BY <2>1, <2>2
<1>5. TasksOfGone'
    BY <1>4 DEF TasksOfGone, Elems
<1> QED
    BY <1>2, <1>3, <1>5 DEF Batches

LEMMA BatchesStep == IInv /\ Batches /\ [Next]_vars => Batches'
<1> SUFFICES ASSUME IInv, Batches, [Next]_vars PROVE Batches'
    OBVIOUS
<1>0. /\ TypeOK /\ toplevel \in [Surface -> {"none", "live", "dead"}] /\ idle \in Seq(Surface)
      /\ Elems(idle) \subseteq Surface
  <2>1. \A i \in DOMAIN idle : idle[i] \in Surface
      BY LenProperties, ElementOfSeq DEF IInv, TypeOK
  <2> QED
      BY <2>1 DEF IInv, TypeOK, Elems
<1> USE DEF listVars, roleVars, clientVars
<1>1. ASSUME NEW s \in Surface, Request(s) PROVE Batches'
  <2>1. CASE CreateSurface(s)
      BY <1>0, <2>1, RequestKeepsBatches DEF CreateSurface, Serve, MayServe
  <2>2. ASSUME Requests(s)
        PROVE  /\ Serve(Owner[s]) /\ UNCHANGED <<alive, phase, leaving>> /\ leaving = {}
               /\ s \in alive
      BY <2>2 DEF Requests, Serve, MayServe
  <2>3. ASSUME Requests(s), idle' = idle,
               \A u \in Surface : toplevel'[u] = toplevel[u] \/ (u = s /\ toplevel'[u] = "live")
                 \/ (u = s /\ toplevel'[u] = "dead")
        PROVE  Batches'
      BY <1>0, <2>2, <2>3, RequestKeepsBatches
  <2>4. ASSUME Requests(s), toplevel' = toplevel, NEW u \in Surface, toplevel[u] # "none",
               idle' = Append(idle, u)
        PROVE  Batches'
    <3>1. Elems(idle') = Elems(idle) \union {u}
        BY <1>0, <2>4, AppendElems
    <3> QED
        BY <1>0, <2>2, <2>4, <3>1, RequestKeepsBatches
  <2>5. CASE GetShellSurface(s)
      BY <2>3, <2>5 DEF GetShellSurface
  <2>6. CASE GetXdgSurface(s)
    <3>1. CASE Losers = {}
        BY <2>3, <2>6, <3>1 DEF GetXdgSurface, IdleForLosers
    <3>2. CASE Losers # {}
      <4>1. focused_csfc \in Surface /\ toplevel[focused_csfc] # "none"
          BY <3>2 DEF Losers
      <4> QED
          BY <2>4, <2>6, <3>2, <4>1 DEF GetXdgSurface, IdleForLosers
    <3> QED
        BY <3>1, <3>2
  <2>7. CASE GetToplevel(s)
      BY <1>0, <2>3, <2>7 DEF GetToplevel
  <2>8. CASE Commit(s)
      BY <2>3, <2>4, <2>8 DEF Commit, IdleAfterFirstCommit
  <2>9. CASE CommitBuffer(s) \/ CommitNull(s)
      BY <2>3, <2>9 DEF CommitBuffer, CommitNull
  <2>10. CASE ToplevelDestroy(s)
      BY <1>0, <2>3, <2>10 DEF ToplevelDestroy
  <2>11. ASSUME NEW on \in BOOLEAN, SetFullscreen(s, on) PROVE Batches'
      BY <2>4, <2>11 DEF SetFullscreen, IdleAfterFullscreen
  <2> QED
      BY <1>1, <2>1, <2>5, <2>6, <2>7, <2>8, <2>9, <2>10, <2>11 DEF Request
<1>2. ASSUME NEW c \in Client, HangUp(c) PROVE Batches'
  <2>1. /\ UNCHANGED <<alive, toplevel, idle, phase>> /\ phase = "serve"
        /\ served' = served \union {c} /\ turn' = NULL
        /\ \A s \in leaving' : Owner[s] = c
      BY <1>2 DEF HangUp, MayServe, SurfacesOf
  <2>2. Blank' /\ Leaving' /\ FreshBatch'
      BY <2>1 DEF Batches, Blank, Leaving, FreshBatch
  <2>3. \A u \in Elems(idle) : Owner[u] # NULL
      BY <1>0, OwnerAssumption, NullAssumption
  <2>4. TasksOfGone'
      BY <2>1, <2>3 DEF Batches, TasksOfGone, Elems
  <2> QED
      BY <2>2, <2>4 DEF Batches
<1>3. CASE EndBatch
  <2>1. /\ UNCHANGED <<alive, toplevel, idle, served, leaving>> /\ leaving = {}
        /\ phase' = "idle" /\ turn' = NULL
      BY <1>3 DEF EndBatch
  <2>2. \A u \in Elems(idle) : Owner[u] # NULL
      BY <1>0, OwnerAssumption, NullAssumption
  <2> QED
      BY <2>1, <2>2 DEF Batches, Blank, Leaving, FreshBatch, TasksOfGone, Elems
<1>4. CASE XdgSendConfigureEvent
  <2>1. /\ UNCHANGED <<alive, toplevel, served, turn, leaving>> /\ phase = "idle"
        /\ phase' # "serve" /\ idle' = Tail(idle) /\ idle # <<>>
      BY <1>4 DEF XdgSendConfigureEvent
  <2>2. Elems(idle') \subseteq Elems(idle)
      BY <1>0, <2>1, TailElems
  <2>3. Elems(idle)' = Elems(idle')
      BY DEF Elems
  <2> QED
      BY <2>1, <2>2, <2>3
      DEF Batches, Blank, Leaving, FreshBatch, TasksOfGone
<1>5. CASE NextBatch
  <2>1. /\ UNCHANGED <<alive, toplevel, idle, leaving>> /\ idle = <<>> /\ phase = "idle"
      BY <1>5 DEF NextBatch
  <2>2. Elems(idle) = {} /\ leaving = {}
      BY <2>1 DEF Elems, Batches, Leaving
  <2>3. Elems(idle)' = {}
      BY <2>1, <2>2 DEF Elems
  <2> QED
      BY <2>1, <2>2, <2>3 DEF Batches, Blank, Leaving, FreshBatch, TasksOfGone
<1>6. ASSUME NEW s \in Surface, DestroySurface(s) PROVE Batches'
  <2>1. /\ s \in leaving /\ leaving' = leaving \ {s} /\ alive' = alive \ {s}
        /\ toplevel' = [toplevel EXCEPT ![s] = "none"] /\ UNCHANGED <<phase, turn, served>>
        /\ \/ idle' = idle
           \/ Heirs(s) # {} /\ idle' = Append(idle, focused_csfc')
      BY <1>6 DEF DestroySurface
  <2>2. phase = "serve" /\ served # {} /\ turn = NULL /\ Owner[s] \in served
      BY <2>1 DEF Batches, Leaving
  <2>3. Blank' /\ Leaving' /\ FreshBatch'
      BY <1>0, <2>1, <2>2 DEF Batches, Blank, Leaving, FreshBatch
  <2>4. ASSUME Heirs(s) # {}
        PROVE  focused_csfc' \in Surface \ {s} /\ toplevel[focused_csfc'] # "none"
    <3>1. PICK t \in Surface : focused_csfc = s /\ t = Top(Without(surface_list, s)) /\ toplevel[t] # "none"
        BY <2>4 DEF Heirs
    <3>2. focused_csfc' = t
        BY <1>6, <3>1 DEF DestroySurface
    <3>3. t # s
      <4>1. /\ surface_list' \in Seq(Surface) /\ t = Top(surface_list')
            /\ Elems(surface_list') \subseteq Elems(surface_list) \ {s}
          BY <1>6, <3>1, DestroyStep DEF DestroySurface
      <4>2. t # NULL
          BY NullAssumption
      <4>3. t \in Elems(surface_list')
          BY <4>1, <4>2, TopElem
      <4> QED
          BY <4>1, <4>3
    <3> QED
        BY <3>1, <3>2, <3>3
  <2>5. \A u \in Elems(idle') :
          u \in Surface /\ (u \in Elems(idle) \/ (u # s /\ toplevel[u] # "none"))
    <3>1. CASE idle' = idle
        BY <1>0, <3>1
    <3>2. CASE Heirs(s) # {} /\ idle' = Append(idle, focused_csfc')
      <4>1. Elems(idle') = Elems(idle) \union {focused_csfc'}
          BY <1>0, <2>4, <3>2, AppendElems
      <4> QED
          BY <1>0, <2>4, <3>2, <4>1
    <3> QED
        BY <2>1, <3>1, <3>2
  <2>6. \A u \in Surface : Owner[u] # NULL
      BY OwnerAssumption, NullAssumption
  <2>7. ASSUME NEW u \in Elems(idle')
        PROVE  /\ u \in alive' => toplevel'[u] # "none"
               /\ u \notin alive' => Owner[u] \in served' /\ turn' # Owner[u]
    <3>1. CASE u = s
        BY <2>1, <2>2, <2>6, <3>1
    <3>2. CASE u # s
        BY <1>0, <2>1, <2>5, <3>2 DEF Batches, Blank, TasksOfGone
    <3> QED
        BY <3>1, <3>2
  <2>8. TasksOfGone'
      BY <2>7 DEF TasksOfGone, Elems
  <2> QED
      BY <2>3, <2>8 DEF Batches
<1>7. CASE UNCHANGED vars
    BY <1>7 DEF vars, Batches, Blank, Leaving, FreshBatch, TasksOfGone, Elems
<1> QED
    BY <1>1, <1>2, <1>3, <1>4, <1>5, <1>6, <1>7 DEF Next, Dispatch

LEMMA BatchesKept == Spec => []Batches
<1>1. Init => Batches
    BY DEF Init, Batches, Blank, Leaving, FreshBatch, TasksOfGone, Elems
<1> QED
    BY <1>1, BatchesStep, Invariant, PTL DEF Spec

(* A task outlives what it points to only when that client hung up in the  *)
(* same batch or destroyed the toplevel.                                   *)
THEOREM IdleTasksAreBounded == Spec => []IdleTasksBounded
<1>1. IInv /\ Batches => IdleTasksBounded
  <2> SUFFICES ASSUME IInv, Batches, NEW s \in Elems(idle)
               PROVE  /\ s \in alive => toplevel[s] # "none"
                      /\ Reachable(s) \/ toplevel[s] = "dead" \/ Owner[s] \in served
      BY DEF IdleTasksBounded
  <2>1. s \in Surface
      BY LenProperties, ElementOfSeq DEF IInv, TypeOK, Elems
  <2> QED
      BY <2>1 DEF IInv, TypeOK, Batches, TasksOfGone, Reachable
<1> QED
    BY <1>1, Invariant, BatchesKept, PTL

--------------------------------------------------------------------------------
(* Configure events.  A toplevel whose state was recorded since it was     *)
(* last told has a task that will tell it.                                 *)
ToldOrQueued ==
  \A s \in Surface \ robbed :
    Reachable(s) /\ added[s] => sent[s] = pending[s] \/ s \in Elems(idle)

(* A step keeps it when no task goes, no surface or toplevel appears with  *)
(* its first commit done, and whoever's state changes is queued or robbed. *)
LEMMA KeepsTold ==
  ASSUME ToldOrQueued, UNCHANGED sent, Elems(idle) \subseteq Elems(idle'),
         \A u \in Surface : Reachable(u)' /\ added'[u] /\ u \notin robbed' =>
           \/ u \in Elems(idle')
           \/ /\ Reachable(u) /\ added[u] /\ u \notin robbed
              /\ pending'[u] = pending[u]
  PROVE  ToldOrQueued'
<1>1. Elems(idle)' = Elems(idle')
    BY DEF Elems
<1>2. ASSUME NEW u \in Surface \ robbed', Reachable(u)', added'[u]
      PROVE  sent'[u] = pending'[u] \/ u \in Elems(idle')
    BY <1>2 DEF ToldOrQueued
<1> QED
    BY <1>1, <1>2 DEF ToldOrQueued

LEMMA SameState ==
  ASSUME NEW r \in State
  PROVE  /\ [r EXCEPT !.activated = r.activated] = r
         /\ [r EXCEPT !.activated = r.activated \/ FALSE] = r
         /\ ~r.activated => [r EXCEPT !.activated = FALSE] = r
BY DEF State

LEMMA ToldStep == IInv /\ Batches /\ ToldOrQueued /\ [Next]_vars => ToldOrQueued'
<1> SUFFICES ASSUME IInv, Batches, ToldOrQueued, [Next]_vars PROVE ToldOrQueued'
    OBVIOUS
<1>0. /\ toplevel \in [Surface -> {"none", "live", "dead"}] /\ idle \in Seq(Surface)
      /\ added \in [Surface -> BOOLEAN] /\ pending \in [Surface -> State]
      /\ sent \in [Surface -> State \union {NULL}]
      /\ \A u \in Surface : added[u] => toplevel[u] # "none"
      /\ \A u \in Surface : toplevel[u] # "none" => u \in alive
    BY DEF IInv, TypeOK, RolesInOrder, Batches, Blank
<1> USE DEF listVars, roleVars, clientVars
<1>1. CASE UNCHANGED <<alive, toplevel, added, pending, idle, sent, robbed>>
    BY <1>1 DEF ToldOrQueued, Reachable, Elems
<1>2. ASSUME NEW s \in Surface, Request(s) PROVE ToldOrQueued'
  <2>1. CASE CreateSurface(s)
    <3>1. alive' = alive \union {s} /\ UNCHANGED <<toplevel, added, pending, idle, sent, robbed>>
        BY <2>1 DEF CreateSurface
    <3>2. \A u \in Surface : Reachable(u)' => Reachable(u)
        BY <1>0, <3>1 DEF Reachable
    <3> QED
        BY <3>1, <3>2, KeepsTold
  <2>2. ASSUME TakeFocus(s, "wl") \/ TakeFocus(s, "xdg"), NEW u \in Surface,
               u \in Losers => ~pending[u].activated
        PROVE  pending'[u] = pending[u]
    <3>1. pending'[u] = IF u \in Losers THEN [pending[u] EXCEPT !.activated = FALSE] ELSE pending[u]
        BY <2>2 DEF TakeFocus, Deactivated
    <3>2. ~pending[u].activated => [pending[u] EXCEPT !.activated = FALSE] = pending[u]
      <4>1. pending[u] \in State
          BY <1>0
      <4> QED
          BY <4>1, SameState
    <3> QED
        BY <2>2, <3>1, <3>2
  <2>3. CASE GetShellSurface(s)
    <3>1. /\ UNCHANGED <<alive, toplevel, added, idle, sent>> /\ TakeFocus(s, "wl")
          /\ robbed' = robbed \union {f \in Losers : pending[f].activated}
        BY <2>3 DEF GetShellSurface, Requests
    <3>2. \A u \in Surface : u \notin robbed' => u \notin robbed /\ pending'[u] = pending[u]
        BY <2>2, <3>1
    <3> QED
        BY <3>1, <3>2, KeepsTold DEF Reachable
  <2>4. CASE GetXdgSurface(s)
    <3>1. /\ UNCHANGED <<alive, toplevel, added, sent, robbed>> /\ TakeFocus(s, "xdg")
          /\ idle' = IdleForLosers
        BY <2>4 DEF GetXdgSurface, Requests
    <3>2. CASE Losers = {}
      <4>1. \A u \in Surface : pending'[u] = pending[u]
          BY <2>2, <3>1, <3>2
      <4> QED
          BY <3>1, <3>2, <4>1, KeepsTold DEF Reachable, IdleForLosers
    <3>3. CASE Losers # {}
      <4>1. focused_csfc \in Surface /\ \A u \in Losers : u = focused_csfc
          BY <3>3 DEF Losers
      <4>2. Elems(idle') = Elems(idle) \union {focused_csfc}
          BY <1>0, <3>1, <3>3, <4>1, AppendElems DEF IdleForLosers
      <4>3. \A u \in Surface : u # focused_csfc => pending'[u] = pending[u]
          BY <2>2, <3>1, <4>1
      <4> QED
          BY <3>1, <4>2, <4>3, KeepsTold DEF Reachable
    <3> QED
        BY <3>2, <3>3
  <2>5. CASE GetToplevel(s)
    <3>1. /\ UNCHANGED <<alive, added, pending, idle, sent, robbed>> /\ toplevel[s] = "none"
          /\ toplevel' = [toplevel EXCEPT ![s] = "live"]
        BY <2>5 DEF GetToplevel, Requests
    <3>2. \A u \in Surface : Reachable(u)' /\ added'[u] => Reachable(u)
        BY <1>0, <3>1 DEF Reachable
    <3> QED
        BY <3>1, <3>2, KeepsTold
  <2>6. ASSUME UNCHANGED <<alive, toplevel, sent, robbed>>, idle' = Append(idle, s),
               \A u \in Surface : u # s => pending'[u] = pending[u] /\ added'[u] = added[u]
        PROVE  ToldOrQueued'
    <3>1. Elems(idle') = Elems(idle) \union {s}
        BY <1>0, <2>6, AppendElems
    <3> QED
        BY <2>6, <3>1, KeepsTold DEF Reachable
  <2>7. CASE Commit(s)
    <3>1. CASE added[s]
        BY <1>1, <2>7, <3>1 DEF Commit, Requests
    <3>2. CASE ~added[s]
        BY <1>0, <2>6, <2>7, <3>2 DEF Commit, Requests, IdleAfterFirstCommit
    <3> QED
        BY <3>1, <3>2
  <2>8. CASE CommitBuffer(s) \/ CommitNull(s)
      BY <1>1, <2>8 DEF CommitBuffer, CommitNull, Requests
  <2>9. CASE ToplevelDestroy(s)
    <3>1. /\ UNCHANGED <<alive, added, pending, idle, sent, robbed>>
          /\ toplevel' = [toplevel EXCEPT ![s] = "dead"]
        BY <2>9 DEF ToplevelDestroy, Requests
    <3>2. \A u \in Surface : Reachable(u)' => Reachable(u)
        BY <1>0, <3>1 DEF Reachable
    <3> QED
        BY <3>1, <3>2, KeepsTold
  <2>10. ASSUME NEW on \in BOOLEAN, SetFullscreen(s, on) PROVE ToldOrQueued'
      BY <1>0, <2>6, <2>10 DEF SetFullscreen, Requests, IdleAfterFullscreen
  <2> QED
      BY <1>2, <2>1, <2>3, <2>4, <2>5, <2>7, <2>8, <2>9, <2>10 DEF Request
<1>3. ASSUME NEW c \in Client, HangUp(c) PROVE ToldOrQueued'
    BY <1>1, <1>3 DEF HangUp
<1>4. CASE EndBatch \/ NextBatch
    BY <1>1, <1>4 DEF EndBatch, NextBatch
<1>5. CASE XdgSendConfigureEvent
  <2> DEFINE s == Head(idle)
  <2>1. /\ UNCHANGED <<alive, toplevel, added, pending>> /\ idle' = Tail(idle) /\ idle # <<>>
        /\ \/ Reachable(s) /\ sent' = [sent EXCEPT ![s] = pending[s]] /\ robbed' = robbed \ {s}
           \/ ~Reachable(s) /\ UNCHANGED <<sent, robbed>>
      BY <1>5 DEF XdgSendConfigureEvent
  <2>2. Elems(idle) \subseteq Elems(idle') \union {s}
      BY <1>0, <2>1, TailElems
  <2> HIDE DEF s
  <2>3. ASSUME NEW u \in Surface \ robbed', Reachable(u), added[u]
        PROVE  sent'[u] = pending[u] \/ u \in Elems(idle')
    <3>1. CASE u = s
        BY <1>0, <2>1, <2>3, <3>1
    <3>2. CASE u # s
      <4>1. u \notin robbed /\ sent'[u] = sent[u]
          BY <1>0, <2>1, <2>3, <3>2
      <4> QED
          BY <2>2, <2>3, <3>2, <4>1 DEF ToldOrQueued
    <3> QED
        BY <3>1, <3>2
  <2>4. Elems(idle)' = Elems(idle') /\ \A u \in Surface : Reachable(u)' = Reachable(u)
      BY <2>1 DEF Elems, Reachable
  <2> QED
      BY <2>1, <2>3, <2>4 DEF ToldOrQueued
<1>6. ASSUME NEW s \in Surface, DestroySurface(s) PROVE ToldOrQueued'
  <2>1. /\ alive' = alive \ {s} /\ toplevel' = [toplevel EXCEPT ![s] = "none"]
        /\ added' = [added EXCEPT ![s] = FALSE] /\ sent' = [sent EXCEPT ![s] = NULL]
        /\ robbed' = robbed \ {s}
        /\ pending' = [t \in Surface |-> IF t = s THEN NoState
             ELSE [pending[t] EXCEPT !.activated = pending[t].activated \/ t \in Heirs(s)]]
        /\ idle' = IF Heirs(s) = {} THEN idle ELSE Append(idle, focused_csfc')
      BY <1>6 DEF DestroySurface
  <2>2. \A u \in Heirs(s) : u \in Surface /\ u = focused_csfc'
      BY <1>6 DEF DestroySurface, Heirs
  <2>3. Elems(idle') = Elems(idle) \union Heirs(s)
    <3>1. CASE Heirs(s) = {}
        BY <2>1, <3>1
    <3>2. CASE Heirs(s) # {}
      <4>1. Heirs(s) = {focused_csfc'} /\ focused_csfc' \in Surface
          BY <2>2, <3>2
      <4> QED
          BY <1>0, <2>1, <3>2, <4>1, AppendElems
    <3> QED
        BY <3>1, <3>2
  <2>4. ASSUME NEW u \in Surface, u # s, u \notin Heirs(s) PROVE pending'[u] = pending[u]
    <3>1. pending'[u] = [pending[u] EXCEPT !.activated = pending[u].activated \/ FALSE]
        BY <2>1, <2>4
    <3> QED
        BY <1>0, <3>1, SameState
  <2>5. ASSUME NEW u \in Surface \ robbed', Reachable(u)', added'[u]
        PROVE  sent'[u] = pending'[u] \/ u \in Elems(idle')
    <3>1. u # s /\ Reachable(u) /\ added[u] /\ u \notin robbed /\ sent'[u] = sent[u]
        BY <1>0, <2>1, <2>5 DEF Reachable
    <3>2. sent[u] = pending[u] \/ u \in Elems(idle)
        BY <3>1 DEF ToldOrQueued
    <3> QED
        BY <2>3, <2>4, <3>1, <3>2
  <2>6. Elems(idle)' = Elems(idle')
      BY DEF Elems
  <2> QED
      BY <2>5, <2>6 DEF ToldOrQueued
<1>7. CASE UNCHANGED vars
    BY <1>1, <1>7 DEF vars
<1> QED
    BY <1>2, <1>3, <1>4, <1>5, <1>6, <1>7 DEF Next, Dispatch

(* Between batches every toplevel has been told its state, but for one     *)
(* whose focus a wl_shell surface took.                                    *)
THEOREM ConfiguredBetweenBatches == Spec => []ConfiguredAfterBatch
<1>1. Init => ToldOrQueued
    BY DEF Init, ToldOrQueued, Reachable
<1>2. Batches /\ ToldOrQueued => ConfiguredAfterBatch
  <2>1. Elems(<<>>) = {}
      BY DEF Elems
  <2> QED
      BY <2>1 DEF Batches, FreshBatch, ToldOrQueued, ConfiguredAfterBatch
<1> QED
    BY <1>1, <1>2, ToldStep, Invariant, BatchesKept, PTL DEF Spec

================================================================================
