----------------------------- MODULE DrmSetupProofs ----------------------------
(***************************************************************************)
(* Theorems about DrmSetup, for any connectors, encoders and CRTCs and     *)
(* whatever the kernel says of them.                                       *)
(***************************************************************************)
EXTENDS DrmSetup, WellFoundedInduction, TLAPS

(* What the kernel says is consistent and never changes.                   *)
KernelOK ==
  /\ usable \subseteq Connector /\ encoders \subseteq Encoder
  /\ possible_crtcs \in [Encoder -> SUBSET Crtc]
  /\ crtc_id \in [Encoder -> Crtc \union {0}]
  /\ \A e \in Encoder : crtc_id[e] \in possible_crtcs[e] \union {0}
  /\ encoder_id \in [Connector -> Encoder \union {0}]
  /\ encoder_id[Chosen] \in encoders \union {0}

(* The list holds the current CRTC of every usable connector.              *)
Listed ==
  /\ pc # "parse" => modeset_list = [conn \in usable |-> CurrentCrtc(conn)]
  /\ pc \in {"mode", "crtc"} => Chosen \in usable

Found == CrtcExclusive /\ CrtcSuitable /\ FoundWhenFree

CrtcInv == KernelOK /\ Listed /\ Found

LEMMA CrtcInit == Init => CrtcInv
  BY DEF Init, KernelInit, CrtcInv, KernelOK, Listed, Found, CrtcExclusive, CrtcSuitable,
         FoundWhenFree

(* The kernel's answers stay, and with them what is computed from them.    *)
LEMMA KernelStays ==
  ASSUME [Next]_vars PROVE UNCHANGED kernelVars
  BY DEF Next, vars, kernelVars, ParseConnectors, SelectMode, ReuseCrtc, SearchCrtc, NoCrtc

(* A CRTC the connector has now and that is not another's is reused; so    *)
(* one that only the connector itself has is never passed over.            *)
LEMMA OwnIsReused ==
  ASSUME KernelOK, Listed, pc = "crtc", ~Reusable,
         NEW c \in Crtc, UsedBy(c, usable)
  PROVE  UsedBy(c, usable \ {Chosen})
<1>1. PICK conn \in usable : modeset_list[conn] = c
    BY DEF UsedBy
<1>2. CASE conn # Chosen
    BY <1>1, <1>2 DEF UsedBy
<1>3. CASE conn = Chosen
  <2>1. CurrentCrtc(Chosen) = c /\ c # 0
      BY <1>1, <1>3, IdAssumption DEF Listed
  <2>2. HasCrtc /\ crtc_id[encoder_id[Chosen]] = c
      BY <2>1 DEF CurrentCrtc, HasCrtc
  <2> QED
      BY <2>2 DEF Reusable, Shared
<1> QED
    BY <1>2, <1>3

LEMMA CrtcStep == CrtcInv /\ [Next]_vars => CrtcInv'
<1> SUFFICES ASSUME CrtcInv, [Next]_vars PROVE CrtcInv'
    OBVIOUS
<1>1. UNCHANGED kernelVars
    BY KernelStays
<1>2. KernelOK'
    BY <1>1 DEF CrtcInv, KernelOK, kernelVars
<1>3. Listed'
  <2>1. CASE ParseConnectors
      BY <1>1, <2>1 DEF ParseConnectors, Listed, CurrentCrtc, kernelVars
  <2>2. CASE SelectMode \/ ReuseCrtc \/ SearchCrtc \/ NoCrtc \/ UNCHANGED vars
      BY <1>1, <2>2 DEF SelectMode, ReuseCrtc, SearchCrtc, NoCrtc, vars, CrtcInv, Listed,
                        CurrentCrtc, kernelVars
  <2> QED
      BY <2>1, <2>2 DEF Next
<1>4. Found'
  <2> USE <1>1 DEF CrtcInv, Found, CrtcExclusive, CrtcSuitable, FoundWhenFree, kernelVars
  <2>1. CASE ParseConnectors
      BY <2>1 DEF ParseConnectors
  <2>2. CASE SelectMode
      BY <2>2 DEF SelectMode
  <2>3. CASE ReuseCrtc
      BY <2>3, IdAssumption, ChosenAssumption
         DEF ReuseCrtc, Reusable, HasCrtc, Shared, UsedBy, KernelOK
  <2>4. CASE SearchCrtc
    <3>1. PICK e \in FirstOf(Able) : encd' = e /\ crtc' \in FirstOf(Unused(e))
        BY <2>4 DEF SearchCrtc
    <3>2. e \in encoders /\ crtc' \in possible_crtcs[e] /\ ~UsedBy(crtc', usable)
        BY <3>1 DEF FirstOf, Able, Unused
    <3>3. modeset_list' = modeset_list /\ pc' = "done"
        BY <2>4 DEF SearchCrtc
    <3> QED
        BY <3>1, <3>2, <3>3 DEF UsedBy
  <2>5. CASE NoCrtc
    <3>1. ASSUME NEW e \in encoders, NEW c \in possible_crtcs[e]
          PROVE  UsedBy(c, usable \ {Chosen})
      <4>1. c \in Crtc /\ UsedBy(c, usable)
          BY <2>5 DEF NoCrtc, Able, Unused, KernelOK
      <4> QED
          BY <2>5, <4>1, OwnIsReused DEF NoCrtc
    <3>2. modeset_list' = modeset_list /\ pc' = "failed"
        BY <2>5 DEF NoCrtc
    <3> QED
        BY <3>1, <3>2 DEF UsedBy
  <2>6. CASE UNCHANGED vars
      BY <2>6 DEF vars, devVars, UsedBy
  <2> QED
      BY <2>1, <2>2, <2>3, <2>4, <2>5, <2>6 DEF Next
<1> QED
    BY <1>2, <1>3, <1>4 DEF CrtcInv

(* The chosen connector never takes the CRTC of another one of the list.   *)
THEOREM CrtcIsExclusive == Spec => []CrtcExclusive
<1>1. CrtcInv => CrtcExclusive
    BY DEF CrtcInv, Found
<1> QED
    BY <1>1, CrtcInit, CrtcStep, PTL DEF Spec

(* The encoder and the CRTC fit the connector and each other.              *)
THEOREM CrtcIsSuitable == Spec => []CrtcSuitable
<1>1. CrtcInv => CrtcSuitable
    BY DEF CrtcInv, Found
<1> QED
    BY <1>1, CrtcInit, CrtcStep, PTL DEF Spec

(* Set-up fails only when other connectors have every CRTC in question.    *)
THEOREM CrtcIsFound == Spec => []FoundWhenFree
<1>1. CrtcInv => FoundWhenFree
    BY DEF CrtcInv, Found
<1> QED
    BY <1>1, CrtcInit, CrtcStep, PTL DEF Spec

--------------------------------------------------------------------------------
(* The modes of a usable connector are listed from 1 on and never change.  *)
ModesOK == modes \in ModeLists

LEMMA ModesKept == Spec => []ModesOK
<1>1. Init => ModesOK
    BY DEF Init, KernelInit, ModesOK
<1>2. ModesOK /\ [Next]_vars => ModesOK'
    BY KernelStays DEF kernelVars, ModesOK, ModeLists
<1> QED
    BY <1>1, <1>2, PTL DEF Spec

LEMMA ModeOfList ==
  ASSUME ModesOK
  PROVE  1 \in DOMAIN modes /\ \A i \in DOMAIN modes : modes[i] \in Mode
<1>1. PICK n \in 1..MaxModes : modes \in [1..n -> Mode]
    BY DEF ModesOK, ModeLists
<1> QED
    BY <1>1

(* Every variable keeps its type: a mode is one of the connector's, and    *)
(* once set-up is done there are an encoder and a CRTC.                    *)
THEOREM TypeCorrect == Spec => []TypeOK
<1>1. Init => TypeOK
    BY DEF Init, TypeOK
<1>2. TypeOK /\ CrtcInv /\ ModesOK /\ [Next]_vars => TypeOK'
  <2> SUFFICES ASSUME TypeOK, CrtcInv, ModesOK, [Next]_vars PROVE TypeOK'
      OBVIOUS
  <2>1. UNCHANGED kernelVars
      BY KernelStays
  <2> USE <2>1 DEF TypeOK, kernelVars
  <2>2. KernelOK /\ \A conn \in usable : CurrentCrtc(conn) \in Crtc \union {0}
      BY DEF CrtcInv, KernelOK, CurrentCrtc
  <2>3. CASE ParseConnectors
      BY <2>2, <2>3 DEF ParseConnectors
  <2>4. CASE SelectMode
    <3>1. modes[1].size \in Size
        BY ModeOfList DEF Mode
    <3>2. \A i \in Fastest : i \in DOMAIN modes
        BY DEF Fastest, Matching
    <3> QED
        BY <2>4, <3>1, <3>2, ModeOfList DEF SelectMode, WinOfFirstMode
  <2>5. CASE ReuseCrtc
      BY <2>2, <2>5, ChosenAssumption DEF ReuseCrtc, Reusable, HasCrtc, KernelOK
  <2>6. CASE SearchCrtc
    <3>1. PICK e \in FirstOf(Able) : encd' = e /\ crtc' \in FirstOf(Unused(e))
        BY <2>6 DEF SearchCrtc
    <3>2. e \in Encoder /\ crtc' \in Crtc
        BY <2>2, <3>1 DEF FirstOf, Able, Unused, KernelOK
    <3> QED
        BY <2>6, <3>1, <3>2, IdAssumption DEF SearchCrtc
  <2>7. CASE NoCrtc
      BY <2>7 DEF NoCrtc, devVars
  <2>8. CASE UNCHANGED vars
      BY <2>8 DEF vars, devVars
  <2> QED
      BY <2>3, <2>4, <2>5, <2>6, <2>7, <2>8 DEF Next
<1>3. Spec => []CrtcInv
    BY CrtcInit, CrtcStep, PTL DEF Spec
<1> QED
    BY <1>1, <1>2, <1>3, ModesKept, PTL DEF Spec

--------------------------------------------------------------------------------
(* The choice of a mode.  Numbers are well founded: what holds of a number *)
(* holds of a least one, which also stands for an induction over the list. *)
LEMMA Least ==
  ASSUME NEW T \in SUBSET Nat, T # {}
  PROVE  \E x \in T : \A y \in T : x <= y
<1>1. IsWellFoundedOn(OpToRel(<, Nat), Nat)
    BY NatLessThanWellFounded
<1>2. PICK x \in T : \A y \in T : ~ (<<y, x>> \in OpToRel(<, Nat))
    BY <1>1, WFMin
<1>3. \A y \in T : ~(y < x)
    BY <1>2 DEF OpToRel
<1> QED
    BY <1>3

(* Of some of the first n members of a list of numbers one is the highest. *)
Highest(f, P, i) == i \in P /\ \A j \in P : f[j] <= f[i]

LEMMA HighestExists ==
  ASSUME NEW n \in Nat, NEW f \in [1..n -> Nat], NEW P \in SUBSET (1..n), P # {}
  PROVE  \E i \in P : Highest(f, P, i)
<1> DEFINE Upto(k) == P \intersect 1..k
           T == {k \in 0..n : Upto(k) # {} /\ ~ \E i \in P : Highest(f, Upto(k), i)}
<1>1. SUFFICES T = {}
  <2>1. Upto(n) = P
      OBVIOUS
  <2>2. n \in 0..n /\ Upto(n) # {}
      BY <2>1
  <2>3. \E i \in P : Highest(f, Upto(n), i)
      BY <1>1, <2>2
  <2> QED
      BY <2>1, <2>3
<1>2. SUFFICES ASSUME T # {} PROVE FALSE
    OBVIOUS
<1>3. PICK k \in T : \A y \in T : k <= y
  <2>1. T \in SUBSET Nat
      OBVIOUS
  <2> HIDE DEF T
  <2> QED
      BY <1>2, <2>1, Least
<1>4. k \in 1..n
    OBVIOUS
<1>5. k - 1 \in 0..n /\ k - 1 \notin T
  <2>1. ~(k <= k - 1) /\ k - 1 \in 0..n
      BY <1>4
  <2> HIDE DEF T
  <2> QED
      BY <2>1, <1>3
<1>6. Upto(k) = IF k \in P THEN Upto(k - 1) \union {k} ELSE Upto(k - 1)
    BY <1>4
<1>7. k \in P
    BY <1>5, <1>6
<1>8. CASE Upto(k - 1) = {}
  <2>1. Upto(k) = {k} /\ f[k] \in Nat
      BY <1>6, <1>7, <1>8
  <2> HIDE DEF Upto
  <2>2. Highest(f, Upto(k), k)
      BY <2>1 DEF Highest
  <2> QED
      BY <1>7, <2>2
<1>9. CASE Upto(k - 1) # {}
  <2>1. PICK i \in P : Highest(f, Upto(k - 1), i)
      BY <1>5, <1>9
  <2>2. Highest(f, Upto(k), i) \/ Highest(f, Upto(k), k)
    <3> HIDE DEF Upto
    <3>1. \A j \in P : f[j] \in Nat
        OBVIOUS
    <3>2. Upto(k - 1) \subseteq P
        BY DEF Upto
    <3> QED
        BY <1>6, <1>7, <2>1, <3>1, <3>2 DEF Highest
  <2> QED
      BY <1>7, <2>2
<1> QED
    BY <1>8, <1>9

(* A mode is found if one of the window's size has a refresh rate, and it  *)
(* is a fastest one; a mode that is found is of the window's size.         *)
LEMMA FastestOfSize ==
  ASSUME ModesOK
  PROVE  /\ \A i \in Fastest : /\ i \in DOMAIN modes /\ modes[i].size = win
                               /\ \A j \in Matching : modes[j].refresh <= modes[i].refresh
         /\ \A j \in Matching : modes[j].refresh > 0 => Fastest # {}
<1>1. \A i \in Fastest : /\ i \in DOMAIN modes /\ modes[i].size = win
                        /\ \A j \in Matching : modes[j].refresh <= modes[i].refresh
    BY DEF Fastest, Matching
<1>2. ASSUME NEW j \in Matching, modes[j].refresh > 0 PROVE Fastest # {}
  <2>1. PICK n \in 1..MaxModes : modes \in [1..n -> Mode]
      BY DEF ModesOK, ModeLists
  <2> DEFINE f == [i \in 1..n |-> modes[i].refresh]
  <2>2. n \in Nat /\ f \in [1..n -> Nat] /\ Matching \in SUBSET (1..n) /\ Matching # {}
    <3>1. n \in Nat
        OBVIOUS
    <3>2. \A i \in 1..n : modes[i].refresh \in Nat
        BY <2>1, RefreshAssumption DEF Mode
    <3>3. f \in [1..n -> Nat]
        BY <3>2
    <3>4. Matching \in SUBSET (1..n) /\ Matching # {}
        BY <2>1, <1>2 DEF Matching
    <3> HIDE DEF f
    <3> QED
        BY <3>1, <3>3, <3>4
  <2>3. \A i \in 1..n : f[i] = modes[i].refresh
      OBVIOUS
  <2> HIDE DEF f
  <2>4. PICK m \in Matching : Highest(f, Matching, m)
      BY <2>2, HighestExists
  <2> DEFINE M == {i \in Matching : Highest(f, Matching, i)}
  <2>5. PICK i \in M : \A y \in M : i <= y
    <3>1. m \in M
        BY <2>4
    <3>2. \A i \in M : i \in Nat
      <4>1. \A i \in M : i \in 1..n
          BY <2>2
      <4> HIDE DEF M
      <4> QED
          BY <4>1
    <3>3. M \in SUBSET Nat /\ M # {}
      <4> HIDE DEF M
      <4> QED
          BY <3>1, <3>2
    <3> HIDE DEF M
    <3> QED
        BY <3>3, Least
  <2>6. i \in Matching /\ \A k \in Matching : f[k] <= f[i]
      BY <2>5 DEF Highest
  <2>7. f[i] > 0
      BY <1>2, <2>2, <2>3, <2>6
  <2>8. ASSUME NEW k \in Matching, k < i PROVE f[k] < f[i]
    <3>1. k \in Nat /\ i \in Nat /\ k \in 1..n /\ i \in 1..n
        BY <2>2, <2>6
    <3>2. k \notin M
        BY <2>5, <2>8, <3>1
    <3>3. PICK l \in Matching : ~(f[l] <= f[k])
        BY <3>2 DEF Highest
    <3>4. f[l] \in Nat /\ f[k] \in Nat /\ f[i] \in Nat /\ f[l] <= f[i]
        BY <2>2, <2>6, <3>1
    <3> QED
        BY <3>3, <3>4
  <2> QED
      BY <2>2, <2>3, <2>6, <2>7, <2>8 DEF Fastest
<1> QED
    BY <1>1, <1>2

(* What a device keeps once its mode is chosen, WindowIsMode's claim.      *)
Fits ==
  /\ \/ dev_mode # NoMode /\ win = dev_mode.size /\ dev_size = dev_mode.size
     \/ dev_mode = NoMode /\ windowed
          /\ \A i \in DOMAIN modes : modes[i].size = wanted => modes[i].refresh = 0
  /\ windowed => \A i \in DOMAIN modes :
       modes[i].size = wanted /\ modes[i].refresh > 0 =>
         dev_mode # NoMode /\ dev_mode.size = wanted /\ dev_mode.refresh >= modes[i].refresh

WindowInv ==
  /\ pc \in {"parse", "mode"} => win = wanted /\ dev_mode = NoMode /\ dev_size = NoMode
  /\ pc \in {"crtc", "done"} => Fits

LEMMA ModeFits ==
  ASSUME ModesOK, WindowInv, SelectMode
  PROVE  Fits'
<1>1. /\ win = wanted /\ dev_mode = NoMode /\ dev_size = NoMode
      /\ UNCHANGED <<modes, windowed, wanted>>
    BY DEF WindowInv, SelectMode, kernelVars, optionVars
<1>2. \A i \in DOMAIN modes : modes[i] \in Mode /\ modes[i].refresh \in Nat /\ modes[i] # NoMode
    BY ModeOfList, RefreshAssumption, NoModeAssumption DEF Mode
<1>3. windowed => Matching = {i \in DOMAIN modes : modes[i].size = wanted}
    BY <1>1 DEF Matching
<1>4. CASE Matching = {}
  <2>1. dev_mode' = modes[1] /\ dev_size' = modes[1].size /\ win' = modes[1].size
      BY <1>4 DEF SelectMode, WinOfFirstMode
  <2>2. windowed => \A i \in DOMAIN modes : modes[i].size # wanted
      BY <1>3, <1>4
  <2> QED
      BY <1>1, <1>2, <2>1, <2>2, ModeOfList DEF Fits
<1>5. CASE Matching # {} /\ Fastest = {}
  <2>1. dev_mode' = NoMode /\ win' = wanted /\ windowed
      BY <1>1, <1>5 DEF SelectMode, Matching
  <2>2. \A i \in DOMAIN modes : modes[i].size = wanted => ~(modes[i].refresh > 0)
      BY <1>3, <1>5, <2>1, FastestOfSize
  <2> QED
      BY <1>1, <1>2, <2>1, <2>2 DEF Fits
<1>6. CASE Matching # {} /\ Fastest # {}
  <2>1. PICK i \in Fastest : dev_mode' = modes[i] /\ dev_size' = win
      BY <1>6 DEF SelectMode
  <2>2. win' = wanted /\ windowed
      BY <1>1, <1>6 DEF SelectMode, Matching
  <2>3. /\ i \in DOMAIN modes /\ modes[i].size = wanted
        /\ \A j \in Matching : modes[j].refresh <= modes[i].refresh
      BY <1>1, <2>1, FastestOfSize
  <2> QED
      BY <1>1, <1>2, <1>3, <2>1, <2>2, <2>3 DEF Fits
<1> QED
    BY <1>4, <1>5, <1>6

(* The window has the size of the mode, unless no mode of its size has a   *)
(* refresh rate, and a window that keeps its size has the fastest mode.    *)
THEOREM WindowHasMode == Spec => []WindowIsMode
<1>1. Init => WindowInv
    BY DEF Init, WindowInv
<1>2. WindowInv /\ ModesOK /\ [Next]_vars => WindowInv'
  <2> SUFFICES ASSUME WindowInv, ModesOK, [Next]_vars PROVE WindowInv'
      OBVIOUS
  <2>1. CASE SelectMode
      BY <2>1, ModeFits DEF SelectMode, WindowInv
  <2>2. CASE ParseConnectors \/ ReuseCrtc \/ SearchCrtc \/ NoCrtc \/ UNCHANGED vars
      BY <2>2 DEF ParseConnectors, ReuseCrtc, SearchCrtc, NoCrtc, vars, devVars, kernelVars,
                  optionVars, WindowInv, Fits
  <2> QED
      BY <2>1, <2>2 DEF Next
<1>3. WindowInv => WindowIsMode
    BY DEF WindowInv, WindowIsMode, Fits
<1> QED
    BY <1>1, <1>2, <1>3, ModesKept, PTL DEF Spec

================================================================================
