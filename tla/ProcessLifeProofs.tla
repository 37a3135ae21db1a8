--------------------------- MODULE ProcessLifeProofs ---------------------------
(***************************************************************************)
(* Theorems about ProcessLife, for every way to set up, to serve and to    *)
(* tear down, whenever the signal comes.                                   *)
(***************************************************************************)
EXTENDS ProcessLife, TLAPS

--------------------------------------------------------------------------------
(* The steps of set-up and of tear-down.                                   *)

LEMMA SetUpSteps ==
  /\ Len(SetUp) = 16 /\ DOMAIN SetUp = 1..16 /\ Head(SetUp) = SetUp[1]
  /\ SetUp[1] = "wl_display" /\ SetUp[2] = "socket" /\ SetUp[3] = "native_display"
  /\ SetUp[4] = "egl_display" /\ SetUp[5] = "config" /\ SetUp[6] = "native_window"
  /\ SetUp[7] = "surface" /\ SetUp[8] = "context" /\ SetUp[9] = "current"
  /\ SetUp[10] = "attributes" /\ SetUp[11] = "compositor" /\ SetUp[12] = "signals"
  /\ SetUp[13] = "renderer" /\ SetUp[14] = "seat" /\ SetUp[15] = "extensions"
  /\ SetUp[16] = "first_swap"
BY DEF SetUp

LEMMA TearDownSteps ==
  /\ Len(TearDown) = 7 /\ DOMAIN TearDown = 1..7 /\ Head(TearDown) = TearDown[1]
  /\ TearDown[1] = "unbind" /\ TearDown[2] = "destroy_surface"
  /\ TearDown[3] = "destroy_context" /\ TearDown[4] = "terminate"
  /\ TearDown[5] = "destroy_display" /\ TearDown[6] = "destroy_mutex"
  /\ TearDown[7] = "free"
BY DEF TearDown

(* No step occurs twice, and none in both.                                 *)
LEMMA StepsDiffer ==
  /\ \A i, j \in 1..16 : SetUp[i] = SetUp[j] => i = j
  /\ \A i, j \in 1..7 : TearDown[i] = TearDown[j] => i = j
  /\ \A i \in 1..16, j \in 1..7 : SetUp[i] # TearDown[j]
  /\ \A i \in 1..16 : SetUp[i] \notin {"serve", "ended"}
  /\ \A i \in 1..7 : TearDown[i] \notin {"serve", "ended"}
BY SetUpSteps, TearDownSteps

(* What follows a step.                                                    *)
LEMMA NextSetUp ==
  ASSUME NEW i \in 1..16
  PROVE  After(SetUp, SetUp[i], "serve") = IF i = 16 THEN "serve" ELSE SetUp[i + 1]
<1>1. (CHOOSE k \in DOMAIN SetUp : SetUp[k] = SetUp[i]) = i
    BY SetUpSteps, StepsDiffer
<1> QED
    BY <1>1, SetUpSteps DEF After

LEMMA NextTearDown ==
  ASSUME NEW i \in 1..7
  PROVE  After(TearDown, TearDown[i], "ended") = IF i = 7 THEN "ended" ELSE TearDown[i + 1]
<1>1. (CHOOSE k \in DOMAIN TearDown : TearDown[k] = TearDown[i]) = i
    BY TearDownSteps, StepsDiffer
<1> QED
    BY <1>1, TearDownSteps DEF After

(* The thread starts before the signals are blocked.                       *)
LEMMA ThreadUnmasked == ~Masked("input")
<1>1. SelectInSeq(SetUp, LAMBDA s : s = "signals") = 12
  <2> DEFINE I == {i \in 1..Len(SetUp) : SetUp[i] = "signals"}
  <2>1. I = {12}
      BY SetUpSteps
  <2>2. SelectInSeq(SetUp, LAMBDA s : s = "signals") = IF I # {} THEN Min(I) ELSE 0
      BY DEF SelectInSeq
  <2> HIDE DEF I
  <2> QED
      BY <2>1, <2>2 DEF Min
<1>2. SelectInSeq(SetUp, LAMBDA s : s = "native_display") = 3
  <2> DEFINE I == {i \in 1..Len(SetUp) : SetUp[i] = "native_display"}
  <2>1. I = {3}
      BY SetUpSteps
  <2>2. SelectInSeq(SetUp, LAMBDA s : s = "native_display") = IF I # {} THEN Min(I) ELSE 0
      BY DEF SelectInSeq
  <2> HIDE DEF I
  <2> QED
      BY <2>1, <2>2 DEF Min
<1> QED
    BY <1>1, <1>2 DEF Masked

--------------------------------------------------------------------------------
SettingUp == pc \in ToSet(SetUp)
TearingDown == pc \in ToSet(TearDown)

(* What is made is what comes before a step of set-up, the one the main    *)
(* thread is at as long as it sets up.                                     *)
MadeUpTo(k) ==
  /\ \A j \in 1..16 : SetUp[j] \in made <=> j < k
  /\ \A i \in 1..16 : pc = SetUp[i] => i = k
  /\ pc = "serve" => k = 17
MadeInOrder == \E k \in 1..17 : MadeUpTo(k)

(* Who tears down, and what he finds.                                      *)
TearsDown ==
  /\ by # NULL => (TearingDown \/ pc = "ended") /\ "wl_display" \in made
  /\ TearingDown => by # NULL
  /\ destroyed # {} => by # NULL
  /\ by = "signal" => signal = "taken" /\ thread # "running" /\ "compositor" \in made
  /\ signal = "pending" => thread # "running" /\ "signals" \in made

InSeat == callback # "none" => thread = "running"

(* What egl_terminate has done when it comes to a step.                    *)
UndoneInOrder ==
  /\ "free" \in destroyed => pc = "ended"
  /\ pc = "destroy_surface" => "unbind" \in destroyed
  /\ pc = "destroy_context" => {"unbind", "destroy_surface"} \subseteq destroyed
  /\ pc = "terminate" => {"unbind", "destroy_surface", "destroy_context"} \subseteq destroyed /\
                         "context" \in made
  /\ EglTornDown

LifeInv == TypeOK /\ MadeInOrder /\ TearsDown /\ InSeat /\ UndoneInOrder /\ DefinedElsewhere

LEMMA LifeInit == Init => LifeInv
<1> SUFFICES ASSUME Init PROVE LifeInv
    OBVIOUS
<1>1. /\ pc = SetUp[1] /\ made = {} /\ destroyed = {} /\ config = NULL /\ thread = "none"
      /\ callback = "none" /\ focus = FALSE /\ signal = "none" /\ by = NULL
      /\ refused = FALSE /\ undefined = FALSE /\ extensions \in BOOLEAN
    BY SetUpSteps DEF Init
<1>2. TypeOK
  <2>1. pc \in ToSet(SetUp)
      BY <1>1, SetUpSteps DEF ToSet
  <2> QED
      BY <1>1, <2>1 DEF TypeOK
<1>3. MadeInOrder
  <2>1. MadeUpTo(1)
      BY <1>1, StepsDiffer DEF MadeUpTo
  <2> QED
      BY <2>1 DEF MadeInOrder
<1>4. TearsDown /\ InSeat /\ UndoneInOrder /\ DefinedElsewhere
  <2>1. ~TearingDown
    <3>1. \A j \in 1..7 : pc # TearDown[j]
        BY <1>1, StepsDiffer
    <3> QED
        BY <3>1, TearDownSteps DEF TearingDown, ToSet
  <2>2. UndoneInOrder
      BY <1>1, SetUpSteps DEF UndoneInOrder, EglTornDown, PastEgl
  <2> QED
      BY <1>1, <2>1, <2>2, NullAssumption DEF TearsDown, InSeat, DefinedElsewhere
<1> QED
    BY <1>2, <1>3, <1>4 DEF LifeInv

(* Setting up, tearing down, serving and having ended exclude each other.  *)
LEMMA Phases ==
  /\ SettingUp <=> \E i \in 1..16 : pc = SetUp[i]
  /\ TearingDown <=> \E i \in 1..7 : pc = TearDown[i]
  /\ Contains(SetUp, pc) <=> SettingUp
  /\ Contains(TearDown, pc) <=> TearingDown
  /\ SettingUp => ~TearingDown /\ pc \notin {"serve", "ended"}
  /\ TearingDown => pc \notin {"serve", "ended"}
<1>1. /\ SettingUp <=> \E i \in 1..16 : pc = SetUp[i]
      /\ Contains(SetUp, pc) <=> \E i \in 1..16 : pc = SetUp[i]
    BY SetUpSteps DEF SettingUp, ToSet, Contains
<1>2. /\ TearingDown <=> \E i \in 1..7 : pc = TearDown[i]
      /\ Contains(TearDown, pc) <=> \E i \in 1..7 : pc = TearDown[i]
    BY TearDownSteps DEF TearingDown, ToSet, Contains
<1> QED
    BY <1>1, <1>2, StepsDiffer

(* Setting up begins with a wl_display, EGL's display and surface are made *)
(* before the context, and the compositor before the signals.              *)
LEMMA MadeBefore ==
  ASSUME MadeInOrder
  PROVE  /\ "context" \in made => {"egl_display", "surface"} \subseteq made
         /\ "signals" \in made => {"native_display", "compositor"} \subseteq made
         /\ made # {} /\ made \subseteq ToSet(SetUp) => "wl_display" \in made
         /\ pc = "serve" => "wl_display" \in made
         /\ \A i \in 2..16 : pc = SetUp[i] => "wl_display" \in made
<1>1. PICK k \in 1..17 : MadeUpTo(k)
    BY DEF MadeInOrder
<1>2. \A j \in 1..16 : SetUp[j] \in made <=> j < k
    BY <1>1 DEF MadeUpTo
<1>3. /\ "egl_display" \in made <=> 4 < k
      /\ "surface" \in made <=> 7 < k
      /\ "context" \in made <=> 8 < k
      /\ "signals" \in made <=> 12 < k
      /\ "compositor" \in made <=> 11 < k
      /\ "native_display" \in made <=> 3 < k
      /\ "wl_display" \in made <=> 1 < k
  <2>1. {1, 3, 4, 7, 8, 11, 12} \subseteq 1..16
      OBVIOUS
  <2> QED
      BY <1>2, <2>1, SetUpSteps
<1>4. \A i \in 1..16 : pc = SetUp[i] => i = k
    BY <1>1 DEF MadeUpTo
<1>5. pc = "serve" => k = 17
    BY <1>1 DEF MadeUpTo
<1>6. made # {} /\ made \subseteq ToSet(SetUp) => 1 < k
    BY <1>2, SetUpSteps DEF ToSet
<1> QED
    BY <1>3, <1>4, <1>5, <1>6

(* Before tear-down has done anything.                                     *)
LEMMA NothingUndone ==
  ASSUME destroyed' = {}, pc' = "unbind" \/ pc' \notin ToSet(TearDown)
  PROVE  UndoneInOrder'
<1>1. pc' \notin {"destroy_surface", "destroy_context", "terminate", "destroy_display",
                 "destroy_mutex", "free"}
    BY TearDownSteps DEF ToSet
<1> QED
    BY <1>1 DEF UndoneInOrder, EglTornDown, PastEgl

(* A step of set-up makes one more thing; only a missing extension string  *)
(* is undefined.                                                           *)
LEMMA SetUpKeeps ==
  ASSUME LifeInv, SetUpStep
  PROVE  LifeInv'
<1>1. /\ Running /\ SettingUp /\ by = NULL /\ destroyed = {}
      /\ made' = made \union {pc} /\ pc' = After(SetUp, pc, "serve")
      /\ config' = IF pc = "config" THEN find_egl_config ELSE config
      /\ pc = "config" => find_egl_config # NULL
      /\ thread' = IF pc = "native_display" THEN "running" ELSE thread
      /\ undefined' = (pc = "extensions" /\ ~extensions)
      /\ UNCHANGED <<configs, extensions, destroyed, callback, focus, signal, by, refused>>
    BY Phases DEF SetUpStep, worldVars, Running, LifeInv, TearsDown
<1>2. PICK k \in 1..17 : MadeUpTo(k)
    BY DEF LifeInv, MadeInOrder
<1>3. k \in 1..16 /\ pc = SetUp[k]
    BY <1>1, <1>2, Phases DEF MadeUpTo
<1>4. pc' = IF k = 16 THEN "serve" ELSE SetUp[k + 1]
    BY <1>1, <1>3, NextSetUp
<1>5. MadeInOrder'
  <2>1. \A j \in 1..16 : SetUp[j] \in made' <=> j < k + 1
    <3>1. \A j \in 1..16 : SetUp[j] \in made' <=> SetUp[j] \in made \/ j = k
        BY <1>1, <1>3, StepsDiffer
    <3> QED
        BY <1>2, <1>3, <3>1 DEF MadeUpTo
  <2>2. \A j \in 1..16 : pc' = SetUp[j] => j = k + 1
      BY <1>3, <1>4, StepsDiffer
  <2>3. pc' = "serve" => k + 1 = 17
      BY <1>3, <1>4, StepsDiffer
  <2>4. MadeUpTo(k + 1)'
      BY <2>1, <2>2, <2>3 DEF MadeUpTo
  <2> QED
      BY <1>3, <2>4 DEF MadeInOrder
<1>6. pc' \in ToSet(SetUp) \union {"serve"} /\ pc \in ToSet(SetUp)
    BY <1>3, <1>4, SetUpSteps DEF ToSet
<1>7. TypeOK'
  <2>1. find_egl_config \in {NULL, Asked}
      BY DEF find_egl_config
  <2>2. made' \subseteq ToSet(SetUp) /\ config' \in {NULL, Asked}
        /\ (config' = NULL => "config" \notin made')
      BY <1>1, <1>6, <2>1 DEF LifeInv, TypeOK
  <2> QED
      BY <1>1, <1>6, <2>2 DEF LifeInv, TypeOK
<1>8. ~TearingDown'
  <2>1. \A j \in 1..7 : pc' # TearDown[j]
      BY <1>3, <1>4, StepsDiffer
  <2> QED
      BY <2>1, TearDownSteps DEF TearingDown, ToSet
<1>9. TearsDown'
  <2>1. signal = "pending" => pc # "native_display"
    <3>1. signal = "pending" => 12 < k
        BY <1>2, SetUpSteps DEF LifeInv, TearsDown, MadeUpTo
    <3> QED
        BY <1>3, <3>1, SetUpSteps
  <2> QED
      BY <1>1, <1>8, <2>1, NullAssumption DEF LifeInv, TearsDown
<1>10. InSeat' /\ UndoneInOrder'
    BY <1>1, <1>8, NothingUndone DEF LifeInv, InSeat, TearingDown
<1>11. DefinedElsewhere'
  <2>1. pc = "extensions" => pc' = "first_swap"
    <3>1. 15 \in 1..16 /\ (pc = SetUp[15] => k = 15)
        BY <1>3, StepsDiffer
    <3>2. k = 15 => pc' = SetUp[16]
        BY <1>4
    <3> QED
        BY <3>1, <3>2, SetUpSteps
  <2> QED
      BY <1>1, <2>1 DEF DefinedElsewhere
<1> QED
    BY <1>5, <1>7, <1>9, <1>10, <1>11 DEF LifeInv

(* Where a step leads that ends the process or goes on to the tear-down.   *)
LEMMA Leads ==
  /\ pc' = "ended" => ~SettingUp' /\ ~TearingDown' /\ pc' # "serve"
  /\ pc' = "serve" => ~SettingUp' /\ ~TearingDown'
  /\ \A i \in 1..7 : pc' = TearDown[i] =>
       TearingDown' /\ ~SettingUp' /\ pc' \notin {"serve", "ended"}
<1>1. TearingDown' <=> \E i \in 1..7 : pc' = TearDown[i]
    BY TearDownSteps DEF TearingDown, ToSet
<1>2. SettingUp' <=> \E i \in 1..16 : pc' = SetUp[i]
    BY SetUpSteps DEF SettingUp, ToSet
<1> QED
    BY <1>1, <1>2, StepsDiffer

(* A step that makes nothing and does not go back to setting up.           *)
LEMMA MadeStays ==
  ASSUME MadeInOrder, made' = made, pc' = pc \/ (~SettingUp' /\ pc' # "serve")
  PROVE  MadeInOrder'
<1>1. PICK k \in 1..17 : MadeUpTo(k)
    BY DEF MadeInOrder
<1>2. (\E i \in 1..16 : pc' = SetUp[i]) => SettingUp'
    BY SetUpSteps DEF SettingUp, ToSet
<1>3. MadeUpTo(k)'
    BY <1>1, <1>2 DEF MadeUpTo
<1> QED
    BY <1>3 DEF MadeInOrder

(* A step that changes nothing of what is made or undone.                  *)
LEMMA UndoneStays ==
  ASSUME UndoneInOrder, UNCHANGED <<made, destroyed, refused>>, pc' \in {pc, "ended"}
  PROVE  UndoneInOrder'
  BY DEF UndoneInOrder, EglTornDown, PastEgl

LEMMA SetUpFailsKeeps ==
  ASSUME LifeInv, SetUpFails
  PROVE  LifeInv'
<1>1. /\ Running /\ SettingUp /\ by = NULL /\ destroyed = {}
      /\ \/ pc \in {"socket", "native_window"} /\ pc' = "ended" /\ UNCHANGED by
         \/ pc \in MayFail /\ pc' = TearDown[1] /\ by' = "main"
      /\ UNCHANGED <<worldVars, made, destroyed, config, threadVars, focus, signal, refused,
                     undefined>>
  <2>1. pc \in {"socket", "native_window"} \union MayFail
      BY DEF SetUpFails
  <2>2. SettingUp
      BY <2>1, SetUpSteps DEF MayFail, SettingUp, ToSet
  <2> QED
      BY <2>2, Phases, TearDownSteps DEF SetUpFails, LifeInv, TearsDown
<1>2. ~SettingUp' /\ pc' # "serve" /\ (TearingDown' \/ pc' = "ended")
      /\ (TearingDown' => by' = "main")
    BY <1>1, Leads
<1>3. "wl_display" \in made
    BY <1>1, MadeBefore, SetUpSteps DEF LifeInv, MayFail
<1>4. TypeOK'
    BY <1>1, <1>2 DEF LifeInv, TypeOK, worldVars, threadVars, TearingDown
<1>5. MadeInOrder'
    BY <1>1, <1>2, MadeStays DEF LifeInv
<1>6. TearsDown'
    BY <1>1, <1>2, <1>3, NullAssumption DEF LifeInv, TearsDown, threadVars
<1>7. UndoneInOrder'
  <2>1. pc' = "ended" => pc' \notin ToSet(TearDown)
      BY <1>2, Leads DEF TearingDown
  <2> QED
      BY <1>1, <2>1, NothingUndone, TearDownSteps
<1>8. InSeat' /\ DefinedElsewhere'
    BY <1>1 DEF LifeInv, InSeat, DefinedElsewhere, threadVars, Running
<1> QED
    BY <1>4, <1>5, <1>6, <1>7, <1>8 DEF LifeInv

(* The main loop gives up, because of a swap or of the signal.             *)
LEMMA ServeEndsKeeps ==
  ASSUME LifeInv, SwapFails \/ HandleSignal
  PROVE  LifeInv'
<1>1. /\ Running /\ pc = "serve" /\ by = NULL /\ destroyed = {} /\ pc' = TearDown[1]
      /\ \/ by' = "main" /\ signal' = signal
         \/ by' = "signal" /\ signal = "pending" /\ signal' = "taken"
      /\ UNCHANGED <<worldVars, made, destroyed, config, threadVars, focus, refused, undefined>>
    BY TearDownSteps, StepsDiffer, Phases
    DEF SwapFails, HandleSignal, HandlerGoesTo, LifeInv, TearsDown
<1>2. TearingDown' /\ ~SettingUp' /\ pc' \notin {"serve", "ended"}
    BY <1>1, Leads
<1>3. "wl_display" \in made /\ ("signals" \in made => "compositor" \in made)
    BY <1>1, MadeBefore DEF LifeInv
<1>4. TypeOK'
    BY <1>1, <1>2 DEF LifeInv, TypeOK, worldVars, threadVars, TearingDown
<1>5. MadeInOrder'
    BY <1>1, <1>2, MadeStays DEF LifeInv
<1>6. TearsDown'
    BY <1>1, <1>2, <1>3, NullAssumption DEF LifeInv, TearsDown, threadVars
<1>7. UndoneInOrder'
    BY <1>1, NothingUndone, TearDownSteps
<1>8. InSeat' /\ DefinedElsewhere'
    BY <1>1 DEF LifeInv, InSeat, DefinedElsewhere, threadVars, Running
<1> QED
    BY <1>4, <1>5, <1>6, <1>7, <1>8 DEF LifeInv

(* The input thread, which uses what is destroyed only when main() tears   *)
(* down.                                                                   *)
LEMMA ThreadKeeps ==
  ASSUME LifeInv, FocusChanges \/ ThreadEnds \/ Enter \/ Lock \/ Send
  PROVE  LifeInv'
<1>1. /\ Running
      /\ UNCHANGED <<worldVars, pc, made, destroyed, config, signal, by, refused>>
      /\ thread' = thread \/ (thread' = "ended" /\ callback' = "none")
      /\ thread' \in {"none", "running", "ended"} /\ focus' \in BOOLEAN
      /\ callback' \in {"none", "entered", "sending"}
      /\ callback' # "none" => thread' = "running"
      /\ undefined' \in BOOLEAN
      /\ undefined' => thread' = "running" /\ destroyed # {}
  <2> USE DEF InThread, threadVars, worldVars
  <2>1. /\ Running /\ ~undefined /\ undefined \in BOOLEAN /\ focus \in BOOLEAN
        /\ thread \in {"none", "running", "ended"} /\ callback \in {"none", "entered", "sending"}
        /\ callback # "none" => thread = "running"
      BY DEF FocusChanges, ThreadEnds, Enter, Lock, Send, Running, LifeInv, TypeOK, InSeat
  <2>2. CASE FocusChanges \/ ThreadEnds \/ Enter
    <3>1. undefined' \in BOOLEAN /\ ~undefined'
        BY <2>1, <2>2 DEF FocusChanges, ThreadEnds, Enter
    <3>2. CASE FocusChanges
      <4>1. focus' \in BOOLEAN
          BY <2>1, <3>2 DEF FocusChanges
      <4> QED
          BY <2>1, <3>1, <3>2, <4>1 DEF FocusChanges
    <3>3. CASE ThreadEnds \/ Enter
        BY <2>1, <3>1, <3>3 DEF ThreadEnds, Enter
    <3> QED
        BY <2>2, <3>2, <3>3
  <2>3. CASE Lock \/ Send
    <3>1. /\ callback # "none" /\ callback' \in {"none", "sending"} /\ thread' = thread /\ focus' = focus
          /\ UNCHANGED <<worldVars, pc, made, destroyed, config, signal, by, refused>>
        BY <2>3 DEF Lock, Send
    <3>2. undefined' \in BOOLEAN /\ (undefined' => destroyed # {})
        BY <2>3 DEF Lock, Send
    <3> QED
        BY <2>1, <3>1, <3>2
  <2> QED
      BY <2>2, <2>3
<1>2. TypeOK'
    BY <1>1 DEF LifeInv, TypeOK, worldVars
<1>3. MadeInOrder'
    BY <1>1, MadeStays DEF LifeInv
<1>4. TearsDown'
    BY <1>1 DEF LifeInv, TearsDown, TearingDown
<1>5. InSeat' /\ UndoneInOrder'
    BY <1>1, UndoneStays DEF LifeInv, InSeat
<1>6. DefinedElsewhere'
  <2>1. undefined' => by' = "main" /\ thread' = "running"
      BY <1>1 DEF LifeInv, TearsDown, TypeOK
  <2> QED
      BY <2>1 DEF DefinedElsewhere
<1> QED
    BY <1>2, <1>3, <1>4, <1>5, <1>6 DEF LifeInv

(* The signal kills the process while the input thread runs.               *)
LEMMA SignalKeeps ==
  ASSUME LifeInv, SignalComes
  PROVE  LifeInv'
<1>1. /\ Running /\ signal = "none" /\ by # "signal"
      /\ \/ signal' = "pending" /\ pc' = pc /\ "signals" \in made /\ thread # "running"
         \/ signal' = "taken" /\ pc' = "ended"
      /\ UNCHANGED <<worldVars, made, destroyed, config, threadVars, focus, by, refused, undefined>>
    BY ThreadUnmasked DEF SignalComes, LifeInv, TearsDown, Masked
<1>2. pc' = pc \/ (~SettingUp' /\ ~TearingDown' /\ pc' = "ended")
    BY <1>1, Leads
<1>3. TypeOK'
    BY <1>1, <1>2 DEF LifeInv, TypeOK, worldVars, threadVars
<1>4. MadeInOrder'
    BY <1>1, <1>2, MadeStays DEF LifeInv
<1>5. TearsDown'
    BY <1>1, <1>2 DEF LifeInv, TearsDown, TearingDown, threadVars
<1>6. UndoneInOrder'
    BY <1>1, UndoneStays DEF LifeInv
<1>7. InSeat' /\ DefinedElsewhere'
    BY <1>1 DEF LifeInv, InSeat, DefinedElsewhere, threadVars, Running
<1> QED
    BY <1>3, <1>4, <1>5, <1>6, <1>7 DEF LifeInv

(* A step of tear-down undoes one more thing.                              *)
LEMMA UndoKeeps ==
  ASSUME LifeInv, Undo
  PROVE  LifeInv'
<1>1. /\ Running /\ TearingDown /\ by # NULL /\ (pc \in OfEgl => Undoes[pc] \in made)
      /\ destroyed' = destroyed \union {pc} /\ pc' = After(TearDown, pc, "ended")
      /\ undefined' = \/ Undoes[pc] \notin made
                      \/ pc = "destroy_mutex" /\ (callback = "sending" \/ "free" \in destroyed)
      /\ UNCHANGED <<worldVars, made, config, threadVars, focus, signal, by, refused>>
    BY Phases DEF Undo, LifeInv, TearsDown
<1>2. PICK i \in 1..7 : pc = TearDown[i]
    BY <1>1, Phases
<1>3. pc' = IF i = 7 THEN "ended" ELSE TearDown[i + 1]
    BY <1>1, <1>2, NextTearDown
<1>4. /\ ~SettingUp' /\ pc' # "serve" /\ (TearingDown' \/ pc' = "ended")
      /\ pc' = "ended" <=> i = 7
  <2>1. i # 7 => i + 1 \in 1..7
      OBVIOUS
  <2> QED
      BY <1>3, <2>1, Leads
<1>5. pc \in ToSet(TearDown)
    BY <1>1 DEF TearingDown
<1>6. TypeOK'
    BY <1>1, <1>4, <1>5 DEF LifeInv, TypeOK, worldVars, threadVars, TearingDown
<1>7. MadeInOrder'
    BY <1>1, <1>4, MadeStays DEF LifeInv
<1>8. TearsDown'
    BY <1>1, <1>4 DEF LifeInv, TearsDown, threadVars
<1>9. UndoneInOrder'
  <2>1. "free" \in destroyed' => pc' = "ended"
    <3>1. "free" = TearDown[7] /\ 7 \in 1..7
        BY TearDownSteps
    <3>2. "free" \notin destroyed
        BY <1>1, Phases DEF LifeInv, UndoneInOrder
    <3> QED
        BY <1>1, <1>2, <1>4, <3>1, <3>2, StepsDiffer
  <2>2. /\ pc = "unbind" => pc' = "destroy_surface"
        /\ pc = "destroy_surface" => pc' = "destroy_context"
        /\ pc = "destroy_context" => pc' = "terminate"
        /\ pc = "terminate" => pc' = "destroy_display"
        /\ pc \notin OfEgl => pc' \notin OfEgl
      BY <1>2, <1>3, TearDownSteps DEF OfEgl
  <2>3. /\ pc = "destroy_surface" => "unbind" \in destroyed
        /\ pc = "destroy_context" => {"unbind", "destroy_surface"} \subseteq destroyed
        /\ pc = "terminate" => {"unbind", "destroy_surface", "destroy_context"} \subseteq destroyed
        /\ pc = "terminate" => "context" \in made
        /\ EglTornDown
      BY DEF LifeInv, UndoneInOrder
  <2>4. pc = "destroy_context" => "context" \in made
      BY <1>1 DEF OfEgl, Undoes
  <2>5. CASE pc \in OfEgl
    <3>1. PastEgl' => pc = "terminate" \/ PastEgl
        BY <1>1, <2>2, <2>5 DEF PastEgl, OfEgl
    <3>2. EglTornDown'
        BY <1>1, <2>3, <2>5, <3>1 DEF EglTornDown, OfEgl
    <3> QED
        BY <1>1, <2>1, <2>2, <2>3, <2>4, <2>5, <3>2 DEF UndoneInOrder, OfEgl
  <2>6. CASE pc \notin OfEgl
    <3>1. pc \in {"destroy_display", "destroy_mutex", "free"}
        BY <1>2, <2>6, TearDownSteps DEF OfEgl
    <3>2. EglTornDown'
        BY <1>1, <2>3, <3>1 DEF EglTornDown, PastEgl
    <3> QED
        BY <2>1, <2>2, <2>6, <3>2 DEF UndoneInOrder, OfEgl
  <2> QED
      BY <2>5, <2>6
<1>10. InSeat'
    BY <1>1 DEF LifeInv, InSeat, threadVars
<1>11. DefinedElsewhere'
  <2>1. "free" \notin destroyed
      BY <1>1, Phases DEF LifeInv, UndoneInOrder
  <2>2. Undoes[pc] \notin made => "compositor" \notin made
    <3>1. "wl_display" \in made
        BY <1>1 DEF LifeInv, TearsDown
    <3>2. pc \in {"unbind", "destroy_surface", "destroy_context", "terminate", "destroy_display",
                  "destroy_mutex", "free"}
        BY <1>2, TearDownSteps
    <3> QED
        BY <1>1, <3>1, <3>2 DEF OfEgl, Undoes
  <2>3. by \in {"main", "signal"}
      BY <1>1 DEF LifeInv, TypeOK
  <2>4. undefined' => by = "main" /\ ("compositor" \notin made \/ thread = "running")
      BY <1>1, <2>1, <2>2, <2>3 DEF LifeInv, TearsDown, InSeat
  <2> QED
      BY <1>1, <2>4 DEF DefinedElsewhere, threadVars
<1> QED
    BY <1>6, <1>7, <1>8, <1>9, <1>10, <1>11 DEF LifeInv

(* EGL gives up: had it been made current, it has refused.                 *)
LEMMA EglStopsKeeps ==
  ASSUME LifeInv, EglStops
  PROVE  LifeInv'
<1>1. /\ Running /\ pc \in OfEgl /\ pc' = TearDown[5] /\ refused' = (Undoes[pc] \in made)
      /\ UNCHANGED <<worldVars, made, destroyed, config, threadVars, focus, signal, by, undefined>>
    BY TearDownSteps DEF EglStops
<1>2. TearingDown /\ by # NULL
    BY <1>1, TearDownSteps, Phases DEF OfEgl, LifeInv, TearsDown
<1>3. TearingDown' /\ ~SettingUp' /\ pc' \notin {"serve", "ended"}
    BY <1>1, Leads
<1>4. TypeOK'
    BY <1>1, <1>3 DEF LifeInv, TypeOK, worldVars, threadVars, TearingDown
<1>5. MadeInOrder'
    BY <1>1, <1>3, MadeStays DEF LifeInv
<1>6. TearsDown'
    BY <1>1, <1>2, <1>3 DEF LifeInv, TearsDown, threadVars
<1>7. UndoneInOrder'
  <2>1. "free" \notin destroyed
      BY <1>2, Phases DEF LifeInv, UndoneInOrder
  <2>2. ASSUME "context" \in made PROVE refused'
    <3>1. {"egl_display", "surface", "context"} \subseteq made
        BY <2>2, MadeBefore DEF LifeInv
    <3>2. Undoes[pc] \in {"egl_display", "surface", "context"}
        BY <1>1 DEF OfEgl, Undoes
    <3> QED
        BY <1>1, <3>1, <3>2
  <2>3. pc' = "destroy_display" /\ UNCHANGED <<made, destroyed>>
      BY <1>1, TearDownSteps
  <2>4. EglTornDown'
      BY <2>2, <2>3 DEF LifeInv, UndoneInOrder, EglTornDown
  <2> QED
      BY <2>1, <2>3, <2>4 DEF UndoneInOrder
<1>8. InSeat' /\ DefinedElsewhere'
    BY <1>1 DEF LifeInv, InSeat, DefinedElsewhere, threadVars, Running
<1> QED
    BY <1>4, <1>5, <1>6, <1>7, <1>8 DEF LifeInv

LEMMA LifeStep == LifeInv /\ [Next]_vars => LifeInv'
<1> SUFFICES ASSUME LifeInv, [Next]_vars PROVE LifeInv'
    OBVIOUS
<1>1. CASE SetUpStep
    BY <1>1, SetUpKeeps
<1>2. CASE SetUpFails
    BY <1>2, SetUpFailsKeeps
<1>3. CASE SwapFails \/ HandleSignal
    BY <1>3, ServeEndsKeeps
<1>4. CASE FocusChanges \/ ThreadEnds \/ Enter \/ Lock \/ Send
    BY <1>4, ThreadKeeps
<1>5. CASE SignalComes
    BY <1>5, SignalKeeps
<1>6. CASE Undo
    BY <1>6, UndoKeeps
<1>7. CASE EglStops
    BY <1>7, EglStopsKeeps
<1>8. CASE UNCHANGED vars
  <2>1. TypeOK' /\ InSeat' /\ DefinedElsewhere' /\ TearsDown'
      BY <1>8 DEF vars, worldVars, threadVars, LifeInv, TypeOK, InSeat, DefinedElsewhere, TearsDown,
                  TearingDown
  <2>2. MadeInOrder' /\ UndoneInOrder'
      BY <1>8, MadeStays, UndoneStays DEF vars, LifeInv
  <2> QED
      BY <2>1, <2>2 DEF LifeInv
<1> QED
    BY <1>1, <1>2, <1>3, <1>4, <1>5, <1>6, <1>7, <1>8 DEF Next, MainThread

--------------------------------------------------------------------------------
(* Every variable keeps its type.                                          *)
THEOREM TypeCorrect == Spec => []TypeOK
<1>1. LifeInv => TypeOK
    BY DEF LifeInv
<1> QED
    BY <1>1, LifeInit, LifeStep, PTL DEF Spec

(* Nothing undefined happens but for the three reasons DefinedElsewhere    *)
(* names: no extension string, no compositor to tear down, or main()       *)
(* tearing down under the input thread.                                    *)
THEOREM UndefinedForAReason == Spec => []DefinedElsewhere
<1>1. LifeInv => DefinedElsewhere
    BY DEF LifeInv
<1> QED
    BY <1>1, LifeInit, LifeStep, PTL DEF Spec

(* handle_signal tears down only what no input thread uses any more.       *)
THEOREM SignalIsAlone == Spec => []SignalTearsDownAlone
<1>1. LifeInv => SignalTearsDownAlone
    BY DEF LifeInv, TearsDown, SignalTearsDownAlone
<1> QED
    BY <1>1, LifeInit, LifeStep, PTL DEF Spec

(* Whatever fails, in set-up or in tear-down, EGL's display is terminated  *)
(* only with nothing left in it, and left only when set-up had not got as  *)
(* far as the context or EGL refused to undo what was made.                *)
THEOREM EglIsTornDown == Spec => []EglTornDown
<1>1. LifeInv => EglTornDown
    BY DEF LifeInv, UndoneInOrder
<1> QED
    BY <1>1, LifeInit, LifeStep, PTL DEF Spec
================================================================================
