----------------------------- MODULE DrmSwapProofs -----------------------------
(***************************************************************************)
(* Theorems about DrmSwap, for any set of buffer objects.                  *)
(***************************************************************************)
EXTENDS DrmSwap, TLAPS

--------------------------------------------------------------------------------
(* Every variable keeps its type, and an event names the variable of a     *)
(* call only while the call waits.                                         *)
THEOREM TypeCorrect == Spec => []TypeOK
<1>1. Init => TypeOK
    BY DEF Init, TypeOK
<1>2. TypeOK /\ [Next]_vars => TypeOK'
  <2> SUFFICES ASSUME TypeOK, [Next]_vars PROVE TypeOK'
      OBVIOUS
  <2> USE NullAssumption DEF TypeOK, kernelVars, bufferVars, swapVars
  <2>1. ASSUME NEW b \in Buffer, EglSwap(b) PROVE TypeOK'
      BY <2>1 DEF EglSwap, GetFb
  <2>12. ASSUME NEW b \in Buffer, EglSwapWithoutFb(b) PROVE TypeOK'
      BY <2>12 DEF EglSwapWithoutFb
  <2>13. CASE EglSwapFails
      BY <2>13 DEF EglSwapFails
  <2>2. CASE SetCrtc
      BY <2>2 DEF SetCrtc, Finish, Release
  <2>3. CASE SetCrtcFails
      BY <2>3 DEF SetCrtcFails, SetCrtcError, ReturnError, Release
  <2>4. CASE PageFlip
      BY <2>4 DEF PageFlip, EventAsked, Waits, Finish, Release
  <2>5. CASE PageFlipBusy
      BY <2>5 DEF PageFlipBusy, Waits, Release
  <2>6. CASE PageFlipRefused
      BY <2>6 DEF PageFlipRefused, ReturnError, Release
  <2>7. CASE HandleEvent
      BY <2>7 DEF HandleEvent
  <2>8. CASE WaitEnds
      BY <2>8 DEF WaitEnds, Past, Finish, Release
  <2>9. CASE HandleEventFails
      BY <2>9 DEF HandleEventFails, Past, ReturnError, Release
  <2>10. CASE VBlank
      BY <2>10 DEF VBlank
  <2>11. CASE UNCHANGED vars
      BY <2>11 DEF vars
  <2> QED
      BY <2>1, <2>2, <2>3, <2>4, <2>5, <2>6, <2>7, <2>8, <2>9, <2>10, <2>11, <2>12, <2>13
         DEF Next, Swap
<1> QED
    BY <1>1, <1>2, PTL DEF Spec

--------------------------------------------------------------------------------
(* What is locked is the buffer object of the call in progress, or has no  *)
(* framebuffer; and the one in progress has one, made or not.              *)
LockInv ==
  /\ \A b \in locked : b = fb_next \/ framebuffer[b] = "none"
  /\ pc \in {"submit", "wait"} => framebuffer[fb_next] # "none"
  /\ LocksReturned

(* Every return of winsys_swap after drm_fb_get_from_bo has succeeded      *)
(* gives the buffer object back; those for which it failed stay locked,    *)
(* and EGL runs out of buffer objects only when it has failed for all.     *)
THEOREM LocksAreReturned == Spec => []LocksReturned
<1>1. Init => LockInv
    BY DEF Init, LockInv, LocksReturned
<1>2. TypeOK /\ LockInv /\ [Next]_vars => LockInv'
  <2> SUFFICES ASSUME TypeOK, LockInv, [Next]_vars PROVE LockInv'
      OBVIOUS
  <2> USE DEF LockInv, LocksReturned, kernelVars, bufferVars, swapVars
  <2>1. ASSUME NEW b \in Buffer, EglSwap(b) PROVE LockInv'
      BY <2>1 DEF EglSwap, GetFb, TypeOK
  <2>2. ASSUME NEW b \in Buffer, EglSwapWithoutFb(b) PROVE LockInv'
      BY <2>2 DEF EglSwapWithoutFb
  <2>3. CASE EglSwapFails
      BY <2>3 DEF EglSwapFails
  <2>4. CASE SetCrtc \/ WaitEnds
      BY <2>4 DEF SetCrtc, WaitEnds, Finish, Release
  <2>5. CASE SetCrtcFails \/ PageFlipRefused \/ HandleEventFails
      BY <2>5 DEF SetCrtcFails, PageFlipRefused, HandleEventFails, SetCrtcError, ReturnError,
                  Release
  <2>6. CASE PageFlip
      BY <2>6 DEF PageFlip, Finish, Release
  <2>7. CASE PageFlipBusy
      BY <2>7 DEF PageFlipBusy, Release
  <2>8. CASE HandleEvent \/ VBlank \/ UNCHANGED vars
      BY <2>8 DEF HandleEvent, VBlank, vars
  <2> QED
      BY <2>1, <2>2, <2>3, <2>4, <2>5, <2>6, <2>7, <2>8 DEF Next, Swap
<1>3. LockInv => LocksReturned
    BY DEF LockInv
<1> QED
    BY <1>1, <1>2, <1>3, TypeCorrect, PTL DEF Spec

--------------------------------------------------------------------------------
(* With vsync and no wait given up: outside of the wait nothing is pending *)
(* or unread and the screen shows the last submission.                     *)
Settled ==
  /\ flip = NULL /\ unread = {}
  /\ s_fb_del # NULL => crtc = s_fb_del

(* In the wait the flip is pending, or shown and its event unread, or      *)
(* both are over.                                                          *)
Flipping ==
  \/ waiting_for_flip /\ flip = fb_next /\ flip_event = "this" /\ unread = {}
  \/ waiting_for_flip /\ flip = NULL /\ crtc = fb_next /\ unread = {"this"}
  \/ ~waiting_for_flip /\ flip = NULL /\ crtc = fb_next /\ unread = {}

FlipInv ==
  vsync /\ ~abandoned =>
    /\ pc # "wait" => Settled
    /\ pc = "wait" => Flipping

(* With vsync the screen shows the last framebuffer submitted, as long as  *)
(* no wait was given up.                                                   *)
THEOREM LatestIsShown == Spec => []LatestShown
<1>1. Init => FlipInv
    BY DEF Init, FlipInv, Settled
<1>2. TypeOK /\ FlipInv /\ [Next]_vars => FlipInv'
  <2> SUFFICES ASSUME TypeOK, FlipInv, [Next]_vars, vsync', ~abandoned'
               PROVE  FlipInv'
      BY DEF FlipInv
  <2>1. vsync /\ ~abandoned
    <3>1. ~HandleEventFails
        BY DEF HandleEventFails
    <3>2. vsync' = vsync /\ abandoned' = abandoned
        BY <3>1 DEF Next, Swap, vars, EglSwap, EglSwapWithoutFb, EglSwapFails, SetCrtc,
                    SetCrtcFails, PageFlip, PageFlipBusy, PageFlipRefused, HandleEvent, WaitEnds, VBlank
    <3> QED
        BY <3>2
  <2>2. /\ pc # "wait" => Settled
        /\ pc = "wait" => Flipping
      BY <2>1 DEF FlipInv
  <2> USE NullAssumption DEF FlipInv, Settled, Flipping, kernelVars, bufferVars, swapVars
  <2>3. ASSUME NEW b \in Buffer, EglSwap(b) PROVE FlipInv'
      BY <2>2, <2>3 DEF EglSwap
  <2>13. ASSUME NEW b \in Buffer, EglSwapWithoutFb(b) PROVE FlipInv'
      BY <2>2, <2>13 DEF EglSwapWithoutFb
  <2>14. CASE EglSwapFails
      BY <2>2, <2>14 DEF EglSwapFails
  <2>4. CASE SetCrtc
      BY <2>2, <2>4 DEF SetCrtc, Finish
  <2>5. CASE SetCrtcFails \/ PageFlipRefused
      BY <2>2, <2>5 DEF SetCrtcFails, PageFlipRefused, SetCrtcError, ReturnError
  <2>6. CASE PageFlip
      BY <2>1, <2>2, <2>6 DEF PageFlip, EventAsked, Waits
  <2>7. CASE PageFlipBusy
      BY <2>2, <2>7 DEF PageFlipBusy
  <2>8. CASE HandleEvent
      BY <2>2, <2>8 DEF HandleEvent
  <2>9. CASE WaitEnds
      BY <2>2, <2>9 DEF WaitEnds, Finish
  <2>10. CASE VBlank
    <3>1. flip \in Buffer /\ fb_next # NULL => flip # NULL
        BY <2>10 DEF VBlank, TypeOK
    <3> QED
        BY <2>2, <2>10, <3>1 DEF VBlank
  <2>11. CASE UNCHANGED vars
      BY <2>2, <2>11 DEF vars
  <2>12. ~HandleEventFails
      BY DEF HandleEventFails
  <2> QED
      BY <2>3, <2>4, <2>5, <2>6, <2>7, <2>8, <2>9, <2>10, <2>11, <2>12, <2>13, <2>14
         DEF Next, Swap
<1>3. FlipInv => LatestShown
    BY DEF FlipInv, Settled, LatestShown
<1> QED
    BY <1>1, <1>2, <1>3, TypeCorrect, PTL DEF Spec

================================================================================
