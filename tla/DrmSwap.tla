-------------------------------- MODULE DrmSwap --------------------------------
(***************************************************************************)
(* The swap of the DRM window system (winsys_swap of winsys_drm.c, called  *)
(* by egl_swap): the buffer objects the main thread locks and releases,    *)
(* the kernel's page flips, and the events that end the wait for them.     *)
(*                                                                         *)
(* A flip asked for with an event carries the address of the variable      *)
(* waiting_for_flip of that call.  When a call gives up its wait, the      *)
(* event still comes, and its address is then one of a returned call.      *)
(***************************************************************************)
CONSTANTS
  Buffer,      (* the buffer objects of the gbm_surface                    *)
  NULL

ASSUME NullAssumption == NULL \notin Buffer

VARIABLES
  vsync,       (* option -v of the program                                 *)
  pc,          (* "idle" outside of egl_swap, "submit" before the CRTC is  *)
               (* set or the flip asked for, "wait" in the loop after it,  *)
               (* "out" after the main loop                                *)
  fb_next, s_fb_del,
  waiting_for_flip,
  framebuffer, (* of each buffer object: "none", "added", or "failed" when *)
               (* drmModeAddFB2 has failed for it                          *)
  locked,      (* the buffer objects locked by the program                 *)
  (* The kernel.                                                           *)
  crtc,        (* the buffer object scanned out                            *)
  flip,        (* the one a pending flip will show                         *)
  flip_event,  (* the call whose variable the pending flip's event names:  *)
               (* "none", "this" or a "past" one                           *)
  unread,      (* such calls of the events not yet read                    *)
  (* Whether a wait was ever given up; no code reads this.                 *)
  abandoned

swapVars   == <<pc, fb_next, s_fb_del, waiting_for_flip>>
bufferVars == <<framebuffer, locked>>
kernelVars == <<crtc, flip, flip_event, unread>>
vars == <<vsync, swapVars, bufferVars, kernelVars, abandoned>>

Init ==
  /\ vsync \in BOOLEAN
  /\ pc = "idle" /\ fb_next = NULL /\ s_fb_del = NULL
  /\ waiting_for_flip = FALSE
  /\ framebuffer = [b \in Buffer |-> "none"] /\ locked = {}
  /\ crtc = NULL /\ flip = NULL /\ flip_event = "none" /\ unread = {}
  /\ abandoned = FALSE

--------------------------------------------------------------------------------
(* The main thread.                                                        *)

(* egl_swap: eglSwapBuffers hands over a buffer object that is not locked, *)
(* which winsys_swap locks.  drm_fb_get_from_bo adds a framebuffer for it  *)
(* the first time and keeps it, also when that failed.                     *)
GetFb(b, result) == [framebuffer EXCEPT ![b] = IF @ = "none" THEN result ELSE @]

EglSwap(b) ==
  /\ pc = "idle" /\ b \notin locked
  /\ fb_next' = b /\ locked' = locked \union {b}
  /\ \E result \in {"added", "failed"} : framebuffer' = GetFb(b, result)
  /\ pc' = "submit"
  /\ UNCHANGED <<vsync, s_fb_del, waiting_for_flip, kernelVars, abandoned>>

(* drm_fb_get_from_bo finds no memory for a buffer object that has no      *)
(* framebuffer yet: winsys_swap returns -1 and leaves it locked.           *)
EglSwapWithoutFb(b) ==
  /\ pc = "idle" /\ b \notin locked
  /\ framebuffer[b] = "none"
  /\ locked' = locked \union {b}
  /\ UNCHANGED <<vsync, swapVars, framebuffer, kernelVars, abandoned>>

(* With every buffer object locked eglSwapBuffers fails, egl_swap returns  *)
(* -1 and main() leaves its loop.                                          *)
EglSwapFails ==
  /\ pc = "idle" /\ locked = Buffer
  /\ pc' = "out"
  /\ UNCHANGED <<vsync, fb_next, s_fb_del, waiting_for_flip, bufferVars, kernelVars, abandoned>>

(* gbm_surface_release_buffer(fb_next->bo)                                 *)
Release == locked' = locked \ {fb_next}

(* winsys_swap returns -1, which egl_swap ignores.                         *)
ReturnError == Release /\ pc' = "idle" /\ UNCHANGED s_fb_del

(* The end of winsys_swap: the buffer object just submitted is released.   *)
Finish == Release /\ pc' = "idle" /\ s_fb_del' = fb_next

(* The first swap sets the CRTC.                                           *)
SetCrtc ==
  /\ pc = "submit" /\ s_fb_del = NULL /\ framebuffer[fb_next] = "added"
  /\ crtc' = fb_next
  /\ Finish
  /\ UNCHANGED <<vsync, fb_next, waiting_for_flip, framebuffer, flip, flip_event, unread,
                 abandoned>>

SetCrtcErrorUnreleased == locked' = locked /\ pc' = "idle" /\ UNCHANGED s_fb_del
SetCrtcError == ReturnError

SetCrtcFails ==
  /\ pc = "submit" /\ s_fb_del = NULL
  /\ SetCrtcError
  /\ UNCHANGED <<vsync, fb_next, waiting_for_flip, framebuffer, kernelVars, abandoned>>

(* The flags of a flip, and what a call does after it.                     *)
EventWithoutVsync == IF vsync THEN "none" ELSE "this"
EventAsked == IF vsync THEN "this" ELSE "none"

WaitsWithoutVsync == ~vsync
Waits == vsync

(* A later flip: the kernel takes it, is busy with the one before, or      *)
(* refuses it.  After a busy flip the wait is for an event, too.           *)
PageFlip ==
  /\ pc = "submit" /\ s_fb_del # NULL
  /\ flip = NULL /\ framebuffer[fb_next] = "added"
  /\ flip' = fb_next /\ flip_event' = EventAsked
  /\ IF Waits
     THEN /\ pc' = "wait" /\ waiting_for_flip' = TRUE
          /\ UNCHANGED <<s_fb_del, locked>>
     ELSE Finish /\ UNCHANGED waiting_for_flip
  /\ UNCHANGED <<vsync, fb_next, framebuffer, crtc, unread, abandoned>>

PageFlipBusy ==
  /\ pc = "submit" /\ s_fb_del # NULL
  /\ flip # NULL
  /\ Release
  /\ IF Waits
     THEN pc' = "wait" /\ waiting_for_flip' = TRUE /\ UNCHANGED s_fb_del
     ELSE pc' = "idle" /\ s_fb_del' = fb_next /\ UNCHANGED waiting_for_flip
  /\ UNCHANGED <<vsync, fb_next, framebuffer, kernelVars, abandoned>>

PageFlipRefused ==
  /\ pc = "submit" /\ s_fb_del # NULL
  /\ ReturnError
  /\ UNCHANGED <<vsync, fb_next, waiting_for_flip, framebuffer, kernelVars, abandoned>>

(* drmHandleEvent reads all events; page_flip_handler clears the variable  *)
(* an event names.  That of a past call may have had the same address.     *)
HandleEvent ==
  /\ pc = "wait" /\ waiting_for_flip /\ unread # {}
  /\ \/ waiting_for_flip' = FALSE
     \/ "this" \notin unread /\ UNCHANGED waiting_for_flip
  /\ unread' = {}
  /\ UNCHANGED <<vsync, pc, fb_next, s_fb_del, bufferVars, crtc, flip, flip_event, abandoned>>

(* The variable of this call goes out of scope.                            *)
Past(call) == IF call = "this" THEN "past" ELSE call

HandleEventFails ==
  /\ pc = "wait" /\ waiting_for_flip
  /\ ReturnError
  /\ waiting_for_flip' = FALSE
  /\ flip_event' = Past(flip_event) /\ unread' = {Past(call) : call \in unread}
  /\ abandoned' = TRUE
  /\ UNCHANGED <<vsync, fb_next, framebuffer, crtc, flip>>

WaitEnds ==
  /\ pc = "wait" /\ ~waiting_for_flip
  /\ Finish
  /\ flip_event' = Past(flip_event) /\ unread' = {Past(call) : call \in unread}
  /\ UNCHANGED <<vsync, fb_next, waiting_for_flip, framebuffer, crtc, flip, abandoned>>

--------------------------------------------------------------------------------
(* The kernel shows the buffer object of the pending flip.                 *)
VBlank ==
  /\ flip # NULL
  /\ crtc' = flip /\ flip' = NULL
  /\ unread' = unread \union ({flip_event} \ {"none"})
  /\ flip_event' = "none"
  /\ UNCHANGED <<vsync, swapVars, bufferVars, abandoned>>

Swap ==
  \/ SetCrtc \/ SetCrtcFails
  \/ PageFlip \/ PageFlipBusy \/ PageFlipRefused
  \/ HandleEvent \/ WaitEnds

Next ==
  \/ \E b \in Buffer : EglSwap(b) \/ EglSwapWithoutFb(b)
  \/ EglSwapFails
  \/ Swap \/ HandleEventFails
  \/ VBlank

Spec == Init /\ [][Next]_vars

(* A call that can go on does, and the kernel completes a flip.            *)
Fairness == WF_vars(Swap) /\ WF_vars(VBlank)
FairSpec == Spec /\ Fairness

--------------------------------------------------------------------------------
(* A flip's event names the variable of a call only while that call waits. *)
TypeOK ==
  /\ vsync \in BOOLEAN /\ abandoned \in BOOLEAN /\ waiting_for_flip \in BOOLEAN
  /\ pc \in {"idle", "submit", "wait", "out"}
  /\ fb_next \in Buffer \union {NULL} /\ s_fb_del \in Buffer \union {NULL}
  /\ pc \in {"submit", "wait"} => fb_next \in Buffer
  /\ framebuffer \in [Buffer -> {"none", "added", "failed"}]
  /\ locked \subseteq Buffer
  /\ crtc \in Buffer \union {NULL} /\ flip \in Buffer \union {NULL}
  /\ flip_event \in {"none", "this", "past"} /\ unread \subseteq {"this", "past"}
  /\ flip_event = "this" \/ "this" \in unread => pc = "wait"

(* Whichever way winsys_swap returns once it has a framebuffer, whether    *)
(* drmModeAddFB2 made it or not: the buffer object is given back.  What    *)
(* stays locked outside of a swap are the buffer objects for which         *)
(* drm_fb_get_from_bo found no memory, which the code leaks, and only      *)
(* when all have leaked does EGL run out of them.                          *)
LocksReturned ==
  pc \in {"idle", "out"} =>
    /\ \A b \in locked : framebuffer[b] = "none"
    /\ pc = "out" => \A b \in Buffer : framebuffer[b] = "none"

(* With vsync, and as long as no wait was given up, no flip finds the      *)
(* kernel busy, and the screen shows the last framebuffer that winsys_swap *)
(* submitted with success.                                                 *)
LatestShown ==
  vsync /\ ~abandoned =>
    /\ pc = "submit" => flip = NULL
    /\ pc = "idle" /\ s_fb_del # NULL => crtc = s_fb_del

(* A swap returns, unless a wait was given up: then the next one may find  *)
(* the kernel busy and wait for an event that names another variable.      *)
SwapReturns == pc \in {"submit", "wait"} ~> pc = "idle" \/ abandoned

================================================================================
