----------------------------- MODULE FramePipeline -----------------------------
(***************************************************************************)
(* The path of a client's pixels through the compositor's main thread      *)
(* (src/compositor/main.c): wl_surface.attach, frame and commit, the two   *)
(* textures of a surface and the GL fence of an upload, has_updated_tex,   *)
(* update_surfaces and the main loop around them.                          *)
(*                                                                         *)
(* Every surface stands for a client with buffers of its own; a client is  *)
(* the environment and issues any legal request, in any order, while the   *)
(* main thread is inside wl_event_loop_dispatch.  A surface in Throttled   *)
(* belongs to a client that paces itself with frame callbacks: attach,     *)
(* frame, commit, then wait for the callback.                              *)
(***************************************************************************)
EXTENDS Integers, Sequences, FiniteSets

CONSTANTS
  Surface,    (* slots for compositor_surface objects                      *)
  Buffer,     (* the wl_buffer objects of one client                       *)
  Throttled,  (* surfaces whose client waits for wl_callback.done          *)
  TexName,    (* texture names glGenTextures may return                    *)
  MaxFrames,  (* bound: wl_surface.frame requests in the life of a surface *)
  MaxDestroyed, (* bound: wl_buffers a client destroys                     *)
  NULL,       (* C's NULL, and "nothing on the screen"                     *)
  Garbage     (* what drawing a texture name read out of bounds shows      *)

ASSUME SurfaceAssumption   == IsFiniteSet(Surface)
ASSUME ThrottledAssumption == Throttled \subseteq Surface
ASSUME TexNameAssumption   == TexName \subseteq Nat \ {0}
ASSUME BoundsAssumption    == MaxFrames \in [Surface -> Nat] /\ MaxDestroyed \in Nat
ASSUME NullAssumption      == NULL \notin Buffer /\ Garbage \notin Buffer /\ NULL # Garbage

VARIABLES
  alive,                        (* surfaces that exist in the server       *)
  listed,                       (* compositor.surface_list, as a set       *)
  wl_buffer,                    (* csfc->wl_buffer                         *)
  wl_used_buffer,               (* csfc->wl_used_buffer                    *)
  texid,                        (* csfc->texid[2]                          *)
  status,                       (* csfc->status[2]                         *)
  current_tex_index,            (* csfc->current_tex_index                 *)
  updated_tex_index,            (* csfc->updated_tex_index                 *)
  glsyncobj_tex,                (* "none", "pending" or "signaled"         *)
  ahead,                        (* fences the GPU signals before this one  *)
  pending_frame_callback_list,  (* callbacks requested, not yet committed  *)
  frame_callback_list,          (* callbacks committed, not yet fired      *)
  loop,                         (* where the main thread is                *)
  pre_csfc_num, ret,            (* locals of main()                        *)
  (* What the clients and the screen see: no control depends on these.     *)
  image,      (* the buffer whose pixels each texture holds                *)
  img_size,   (* the buffer img_w and img_h come from                      *)
  screen,     (* per surface, the pixels and the size in the last frame    *)
              (* given to eglSwapBuffers                                   *)
  content,    (* the buffer the client last made the surface's content     *)
  attached,   (* an attach since the last commit                           *)
  held,       (* buffers committed and not released since                  *)
  dead,       (* buffers the client has destroyed                          *)
  requested,  (* frame requests so far; the n-th is callback n             *)
  done        (* callbacks fired, in the order they were fired             *)

bufferVars   == <<wl_buffer, wl_used_buffer>>
textureVars  == <<texid, status, current_tex_index, updated_tex_index, image, img_size>>
fenceVars    == <<glsyncobj_tex, ahead>>
callbackVars == <<pending_frame_callback_list, frame_callback_list, requested, done>>
loopVars     == <<loop, pre_csfc_num, ret>>
clientVars   == <<content, attached, held, dead>>
vars == <<alive, listed, bufferVars, textureVars, fenceVars, callbackVars,
          loopVars, clientVars, screen>>

(* enum TexStatus.  The numbers matter: see StatusAt.                      *)
TEX_FREE     == 0
TEX_WRITING  == 1
TEX_COMPLETE == 2

Plane == {0, 1}

(* csfc->status[i].  Index -1 is the word before the array, texid[1].      *)
StatusAt(s, i) == IF i = -1 THEN texid[s][1] ELSE status[s][i]

Writing(s) == status[s][current_tex_index[s]] = TEX_WRITING

(* A rectangle of the screen nothing is drawn in.                          *)
Nothing == <<NULL, NULL>>

(* compositor_surface_create(): calloc and the assignments after it, for   *)
(* every surface to come.                                                  *)
Init ==
  /\ alive = {} /\ listed = {}
  /\ wl_buffer = [s \in Surface |-> NULL]
  /\ wl_used_buffer = [s \in Surface |-> NULL]
  /\ texid = [s \in Surface |-> [i \in Plane |-> 0]]
  /\ status = [s \in Surface |-> [i \in Plane |-> TEX_FREE]]
  /\ current_tex_index = [s \in Surface |-> 0]
  /\ updated_tex_index = [s \in Surface |-> -1]
  /\ glsyncobj_tex = [s \in Surface |-> "none"]
  /\ ahead = [s \in Surface |-> {}]
  /\ pending_frame_callback_list = [s \in Surface |-> <<>>]
  /\ frame_callback_list = [s \in Surface |-> <<>>]
  /\ loop = "dispatch" /\ pre_csfc_num = 0 /\ ret = 0
  /\ image = [s \in Surface |-> [i \in Plane |-> NULL]]
  /\ img_size = [s \in Surface |-> NULL]
  /\ screen = [s \in Surface |-> Nothing]
  /\ content = [s \in Surface |-> NULL]
  /\ attached = [s \in Surface |-> FALSE]
  /\ held = [s \in Surface |-> {}]
  /\ dead = [s \in Surface |-> {}]
  /\ requested = [s \in Surface |-> 0]
  /\ done = [s \in Surface |-> <<>>]

--------------------------------------------------------------------------------
(* Requests, handled inside wl_event_loop_dispatch.  wl_surface.destroy is *)
(* none of them: surface_destroy only logs, and the surface lives on.      *)

Serving(s) == loop = "dispatch" /\ s \in alive

CreateSurface(s) ==
  /\ loop = "dispatch" /\ s \notin alive
  /\ alive' = alive \union {s}
  /\ UNCHANGED <<listed, bufferVars, textureVars, fenceVars, callbackVars,
                 loopVars, clientVars, screen>>

(* wl_shell_get_shell_surface and xdg_shell_get_xdg_surface put the        *)
(* surface on compositor.surface_list.                                     *)
GetShellSurface(s) ==
  /\ Serving(s) /\ s \notin listed
  /\ listed' = listed \union {s}
  /\ UNCHANGED <<alive, bufferVars, textureVars, fenceVars, callbackVars,
                 loopVars, clientVars, screen>>

(* A throttled client draws its next frame when every callback has fired.  *)
MayAttach(s, b) ==
  /\ b # NULL => b \notin held[s] \union dead[s]
  /\ s \in Throttled => b # NULL /\ s \in listed /\ ~attached[s]
                        /\ Len(done[s]) = requested[s] /\ requested[s] < MaxFrames[s]

SurfaceAttach(s, b) ==
  /\ Serving(s) /\ MayAttach(s, b)
  /\ wl_buffer' = [wl_buffer EXCEPT ![s] = b]
  /\ attached' = [attached EXCEPT ![s] = TRUE]
  /\ UNCHANGED <<alive, listed, wl_used_buffer, textureVars, fenceVars,
                 callbackVars, loopVars, content, held, dead, screen>>

(* surface_frame: the new callback goes to the tail of the pending list.   *)
SurfaceFrame(s) ==
  /\ Serving(s) /\ requested[s] < MaxFrames[s]
  /\ s \in Throttled => attached[s] /\ pending_frame_callback_list[s] = <<>>
  /\ requested' = [requested EXCEPT ![s] = @ + 1]
  /\ pending_frame_callback_list' =
       [pending_frame_callback_list EXCEPT ![s] = Append(@, requested[s] + 1)]
  /\ UNCHANGED <<alive, listed, bufferVars, textureVars, fenceVars,
                 frame_callback_list, done, loopVars, clientVars, screen>>

(* The commit uploads only into a free texture; a skipped upload is not    *)
(* remembered.                                                             *)
UploadsAlways(s) == wl_buffer[s] # NULL
Uploads(s) == wl_buffer[s] # NULL /\ status[s][current_tex_index[s]] = TEX_FREE

(* glGenTextures for the planes that have no name: an unused name, the     *)
(* smallest first.                                                         *)
UsedNames == {texid[s][i] : s \in alive, i \in Plane}
GenTextures(s) ==
  IF texid[s][0] # 0 THEN UNCHANGED texid
  ELSE \E n0, n1 \in TexName \ UsedNames :
         /\ \A n \in TexName \ UsedNames : n0 <= n /\ (n # n0 => n1 <= n)
         /\ n0 # n1
         /\ texid' = [texid EXCEPT ![s] = [i \in Plane |-> IF i = 0 THEN n0 ELSE n1]]

(* glFenceSync: each surface has a fence of its own.                       *)
OneFenceForAll(s) == [t \in Surface |-> IF t = s THEN "pending" ELSE "none"]
FenceCreated(s) == [glsyncobj_tex EXCEPT ![s] = "pending"]

(* glTexImage2D or glEGLImageTargetTexture2DOES, then glFenceSync.         *)
Upload(s) ==
  LET cur == current_tex_index[s] IN
  /\ GenTextures(s)
  /\ image' = [image EXCEPT ![s][cur] = wl_buffer[s]]
  /\ img_size' = [img_size EXCEPT ![s] = wl_buffer[s]]
  /\ status' = [status EXCEPT ![s][cur] = TEX_WRITING]
  /\ glsyncobj_tex' = FenceCreated(s)
  /\ ahead' = [ahead EXCEPT ![s] = {t \in Surface \ {s} : glsyncobj_tex[t] = "pending"}]

(* A commit that skips the upload leaves the texture state as it was.      *)
SkipUpload(s) == UNCHANGED <<texid, image, img_size, status, fenceVars>>

(* wl_list_insert_list(&frame_callback_list, &pending): the pending list   *)
(* is spliced in at the head of the committed list.                        *)
ReplaceList(s) == pending_frame_callback_list[s]
SplicedList(s) == pending_frame_callback_list[s] \o frame_callback_list[s]

CommitCallbacks(s) ==
  /\ frame_callback_list' = [frame_callback_list EXCEPT ![s] = SplicedList(s)]
  /\ pending_frame_callback_list' = [pending_frame_callback_list EXCEPT ![s] = <<>>]
  /\ UNCHANGED <<requested, done>>

(* What the commit means to the client: an attached buffer becomes the     *)
(* content, and is the compositor's until it is released.                  *)
CommitContent(s) ==
  /\ content' = [content EXCEPT ![s] = IF attached[s] THEN wl_buffer[s] ELSE @]
  /\ held' = [held EXCEPT ![s] =
       IF attached[s] /\ wl_buffer[s] # NULL THEN @ \union {wl_buffer[s]} ELSE @]
  /\ attached' = [attached EXCEPT ![s] = FALSE]
  /\ UNCHANGED dead

SurfaceCommit(s) ==
  /\ Serving(s)
  /\ s \in Throttled => attached[s] /\ pending_frame_callback_list[s] # <<>>
  /\ IF Uploads(s) THEN Upload(s) ELSE SkipUpload(s)
  /\ CommitCallbacks(s)
  /\ CommitContent(s)
  /\ UNCHANGED <<alive, listed, bufferVars, current_tex_index,
                 updated_tex_index, loopVars, screen>>

(* The client destroys a wl_buffer; the surface keeps its pointers.  A     *)
(* throttled client destroys only buffers it is not waiting to get back.   *)
BufferDestroy(s, b) ==
  /\ Serving(s) /\ b \notin dead[s] /\ Cardinality(dead[s]) < MaxDestroyed
  /\ s \in Throttled => b \notin held[s] /\ ~attached[s]
  /\ dead' = [dead EXCEPT ![s] = @ \union {b}]
  /\ UNCHANGED <<alive, listed, bufferVars, textureVars, fenceVars,
                 callbackVars, loopVars, content, attached, held, screen>>

(* The client goes away: destroy_surface_resource, then                    *)
(* compositor_surface_destroy, which deletes the textures and unlinks the  *)
(* surface.  The slot is free for another surface.                         *)
Disconnect(s) ==
  /\ loop = "dispatch" /\ s \in alive
  /\ alive' = alive \ {s}
  /\ listed' = listed \ {s}
  /\ wl_buffer' = [wl_buffer EXCEPT ![s] = NULL]
  /\ wl_used_buffer' = [wl_used_buffer EXCEPT ![s] = NULL]
  /\ texid' = [texid EXCEPT ![s] = [i \in Plane |-> 0]]
  /\ status' = [status EXCEPT ![s] = [i \in Plane |-> TEX_FREE]]
  /\ current_tex_index' = [current_tex_index EXCEPT ![s] = 0]
  /\ updated_tex_index' = [updated_tex_index EXCEPT ![s] = -1]
  /\ glsyncobj_tex' = [glsyncobj_tex EXCEPT ![s] = "none"]
  /\ ahead' = [t \in Surface |-> IF t = s THEN {} ELSE ahead[t] \ {s}]
  /\ pending_frame_callback_list' = [pending_frame_callback_list EXCEPT ![s] = <<>>]
  /\ frame_callback_list' = [frame_callback_list EXCEPT ![s] = <<>>]
  /\ image' = [image EXCEPT ![s] = [i \in Plane |-> NULL]]
  /\ img_size' = [img_size EXCEPT ![s] = NULL]
  /\ content' = [content EXCEPT ![s] = NULL]
  /\ attached' = [attached EXCEPT ![s] = FALSE]
  /\ held' = [held EXCEPT ![s] = {}]
  /\ dead' = [dead EXCEPT ![s] = {}]
  /\ requested' = [requested EXCEPT ![s] = 0]
  /\ done' = [done EXCEPT ![s] = <<>>]
  /\ UNCHANGED <<loopVars, screen>>

(* handle_signal: SIGINT or SIGTERM ends the process.                      *)
HandleSignal ==
  /\ loop = "dispatch"
  /\ loop' = "out"
  /\ UNCHANGED <<alive, listed, bufferVars, textureVars, fenceVars,
                 callbackVars, pre_csfc_num, ret, clientVars, screen>>

--------------------------------------------------------------------------------
(* The GPU executes one context's commands in order, so a fence signals    *)
(* after every fence created before it.                                    *)
GpuSignal(s) ==
  /\ loop # "out" /\ glsyncobj_tex[s] = "pending" /\ ahead[s] = {}
  /\ glsyncobj_tex' = [glsyncobj_tex EXCEPT ![s] = "signaled"]
  /\ ahead' = [t \in Surface |-> ahead[t] \ {s}]
  /\ UNCHANGED <<alive, listed, bufferVars, textureVars, callbackVars,
                 loopVars, clientVars, screen>>

--------------------------------------------------------------------------------
(* The main loop.                                                          *)

has_writting_tex == \E s \in listed : Writing(s)

csfc_num == Cardinality(listed)

(* wl_event_loop_dispatch returns: pick the branch of main().              *)
DispatchReturns ==
  /\ loop = "dispatch"
  /\ loop' = IF has_writting_tex THEN "drain"
             ELSE IF csfc_num # pre_csfc_num THEN "redraw" ELSE "dispatch"
  /\ UNCHANGED <<alive, listed, bufferVars, textureVars, fenceVars,
                 callbackVars, pre_csfc_num, ret, clientVars, screen>>

(* The surfaces whose upload one pass of has_updated_tex finds complete.   *)
Ready == {s \in listed : Writing(s) /\ glsyncobj_tex[s] = "signaled"}

(* The other texture becomes current and free, this one is complete.       *)
NextTexUnwrapped(i) == i + 1
NextTex(i) == (i + 1) % 2

StatusNotFreed(s) == [status[s] EXCEPT ![current_tex_index[s]] = TEX_COMPLETE]
StatusSwapped(s) ==
  [i \in Plane |-> IF i = current_tex_index[s] THEN TEX_FREE ELSE TEX_COMPLETE]
FlippedStatus(s) ==
  [i \in Plane |-> IF i = current_tex_index[s] THEN TEX_COMPLETE ELSE TEX_FREE]

(* wl_buffer_send_release goes to the buffer of the previous upload; the   *)
(* one attached now, which need not be the one uploaded, takes its place.  *)
Released(s) == wl_used_buffer[s]
KeepUsed(s) == IF wl_used_buffer[s] = NULL THEN wl_buffer[s] ELSE wl_used_buffer[s]
NextUsed(s) == wl_buffer[s]

(* The callbacks fire in the order of the list.                            *)
FireOldest(s) == SubSeq(frame_callback_list[s], 1, Len(frame_callback_list[s]) - 1)
Fired(s) == frame_callback_list[s]

(* has_updated_tex: flip the textures, release the previous buffer, fire   *)
(* the callbacks.  A pass that finds none ready sleeps and repeats.        *)
HasUpdatedTex ==
  /\ loop = "drain" /\ Ready # {}
  /\ glsyncobj_tex' = [s \in Surface |-> IF s \in Ready THEN "none" ELSE glsyncobj_tex[s]]
  /\ updated_tex_index' =
       [s \in Surface |-> IF s \in Ready THEN current_tex_index[s] ELSE updated_tex_index[s]]
  /\ current_tex_index' =
       [s \in Surface |-> IF s \in Ready THEN NextTex(current_tex_index[s])
                          ELSE current_tex_index[s]]
  /\ status' = [s \in Surface |-> IF s \in Ready THEN FlippedStatus(s) ELSE status[s]]
  /\ held' = [s \in Surface |-> IF s \in Ready THEN held[s] \ {Released(s)} ELSE held[s]]
  /\ wl_used_buffer' =
       [s \in Surface |-> IF s \in Ready THEN NextUsed(s) ELSE wl_used_buffer[s]]
  /\ done' = [s \in Surface |-> IF s \in Ready THEN done[s] \o Fired(s) ELSE done[s]]
  /\ frame_callback_list' =
       [s \in Surface |-> IF s \in Ready THEN <<>> ELSE frame_callback_list[s]]
  /\ loop' = "draw"
  /\ UNCHANGED <<alive, listed, wl_buffer, texid, image, img_size, ahead,
                 pending_frame_callback_list, requested, pre_csfc_num, ret,
                 content, attached, dead, screen>>

(* What update_surfaces draws for s: the completed texture at the size of  *)
(* the last upload, nothing, or - when no upload has completed yet and the *)
(* word read for its status happens to be TEX_COMPLETE - whatever texid[-1]*)
(* names.                                                                  *)
Drawn(s) ==
  LET upd == updated_tex_index[s] IN
  IF s \notin listed \/ StatusAt(s, upd) # TEX_COMPLETE THEN Nothing
  ELSE <<IF upd = -1 THEN Garbage ELSE image[s][upd], img_size[s]>>

(* update_surfaces: clear, draw every listed surface, swap.  A failing     *)
(* eglSwapBuffers makes it -1.                                             *)
UpdateSurfacesUnchecked ==
  ret' = 0 /\ (screen' = [s \in Surface |-> Drawn(s)] \/ UNCHANGED screen)
UpdateSurfaces ==
  \/ ret' = 0  /\ screen' = [s \in Surface |-> Drawn(s)]
  \/ ret' = -1 /\ UNCHANGED screen

Redraw ==
  /\ loop \in {"draw", "redraw"}
  /\ UpdateSurfaces
  /\ loop' = IF loop = "draw" THEN "drain" ELSE IF ret' = -1 THEN "out" ELSE "dispatch"
  /\ pre_csfc_num' = IF loop = "redraw" THEN csfc_num ELSE pre_csfc_num
  /\ UNCHANGED <<alive, listed, bufferVars, textureVars, fenceVars,
                 callbackVars, clientVars>>

(* The inner while ends; a failed swap of its last redraw ends the loop.   *)
Drained ==
  /\ loop = "drain" /\ ~has_writting_tex
  /\ loop' = IF ret = -1 THEN "out" ELSE "dispatch"
  /\ UNCHANGED <<alive, listed, bufferVars, textureVars, fenceVars,
                 callbackVars, pre_csfc_num, ret, clientVars, screen>>

--------------------------------------------------------------------------------
Request(s) ==
  \/ CreateSurface(s)
  \/ GetShellSurface(s)
  \/ \E b \in Buffer \union {NULL} : SurfaceAttach(s, b)
  \/ SurfaceFrame(s)
  \/ SurfaceCommit(s)
  \/ \E b \in Buffer : BufferDestroy(s, b)
  \/ Disconnect(s)

MainLoop == DispatchReturns \/ HasUpdatedTex \/ Redraw \/ Drained

Next ==
  \/ \E s \in Surface : Request(s) \/ GpuSignal(s)
  \/ HandleSignal
  \/ MainLoop

Spec == Init /\ [][Next]_vars

(* The main thread keeps running, except that wl_event_loop_dispatch waits *)
(* for an event: it owes a return only when a request has left an upload   *)
(* in flight.  The GPU owes progress while has_updated_tex polls a fence   *)
(* (glClientWaitSync passes GL_SYNC_FLUSH_COMMANDS_BIT).  Clients owe      *)
(* nothing.                                                                *)
Fairness ==
  /\ WF_vars((loop # "dispatch" \/ has_writting_tex) /\ MainLoop)
  /\ WF_vars(loop = "drain" /\ \E s \in Surface : GpuSignal(s))

FairSpec == Spec /\ Fairness

--------------------------------------------------------------------------------
(* Correctness, whatever the clients do.                                   *)

PixelValue == Buffer \union {NULL, Garbage}

(* The type invariant: the indices stay inside the arrays has_updated_tex  *)
(* and surface_commit subscript with them.                                 *)
TypeOK ==
  /\ alive \subseteq Surface /\ listed \subseteq alive
  /\ wl_buffer \in [Surface -> Buffer \union {NULL}]
  /\ wl_used_buffer \in [Surface -> Buffer \union {NULL}]
  /\ texid \in [Surface -> [Plane -> TexName \union {0}]]
  /\ status \in [Surface -> [Plane -> {TEX_FREE, TEX_WRITING, TEX_COMPLETE}]]
  /\ current_tex_index \in [Surface -> Plane]
  /\ updated_tex_index \in [Surface -> Plane \union {-1}]
  /\ glsyncobj_tex \in [Surface -> {"none", "pending", "signaled"}]
  /\ ahead \in [Surface -> SUBSET Surface]
  /\ pending_frame_callback_list \in [Surface -> Seq(Nat)]
  /\ frame_callback_list \in [Surface -> Seq(Nat)]
  /\ loop \in {"dispatch", "drain", "draw", "redraw", "out"}
  /\ pre_csfc_num \in Nat /\ ret \in {0, -1}
  /\ image \in [Surface -> [Plane -> Buffer \union {NULL}]]
  /\ img_size \in [Surface -> Buffer \union {NULL}]
  /\ screen \in [Surface -> PixelValue \X PixelValue]
  /\ content \in [Surface -> Buffer \union {NULL}]
  /\ attached \in [Surface -> BOOLEAN]
  /\ held \in [Surface -> SUBSET Buffer]
  /\ dead \in [Surface -> SUBSET Buffer]
  /\ requested \in [Surface -> Nat]
  /\ done \in [Surface -> Seq(Nat)]

(* The two textures of a surface alternate: once an upload has completed,  *)
(* the texture on display is complete and never the one the next upload    *)
(* goes to, and a fence is outstanding exactly while that upload is in     *)
(* flight, so no fence is leaked and none is waited for in vain.           *)
DoubleBuffered ==
  \A s \in Surface :
    LET cur == current_tex_index[s]  upd == updated_tex_index[s] IN
    /\ (glsyncobj_tex[s] # "none") <=> (status[s][cur] = TEX_WRITING)
    /\ status[s][cur] # TEX_COMPLETE
    /\ IF upd = -1 THEN cur = 0 /\ status[s][1] = TEX_FREE
       ELSE cur = 1 - upd /\ status[s][upd] = TEX_COMPLETE

(* img_w and img_h are those of the buffer uploaded last: the one being    *)
(* uploaded or else, when no upload is in flight, the one that is drawn.   *)
SizeOfLastUpload ==
  \A s \in Surface :
    LET cur == current_tex_index[s]  upd == updated_tex_index[s] IN
    IF Writing(s) THEN img_size[s] = image[s][cur]
    ELSE upd # -1 => img_size[s] = image[s][upd]

(* A surface's texture keeps its pixels from the start of the upload until *)
(* a newer texture is on display: no commit writes into a texture that     *)
(* update_surfaces draws or that the GPU is still filling.                 *)
InUse(s) ==
  {i \in Plane : i = updated_tex_index[s] \/ status[s][i] = TEX_WRITING}
TexturesStable ==
  [][\A s \in alive \intersect alive' : \A i \in InUse(s) : image'[s][i] = image[s][i]]_vars

(* No wl_callback is lost, duplicated or answered twice: each one          *)
(* requested is pending, committed or done, and only one of the three.     *)
Elems(q) == {q[i] : i \in DOMAIN q}
CallbacksConserved ==
  \A s \in Surface :
    LET p == pending_frame_callback_list[s]  c == frame_callback_list[s]  d == done[s] IN
    /\ Elems(p) \union Elems(c) \union Elems(d) = 1..requested[s]
    /\ Len(p) + Len(c) + Len(d) = requested[s]

(* When the inner loop of main() ends, the frame last handed over shows    *)
(* the latest completed texture of every surface, or the process is about  *)
(* to exit over a failed swap: no completed upload stays undrawn.          *)
SettledScreen ==
  loop = "drain" /\ ~has_writting_tex /\ ret = 0 =>
    \A s \in Surface : screen[s] = Drawn(s)

(* The inner loop, in which no request is served, ends however many        *)
(* uploads of different clients are in flight when it starts and in        *)
(* whatever order their fences are found signaled.  That the GPU fails no  *)
(* wait is assumed (GL_WAIT_FAILED keeps the loop going, main.c:1238).     *)
DrainEnds == loop \in {"drain", "draw"} ~> loop \in {"dispatch", "out"}

(* A callback committed while the surface's upload is in flight fires,     *)
(* unless the client or the server goes away first.                        *)
CallbackFires ==
  \A s \in Surface : \A n \in 1..MaxFrames[s] :
    (s \in listed /\ Writing(s) /\ n \in Elems(frame_callback_list[s]))
      ~> (n \in Elems(done[s]) \/ s \notin listed \/ loop = "out")

--------------------------------------------------------------------------------
(* Correctness for a client that waits for wl_callback.done.               *)

(* The compositor holds the buffer on display and, while its upload is in  *)
(* flight, the one committed after it; every other buffer has been         *)
(* released, so two buffers are enough.  The next flip releases none that  *)
(* the client has destroyed: wl_used_buffer never dangles.                 *)
TwoBuffersSuffice ==
  \A s \in Throttled :
    /\ held[s] = (IF Writing(s) THEN {wl_used_buffer[s], wl_buffer[s]}
                  ELSE {wl_used_buffer[s]}) \ {NULL}
    /\ Released(s) \notin dead[s]

(* No frame is dropped: when no upload is in flight, the texture on        *)
(* display holds what the client committed last.                           *)
LatestContentDrawn ==
  \A s \in Throttled :
    content[s] # NULL /\ ~Writing(s) =>
      updated_tex_index[s] # -1 /\ image[s][updated_tex_index[s]] = content[s]

(* Every committed frame reaches the screen, unless the client or the      *)
(* server goes away first.                                                 *)
FrameShown ==
  \A s \in Throttled : \A b \in Buffer :
    (s \in listed /\ content[s] = b)
      ~> (screen[s] = <<b, b>> \/ s \notin listed \/ loop = "out")

================================================================================
