# A TLA+ model of rvgpu-wlproxy

`rvgpu-wlproxy` is a small Wayland compositor: it accepts clients on a socket,
uploads their buffers to textures, draws them one over the other and hands the
frame to a window system (DRM, Wayland, X11 or XCB), whose input events it sends
to the surface that has the focus. This directory holds TLA+ modules
that model it, the TLC configurations that check them, and proofs that
TLAPS checks.

## 1. Inventory

Two threads matter. The **main thread** runs `main()` of `src/compositor/main.c`:
flush the clients, `wl_event_loop_dispatch`, then upload-and-draw. The **input
thread** belongs to the window system under `src/common/winsys` and calls the
callbacks of `src/compositor/wayland_seat.c`. The two threads share `focused_csfc`, the
surfaces, the client list and the connections; `event_mutex` covers only the
sending of events.

| component | state | operations | what is hard | what makes it correct |
|---|---|---|---|---|
| Frame pipeline (`main.c`: `surface_attach`, `surface_frame`, `surface_commit`, `has_updated_tex`, `update_surfaces`, main loop) | per surface: attached and used buffer, two textures with a status each, current and updated index, fence, pending and committed callbacks; `pre_csfc_num`, `ret` | attach, frame, commit, create, disconnect; flip, draw, swap | GPU completion interleaves with requests; index -1 before the first flip; the inner loop serves nobody; failed swaps | no commit touches a texture in use; no callback lost or doubled; the loop ends; a completed upload is drawn; buffers come back |
| Shell and focus (`main.c`: `wl_shell`, `xdg_wm_base`, `xdg_send_configure_event`, `compositor_surface_destroy`) | `surface_list`, `focused_csfc`, `shell_surface`, `toplevel` with its pending state, idle tasks | roles, first commit, fullscreen, destroy, hang-up | idle tasks run after the batch that queued them, over objects that may be gone; a dying client hands the focus to its own siblings | focus is the topmost live surface and is activated; every toplevel knows its state after a batch |
| Seat (`wayland_seat.c`) | per client: pointer, keyboard and touch resource; per surface: `pointer_focused`, `keyboard_focused`; modifiers | bind, get, release; motion, button, key, touch | input thread against main thread without a common lock | events only to a surface that was entered, through an object of its client; modifiers told when they change |
| DRM page flips (`winsys_drm.c`: `winsys_swap`; `egl_swap`) | framebuffers, locked buffer objects, the last one submitted, the wait | set the CRTC, flip, wait, release | a busy or refused flip, a wait cut short and its late event | every buffer given back; the screen keeps up; swaps return |
| DRM mode setting (`winsys_drm.c`: `create_drm_device`) | connectors with their CRTCs, the chosen mode | parse, choose mode, find CRTC | shared CRTCs, no mode of the size asked for | a free CRTC that fits, found when there is one; window and mode agree |
| DRM input (`winsys_drm.c`: libinput and udev) | the devices chosen, `s_cursor_pos`, which functions are set | choice by class and environment; keys, motions, touches | a device of several classes, several devices for one key or finger; events before start-up ends | no class of devices missed; keys and contacts told as they are; the cursor on the screen |
| Nested window systems (`winsys_wayland.c`, `winsys_x11.c`, `winsys_xcb.c`) | the library's queue, readers and buffer; globals, seat, pointer position | prepare, poll, read, dispatch, flush on two threads; swap | which thread reads and dispatches; interrupted polls; events left in a queue | sleepers wake; events told once, in order, with their position; swaps return; pings answered |
| Set-up, tear-down and signals (`main.c`, `util_egl.c`) | what is made and undone, the input thread, the signal mask | set-up with its failures, `handle_signal`, the end of `main()` | failures half way; an input thread that is never stopped; who gets a signal | what was created is undone, once, and not used after that |
| EGL (`util_egl.c`) | display, surface, context, configuration | init, terminate, swap, queries | `egl_terminate` gives up half way | part of the row above, and of page flips |
| Renderer (`util_render2d.c`, `util_shader.c`) | the matrices, the texture coordinates | compose, draw | a matrix written while it is read; order of the operations | every corner on its pixel |
| Other globals and requests (`wl_output`, regions), environment, logs, assertions | none that is read | - | - | - |
| Generated protocol code (`src/third_party`) | tables | - | - | - |

## 2. Plan

In order of what a failure would cost:

1. `FramePipeline` - done: model, three runs, eight theorems.
2. `ShellFocus` implementing `FocusStack` - done: model, one run, six theorems.
3. `SeatInput`, over `FocusStack` - done: model, one run, five theorems.
4. `DrmSwap`, `DrmSetup` - done: models, a run and theorems each.
5. `InputDevices` - done: model, one run, five theorems.
6. `HostEvents`, for the three nested window systems - done: model, two runs, one finding, four
   theorems.
7. `ProcessLife` - done: model, one run, four theorems. `Render2d` - done: model, one run, two
   theorems.

Left, in order: links of `wl_list` for a second role request and for the frame callbacks of a
client that hangs up; touch contacts by client in `SeatInput`; the window's geometry and the
fullscreen toggle of `winsys_wayland.c`.

## 3. Modules

* `FramePipeline.tla` - the state of `compositor_surface` and of `main()`.
  `loop` is the main thread's position: `"dispatch"` inside
  `wl_event_loop_dispatch`, `"drain"` at the test of the inner `while`,
  `"draw"` before `update_surfaces` inside it, `"redraw"` before the one in the
  `else` branch, `"out"` after the loop or the signal handler. One action per
  request handler, each with everything the handler does: `SurfaceCommit` is
  `glGenTextures`, the upload, the fence and the callbacks. `HasUpdatedTex` is
  one pass over the list with every surface found ready; a pass that finds none
  only sleeps. A texture's content is the buffer it was uploaded from (`image`);
  sizes are the buffer they were read from (`img_size`). `StatusAt` follows the
  memory layout of `compositor.h`: index -1 of `status` is `texid[1]`.
* `ShellFocus.tla` - roles, `surface_list`, focus and idle tasks. A
  `wl_event_loop_dispatch` is a *batch*: each ready client has one turn
  (requests, or its hang-up), then the idle tasks run in order. `leaving` holds
  the surfaces of a client that hung up and that libwayland still has to
  destroy, in the order of their ids. A task whose surface or toplevel is gone
  may crash the process: a nondeterministic choice, for a read of freed memory. `stage` is what
  the client of a toplevel has come to: its first initial commit waits for an answer
  (`"awaiting"`), an initial commit after an unmap does too and gets none (`"remapping"`).
* `FocusStack.tla` - the abstract specification: raise, drop, focus on the top.
* `SeatInput.tla` - the clients' devices (`client_data`), the flags `pointer_focused` and
  `keyboard_focused`, the modifiers, and the callbacks of the input thread. It takes
  stacking and focus from `FocusStack` (`Stack == INSTANCE FocusStack`), which `ShellFocus`
  implements, and so composes with any behaviour of the shell. A callback has two steps:
  `StartCallback` reads `focused_csfc` and finds the resource without a lock, and one of
  `SendMotion`, `SendButton`, `SendKey` and `SendTouch` is the part under `event_mutex`. The
  main thread's requests fall between the two. When one of them moves the focus or ends
  a client there, that callback is `raced`: it may come through with what it reads after the change,
  or go wrong. A callback that goes wrong, or that uses a resource its client released, has in C
  read freed memory or a NULL pointer: the ghost `undefined` becomes true. A race that did no
  harm leaves no trace: the next callback starts with `raced` false. Keymap contents are left
  out; the modifiers are one bit; a pointer position is inside the surface, outside of it,
  or the (-1, -1) of a pointer that left the window; one finger touches, and which client
  has the contact is not followed. The touch callbacks
  exist in builds with `USE_TOUCH`. A client in `Orderly` binds `wl_compositor` once and asks
  for each device once; the others do what they like.
* `DrmSwap.tla` - `winsys_swap` under `egl_swap`. `pc` is where the call is: before the CRTC is set
  or the flip asked for (`"submit"`), or in the wait (`"wait"`). The kernel's part is `crtc`,
  `flip`, its event and the events not yet read; an event carries the address of
  `waiting_for_flip`, which is `"this"` call's or, after a wait was cut short, one of a `"past"`
  call, in which case reading it may or may not clear this call's variable. An asynchronous
  flip only completes earlier, which the model does not tell apart. `EglSwapWithoutFb` is the return
  of `winsys_swap` that keeps its buffer object locked, for want of memory for a framebuffer; when all
  buffer objects are lost that way `eglSwapBuffers` fails and the main loop ends (`"out"`).
* `DrmSetup.tla` - `create_drm_device`: parse the connectors, `SelectMode`, then `ReuseCrtc`,
  `SearchCrtc` or `NoCrtc` for the three ways out of `modeset_find_crtc`. The loops over lists are
  sets with the same choice (`Fastest`, `FirstOf`).
* `InputDevices.tla` - `StartLoop` is `use_input_device_init_from_udev` and the opening of the
  devices: with udev's list and the environment as inputs, `SpecifiedOrAll` and `Mice` are the nodes the
  code collects per class, in udev's order, `NULL` standing for a device it passes over; `AddAll`
  puts them into one list with `add_string_to_list`, which skips what is already there. The main
  thread sets `s_modeset_dev` and then the six functions, one step each, while the input
  thread delivers; what comes before its function is set is lost. libinput's own state is `held` and
  `fingers`; `key_told` and `touch_told` are what the compositor heard last. A slot in `astray`
  is one whose events do not pair up: a finger went down before the functions were set, two
  touchscreens use the slot, or a contact was cancelled. The screen's size may be 0, as it is when no
  mode was copied.
* `HostEvents.tla` - `wire` is what the host has sent, `queue` what the library has read, `unsent`
  what it has buffered. EGL waits for its frame event in a queue of its own, so that event is the flag
  `frame` beside the `wire`. `pc` is where each thread is: `"prepare"`, `"flush"`, `"poll"`, `"read"`,
  asleep in `wl_display_read_events` (`"wait"`), or dispatching with an event in `handling`.
  `reader_count` and `last_error` are libwayland's, modelled from its use here. The host announces its
  globals one by one, and a read finds those that have come. The main thread is in `phase`
  `"display"` until its one `wl_display_dispatch` is over, then in `"window"` (or `"failed"`, when a global
  is not bound yet) while the compositor sets its three functions one step each, then in `"serve"`. An
  event handled before its function is set is dropped: `told` has it with the place
  `Untold`, and `early` counts the events sent until then. Pointer handlers store a position and
  read it again, one coordinate at a time, because handlers of both threads share it. Under X11 and
  XCB the event thread is at `"poll"`, `"XPending"` or `"next"`. `XPending` reads only when Xlib's queue is
  empty. `XNext` takes an event; before it tells of a key it may wait for the keymap, and
  that round trip reads what has come into the queue. `ReadReply` is a round trip of the main thread. The
  ghost `strayed` holds the events that came into the queue unseen by `poll`; `odd` remembers that the
  globals came in pieces (`"cut"`), that both threads had input in hand (`"race"`), and that the event
  thread read the frame event a swap was about to wait for (`"missed"`).
* `ProcessLife.tla` - `main()` as the sequence `SetUp` and the tear-down as the sequence
  `TearDown`, with the failure of each step, the input thread that runs from
  `native_display` on, and a signal at any moment. `undefined` is set where C leaves the
  behaviour undefined: `strstr` of NULL, an uninitialised `compositor`, a destroyed or freed mutex.
  `made` and `destroyed` show what is never undone: the socket, the native display and the native
  window, on every path.
* `Render2d.tla` - the matrices of `util_render2d.c` as functions of 16 cells with exact numbers, one
  action per operation of `draw_2d_texture_in`. `matrix_mult` works on a memory of named
  matrices, because its result may be one of its operands. Its specification is made of `RenderInit`,
  `RenderNext` and `RenderSpec`, so that one module can extend it together with `FramePipeline`.
* `MCFramePipeline.tla`, `MCShellFocus.tla`, `MCSeatInput.tla`, `MCDrmSetup.tla`,
  `MCInputDevices.tla`, `MCRender2d.tla` - instances for TLC.
* `FramePipelineProofs.tla`, `ShellFocusProofs.tla`, `SeatInputProofs.tla`, `DrmSwapProofs.tla`,
  `DrmSetupProofs.tla`, `InputDevicesProofs.tla`, `HostEventsProofs.tla`,
  `ProcessLifeProofs.tla` - the proofs. Those about `Render2d` are the last part of
  `FramePipelineProofs.tla`.

Ghost variables (what the clients, the host and the screen see, what happened so far, and nothing
that control depends on) are declared last in each module.

Abstractions: pixel formats and buffer kinds (shm and EGL buffers take the same path through
the state), the draw itself, serials, output events, memory exhaustion but for that of `drm_fb_get_from_bo`.
`wl_surface.destroy` only logs in the code, so it is no action. Requests that libwayland or the handlers ignore are
left out. In `ShellFocus` a surface asks for a role once and an xdg_surface for
a toplevel once.

## 4. Runs

| run | shows | bounds |
|---|---|---|
| `frame_mixed` | `TypeOK`, `DoubleBuffered`, `SettledScreen`, `TexturesStable` with a client that does anything beside one that waits for its callbacks | 2 surfaces, 2 buffers each, 1 callback each, symmetry |
| `frame_callbacks` | `CallbacksConserved`, `CallbackFires` | 1 surface, 2 buffers, 3 callbacks |
| `frame_paced` | what a client that waits may rely on: `TwoBuffersSuffice`, `LatestContentDrawn`, `FrameShown`; and that the inner loop ends with uploads of both clients in flight, `DrainEnds` | 2 surfaces, 2 buffers, 3 frames, 1 destroyed buffer |
| `shell_focus` | `FocusValid`, `FocusedIsActivated`, `ConfiguredAfterBatch`, `IdleTasksBounded`, `InitialCommitAnswered`, `StackingImplemented` | 2 clients, 3 surfaces, of which one is unmapped, mapped again, set fullscreen and robbed of its toplevel |
| `seat_input` | `CallbackSound`, `MotionWhereEntered`, `KeyAfterEnter`, `ModifiersTold` | an orderly client of 2 surfaces with all devices, another of 1 surface that binds, asks for and releases a keyboard at will |
| `drm_swap` | `LocksReturned`, `LatestShown`, `SwapReturns` | 3 buffer objects, with and without vsync |
| `drm_setup` | `CrtcExclusive`, `FoundWhenFree`, `WindowIsMode` | every configuration of 2 connectors, 2 encoders, 2 CRTCs, 2 modes of 2 sizes and 3 rates |
| `input_devices` | `DevicesChosen`, `KeysAgree`, `TouchesAgree`, `StaysOnScreen` | every configuration of 2 udev devices and of the environment; 2 devices with 1 key and 1 slot, a screen of 2 by 1 |
| `host_events` | `SleepersHaveReader`, `GlobalsFound`, `ToldAsSent`, `DispatchReturns`, `EventsServed` | 3 window systems, with and without vsync, 2 events, 1 fault |
| `process_life` | `DefinedElsewhere`, `SignalTearsDownAlone`, `EglTornDown`, `SignalEnds` | every failure, 1 signal |
| `render2d` | `PixelsPlaced` | 2 windows, 2 places, 2 sizes, 4 quarter turns, 2 pivots, 4 flips |
| `host_ping` | `PingAnswered`, which the code breaks | 1 ping, no faults |

Why the bounds are enough: surfaces interact only through the branch of the main
loop, the shared frame and the texture names, and two surfaces reach each of
these (one ready and one not, one drawn while another uploads, a name used
again). A surface has two textures and holds at most two buffers, so two
buffers and a reuse of each cover the cycle. Focus is
passed on from a dying surface to a sibling and to another client, which three
surfaces of two clients reach; object ids are unique over all clients in the
model, which loses nothing, because only the surfaces of one client are compared. `MaxFrames`, `MaxDestroyed` and `MaxIdle`
bound counters that the clients drive.

`Restless` does limit what the run of `ShellFocus` covers: only `s2`, the second surface of the first client,
is unmapped, mapped again, set fullscreen and loses its toplevel while its surface lives. The others go
through roles, focus, fullscreen by the option, and the end of their client. With all three
restless the run does not end within its time. The theorems hold for every `Restless`;
`InitialCommitAnswered` has none, so for toplevels that are destroyed or map again it rests on `s2`. It
speaks of all surfaces and says what it leaves out: the initial commit that maps an unmapped toplevel
again, which the code never answers (main.c:307), a toplevel that its client destroyed, a client that
is gone, and a crash.

`seat_input` has a surface to inherit the focus within a client and one of another client,
and all of the orderly client's devices; the second client needs only the keyboard for
its releases and second binds to meet the first one's callbacks. Its `CONSTRAINT Defined` ends
behaviours where they become undefined, because nothing is claimed from there on; every
property says so itself (`~undefined`). A raced callback that comes through is followed. In `drm_swap` one buffer object is on the screen, one
pending and one rendered to. In `drm_setup` two connectors are enough to share a CRTC or an
encoder and two encoders to have a second choice.

`input_devices` follows the events (`CONSTRAINT Followed`) only of the configuration in which both devices
are keyboards, mice and touchscreens, after it has computed the choice for all; two devices are enough to share a key or a slot, and
a screen of 2 by 1 has a border on every side of every point. `MaxStray` bounds how far the
cursor goes before the screen is known. In `host_events` two events are enough for both threads
to have one in hand, for one to be left in a queue or in Xlib's while the other's key is looked up,
for one to come before the functions are set and one after, and for an interrupted poll between them; the
three globals come in any number of pieces; one fault is enough for the properties to make their exception. `process_life` has no bound but the one
signal. In `render2d` every value is exact, and a
composition that fails for one point fails for one of two points apart.

The frame runs set `CHECK_DEADLOCK FALSE` because the process may leave its
main loop and then stops; the shell runs because it may crash; the seat runs because of the
constraint; `drm_setup` because set-up ends; `drm_swap` because EGL may run out of buffer objects; `host_events` and `host_ping` because an idle connection or a
failed set-up stands still; `input_devices` because of its constraint; `process_life` because the process
ends.

`TypeOK` is an invariant of `frame_mixed` and a theorem for every component but `Render2d`.

Fairness: the main thread keeps running, but owes a return from
`wl_event_loop_dispatch` only when a request it served has left an upload in flight (the
dispatch returns after serving the requests it has read). The GPU owes the
completion of a fence while `has_updated_tex` polls it with
`GL_SYNC_FLUSH_COMMANDS_BIT`. In `ShellFocus` a batch ends and its idle tasks
run. In `DrmSwap` the main thread goes on where it can, and the kernel completes a
flip; no call is owed, and a failing `drmHandleEvent` never is. In `HostEvents` the threads run
where they can, the main thread goes on to create its window and to set its functions, and the host
announces its globals and acts on requests; nobody owes a swap, an input event, a ping or a fault. In `ProcessLife` only the main thread is
fair. Clients owe nothing.

## 5. Findings

* `host_ping` (winsys_wayland.c:53): `handle_ping` buffers the pong. The event thread flushes only
  after `wl_display_prepare_read` has failed, and the main thread when it swaps: a compositor with nothing
  to draw does not answer, and its host may deem it unresponsive.

Seen while modelling, without a run:

* Frames: callbacks of a later commit fire before those of an earlier one (main.c:300); a
  surface with no completed upload may be drawn with a texture named by memory before
  the array (main.c:1297); a buffer that was attached but not committed is released (main.c:1257);
  a redraw draws old pixels at a new size (main.c:225).
* Shell: a toplevel that is unmapped and mapped again gets no configure event (main.c:307); a configure event may go to a
  destroyed toplevel (main.c:178); two toplevels may be activated at once (main.c:326).
* Seat: the end of a touch goes to the client that has the focus by then (wayland_seat.c:607).
* DRM: `winsys_swap` returns with its buffer object locked when there is no memory for a framebuffer
  (winsys_drm.c:906); the cursor goes to -1 when no mode was copied and the size is 0 (winsys_drm.c:106);
  with vsync and a wait cut short, `winsys_swap` may wait for an event that names another
  variable (winsys_drm.c:949; `SwapReturns` excepts it); `egl_swap` ignores a failing `winsys_swap`
  (util_egl.c:271); a failed `drmModeAddFB2` is remembered for good (winsys_drm.c:877); a cancelled touch is only logged
  (winsys_drm.c:250); a device is found by its link only when it has no other (winsys_drm.c:388); the list
  of nodes is written past `MAX_DEVICES` when there are more (winsys_drm.c:315).
* Host: start-up fails when the globals come in more than one read, or when the event thread is in the
  handler of one (winsys_wayland.c:440); the pointer's y is taken from sx when it enters
  (winsys_wayland.c:137); an interrupted poll loses a reader (winsys_wayland.c:401); input before
  the functions are set is dropped (main.c:1382); X events may stay in the library's queue until
  the next one comes (winsys_x11.c:265, winsys_xcb.c:275).
* Process: `strstr` is given NULL when EGL has no extension string (main.c:1398); a renderer that
  does not compile is ignored (main.c:1380); an early failure tears down a `compositor` that is not
  initialised (main.c:1340); the input thread may use what tear-down has destroyed (main.c:1441);
  a set-up of EGL that fails leaves its display initialised (util_egl.c:231); the socket, the native display and the
  native window are never undone.

`PROJECT.json` lists the hazards met while reading, covered or not.

## 6. Proofs

For any finite set of surfaces, any buffers, texture names and bounds
(assumptions: the named `ASSUME`s of `FramePipeline`, which TLC evaluates on
every frame run):

* `TypeCorrect`, then `DoubleBuffering`: the conjunction of `TypeOK` and
  `DoubleBuffered` is inductive, because a flip exchanges the roles of the two
  textures and a commit uploads only into a free one.
* `SizeIsLastUpload`, `StableTextures`: from that invariant; a commit that
  uploads cannot be aimed at a texture in use, since the current one is then
  free and differs from the updated one.
* `CallbackConservation`: the three lists partition `1..requested`, by the
  elements and lengths of a concatenation.
* `ScreenSettles`: the strengthening says that at `"drain"` the screen shows
  what `update_surfaces` would draw, unless a swap has just failed.
* `TwoBuffersAreEnough`, `LatestIsDrawn`: the inductive invariant `Paced` links the client to the
  textures. A client that waits has no upload in flight when it attaches, because an upload in
  flight has a callback to fire and `CallbackConservation` leaves none; so every commit finds its
  texture free, and the flip that follows is of the buffer still attached.

For any clients and surfaces (assumptions of `ShellFocus`):

* `FocusAlwaysValid`, `FocusActivates`: inductive with `Distinct` (no surface
  twice in the list, so unlinking removes it) and `RolesInOrder` (no toplevel
  without a shell surface, no first commit without a toplevel).
* `IdleTasksAreBounded`: inductive with `Batches`: a batch starts with no task, the surface of a task
  has a toplevel or belongs to a client whose turn in this batch is over, and a client leaves in a turn of its own.
* `ConfiguredBetweenBatches`: a toplevel has been told its state, or has a task queued that will
  tell it, or was robbed of the focus (`ToldOrQueued`); between batches no task is queued.
* `ImplementsFocusStack`: the refinement, from the same invariant: only a new
  shell surface and a destroyed surface change the list.

For any clients and surfaces (`SeatInput`):

* `CallbacksAreSound` claims nothing of a callback that is raced: the main thread moved the focus or ended
  a client inside it, or was tearing down the focused client when it began. The code does not prevent
  those, and the theorem does not say that they do no harm. It says that nothing else the main thread
  does between the two halves of a callback (binds, new devices, releases, the end of surfaces
  without the focus) invalidates what was found, and that earlier races do not either.
* `MotionIsWhereEntered`, `KeysAfterEnter`, `ModifiersAreTold` hold over raced callbacks too, as long as
  none has gone wrong (`~undefined`).
* All rest on one invariant, `Clients` - the focus is on the stack, surfaces on it belong to a client that
  is bound or leaving, one client leaves at a time, and an orderly client's devices are not
  released - so what `StartCallback` found is still there when the event is sent.

For any set of buffer objects (`DrmSwap`):

* `LocksAreReturned`: what is locked is the buffer object of the call in progress, or one with no framebuffer
  (`LockInv`); so every return after `drm_fb_get_from_bo` has succeeded gives the buffer object back.
  The return before it does not, and the theorem says so.
* `LatestIsShown`: with vsync and no wait cut short, nothing is pending and no event unread outside of
  the wait; inside of it the flip is pending, or shown with its event unread, or both are over.

For any connectors, encoders and CRTCs (`DrmSetup`):

* `TypeCorrect`: the mode chosen is one of the list, or none.
* `CrtcIsExclusive`, `CrtcIsSuitable`, `CrtcIsFound`: from the consistency of what the
  kernel says (`KernelOK`). `CrtcIsFound` needs the lemma `OwnIsReused`: the search leaves out the connector's
  own CRTC too, but it starts only when that one is another's as well.
* `WindowHasMode`: a mode that is found has the window's size and the highest rate of the modes of that
  size, for any list of modes. That there is such a mode, however long the list is, is the lemma `HighestExists`:
  numbers are well founded, so if some part of the list had no highest rate a shortest one would.

For any devices, keys, slots and screens (`InputDevices`):

* `KeysAlwaysAgree`: the seat's count of a key is the number of keyboards that hold it, and only its
  steps from 0 and to 0 are told.
* `TouchesAlwaysAgree`: a slot that is not astray is used by one touchscreen at most.
* `CursorOnScreen`: both ends of the clamp, for a screen of any size; along an axis of size 0 the cursor
  is put at -1.
* `DevicesAreChosen`: for any udev list in which every usable device has a node of its own
  (`UdevAssumption`), any environment and any `MAX_DEVICES`. `AddAll` is a recursive function; that it exists and what it holds
  (`AddAllMerges`: each of the nodes put in, once) is shown at a least
  counterexample, since the number before it is none. A list without duplicates is no longer than the set of
  devices it comes from (`NoLonger`), which gives the bound.

For any number of events and faults (`HostEvents`):

* `TypeCorrect`: by induction together with the invariant of the readers, with `XPlain`: X11 and XCB send nothing
  but input and use nothing of libwayland.
* `SleepersAreWoken`: `reader_count` is the number of threads on their way to read and of readers that
  interrupted polls have lost; so a thread that sleeps has another to wake it, or one was lost.
* `GlobalsAreFound`: without faults, the registry is not yet asked for (`Unasked`), or each global is to come or on
  the wire and nobody dispatches (`OnWire`), or each is bound, in the queue or in hand while the main
  thread dispatches, in the event thread's hand, or was cut off by a read and is under way (`OnWay`). The last two
  are the exceptions of the property: start-up fails there. What it claims is that a global the
  two threads have read is not overlooked otherwise, whichever read and whichever dispatched it.
* `InputIsToldAsSent`: what has not been taken is in the queue followed by the wire, once and in the host's order
  (`Ordered`); unless both threads had input in hand, the one in hand is the next to be told
  (`OneInHand`); the stored position is that of the last move told or the one in hand
  (`PointerKept`); and an event without its function is an early one (`Setup`). `ToldExactly` has the place
  to the coordinate; the property leaves out the y of a pointer that has entered and not moved, which
  is wrong. That events are told at all is `EventsServed`.

For every way to set up, to serve and to tear down, whenever a signal comes (`ProcessLife`; assumption:
`NULL` is neither `"main"` nor `"signal"`):

* `UndefinedForAReason`, `SignalIsAlone`, `EglIsTornDown`: from one inductive invariant, `LifeInv`: what is
  made is what comes before the current step of `SetUp`, when `egl_terminate` comes to a step it has done those
  before it and EGL was whole (`UndoneInOrder`), and a signal stays
  pending for the main loop only where no input thread runs, because that thread starts before `main()` blocks
  the signals and so takes them itself (`ThreadUnmasked`). `TypeCorrect` is a part of it. `EglIsTornDown` says
  that EGL is terminated only after its surface and context are gone, by whoever tears down, and that a
  tear-down past EGL has terminated it if set-up had completed it and EGL did not refuse; it says nothing
  of the socket, the native display and the native window.

For any window, places, sizes and pivots, in integers and quarter turns (`Render2d`; `RenderAssumption`: a window
has at least one pixel each way):

* `MultIsProduct`: `matrix_mult` gives the product of its operands wherever its result goes, over either
  operand, both or neither: after n rows the result holds n rows of the product, and the next row of the
  operand, loaded one row ahead, is still as it was.
* `PixelsArePlaced`: the matrix begins a draw with anything in it, so nothing can be said of it then;
  from the identity on, each step leaves a map of the plane with known numbers
  (`Affine`, `Composed`, the core of the inductive invariant `RenderInv`), because `IdentityIs`, `TranslateIs`,
  `RotateIs` and `ScaleIs` say what an operation makes of such a map. Before the product that map takes a corner where a
  viewer expects it (`ExpectedIs`, for each quarter turn), and the projection takes it to the clip coordinates that the
  viewport shows there (`ShownIs`). `RenderInv` also remembers that a compiled renderer has its
  projection. That pixels are placed only when the shaders compiled is part of the property: `init_2d_renderer`
  leaves the projection zero otherwise.

`SizeIsLastUpload` and `CrtcIsSuitable` are theorems without a run: their properties are stated
in the modules and proved for every instance.

Left to TLC: what needs fairness or `ENABLED` (`CallbackFires`, `DrainEnds`, `FrameShown`, `InitialCommitAnswered`,
`SwapReturns`, `DispatchReturns`, `EventsServed`, `SignalEnds`, and `PingAnswered`, which fails). Every invariant and action
property of the runs is a theorem; so is the refinement. Outside of both are the C program's
floating-point numbers: `Render2d` computes with integers, so rounding is in neither the run nor the proofs.

## 7. Not modelled

* Frames: pixel formats, the draw itself, the links of `wl_list` - what a second role
  request for one surface, or callbacks of a client that hangs up, do to them.
* Seat: which client has a touch contact, what a keymap contains, `set_cursor` (it logs),
  `wl_seat.release` (it destroys the resource), and libwayland's connection buffers, which the two
  threads use at once where `event_mutex` is not held.
* Window systems: under Wayland `handle_configure`, `toggle_fullscreen` and the window's geometry,
  which size the EGL window; the tables from key symbols and buttons to Linux codes; the creation of
  an X window; buttons of the DRM window system, which have no state.
* EGL and renderer: the `egl_show` functions, which print; pixmap and pbuffer surfaces, which nothing
  calls; the x- and y-turns and the rotation about an axis, which no caller reaches; the shaders'
  GLSL.
* `wl_output`, regions and the remaining requests, which send fixed events or only log; environment
  variables other than those that choose input devices; logs and assertions; generated protocol code; exhausted
  memory, apart from that of `drm_fb_get_from_bo`.
