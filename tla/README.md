# TLA+ models of the vehicle blind-spot monitor

The repository is an Android application (车载盲区视频监控系统) that shows and
records the pictures of USB (UVC) cameras mounted on a vehicle. It is built from
a native camera library (`libuvccamera`: libuvc, libusb and the UVCCamera C++
layer below a Java API), a library that turns camera frames into recordings
(`usbCameraCommon`) and the application (`app`).

This directory holds TLA+ specifications of its concurrent parts, the TLC
configurations that check them, and TLAPS proofs.

## Inventory

Paths are abbreviated: `jni/` is `src/libuvccamera/src/main/jni`, `usb/` is
`src/libuvccamera/src/main/java/com/serenegiant/usb`, `common/` is
`src/usbCameraCommon/src/main/java/com/serenegiant`, `monitor/` is
`src/app/src/main/java/com/bluewater/business/monitor`.

| Component | State | Operations | Talks to | Hard because |
|---|---|---|---|---|
| UVCPreview (`jni/UVCCamera/UVCPreview.cpp`) | running and capturing flags, preview queue, latest captured frame, frame pool, surfaces, frame callback | start/stopPreview, setPreviewDisplay, setCaptureDisplay, setFrameCallback; frame callback, preview thread, capture thread | libuvc stream below, UVCCamera.java above | three threads and two client threads, two condition variables, flags used without mutexes, frames passed by pointer |
| libuvc stream (`jni/libuvc/src/stream.c`) | transfers, back and hold buffers, running flag, sequence numbers | start, stop, poll, close; transfer completion | libusb's event thread, UVCPreview | cancelled and resubmitted transfers, buffer swap between two threads, disconnection while streaming |
| format negotiation (`stream.c`, `UVCPreview.cpp`) | the request, what the camera was asked and answered, the claimed interface | setPreviewSize, prepare_preview, uvc_get_stream_ctrl_format_size_fps, probe | the camera, UVCCamera.java, camera handler | a request is read again after it was negotiated; a refused one leaves traces |
| libuvc device (`jni/libuvc/src/device.c`, `init.c`) | references of a device, open handles, event thread, status transfer | uvc_open, uvc_close, status callback | libusb's events lock, native UVCCamera | close waits for the event thread and the lock, events arrive meanwhile |
| native UVCCamera, callbacks (`UVCCamera.cpp`, `UVC*Callback.cpp`) | context, device, handle, file descriptor, listeners | connect, release, set callbacks, a listener's call | libuvc, UVCPreview, Java listeners | partial failure of connect; callbacks deleted while events arrive |
| controls (`UVCCamera.cpp`, `jni/libuvc/src/ctrl.c`, `UVCCamera.java`) | limits, masks and angles in C++, ranges in Java, registers in the camera | update, set, get of forty controls, in per cent or raw | JNI glue, the camera | three copies of a control's limits, kept by hand-written code repeated forty times |
| UVCCamera.java | control block, native pointer, current size | open, close, destroy, start/stopPreview, start/stopCapture | native UVCCamera | some operations outside the monitor |
| USBMonitor.java | attached devices, permission list, control blocks | register, unregister, requestPermission, openDevice, destroy | Android's USB service, its listener | broadcasts, a polling task and the client interleave |
| encoders (`common/encoder/Media*Encoder.java`) | request and stop flags, pending drain count, EOS | prepare, startRecording, frameAvailableSoon, stopRecording, drain | MediaCodec, muxer, camera handler | wait/notify between threads |
| MediaMuxerWrapper | started flag, numbers of encoders and of started ones | addEncoder, addTrack, start, writeSampleData, stop | encoders, MediaMuxer | start waits for all encoders, stop for the last |
| camera handler (`common/usbcameracommon/AbstractUVCCameraHandler.java`) | message queue, camera, muxer, preview and recording flags | open, close, start/stopPreview, start/stopRecording, release | UVCCamera.java, encoders | asynchronous calls of which one waits |
| application (`monitor/CameraActivity.java`, `MyService.java`) | one handler, its surface, a key counter | onConnect, onDisconnect, key events, life cycle | USBMonitor, camera handler | listener calls on other threads than its life cycle |

What makes each correct: a frame has one owner and a stopped preview is quiet
(UVCPreview); a buffer is never written while it is read, and no callback comes
after a stop (stream); the stream has the interface it uses and sends the frames
the preview expects (format); whatever fails, an opened and closed camera leaves
nothing behind, and no deleted callback is called (device); what a layer knows of a
control is the open camera's, and what it sends the camera takes (controls); the muxer starts once and is stopped once, and no sample
is written before or after (encoders and muxer); a surface is not released
under a running preview, and no recording is forgotten (camera handler); no closed
control block is handed out, no open one forgotten, and every request is answered
(USBMonitor and the application).

The parts are layered. The application asks `USBMonitor` for a device; the
control block it gets goes to the camera handler, whose thread opens `UVCCamera`
with it. That starts a stream of libuvc, whose callback feeds `UVCPreview`, whose
frames go to the view's surface and, during a recording, to an encoder, directly
or by the view; the encoders share a muxer. Each layer calls back into the one
above on a thread of its own, and each is stopped from above: most of the hard
behaviour is a stop, a close or an unplugging that meets work under way on
another thread. `PROJECT.json` lists the hazards with their lines.

Vendored code (libusb, libjpeg-turbo, rapidjson), pixel conversion, descriptor
parsing, views and utilities are not modelled.

## Modules

| Module | Models | Used by |
|---|---|---|
| `UvcPreview` | `UVCPreview.cpp` | `MCUvcPreview`, `UvcPreviewProofs` |
| `FrameSource` | what a stream promises to whoever starts it | refined by `UvcStream` |
| `UvcStream` | `stream.c` | `MCUvcStream`, `UvcStreamProofs` |
| `MuxerProtocol` | what a recording promises of its file | refined by `Recording` |
| `PreviewFormat` | the negotiation: `setPreviewSize`, `prepare_preview`, part of `stream.c`, the handler's fallback | `MCPreviewFormat`, `PreviewFormatProofs` |
| `UvcDevice` | `UVCCamera::connect` and `release`, `device.c`, the callbacks, open to destroy of `UVCCamera.java` | `MCUvcDevice`, `UvcDeviceProofs` |
| `CameraControls` | the controls in `UVCCamera.java`, the JNI glue, `UVCCamera.cpp` and `ctrl.c` | `MCCameraControls`, `CameraControlsProofs` |
| `Recording` | `MediaEncoder` and its subclasses, `MediaMuxerWrapper` | `MCRecording`, `RecordingProofs` |
| `CameraHandler` | `AbstractUVCCameraHandler` | `MCCameraHandler`, `CameraHandlerProofs` |
| `UsbMonitor` | `USBMonitor`, and `CameraActivity` as its client | `MCUsbMonitor`, `UsbMonitorProofs` |
| `MC*` | the instances for TLC, one per component | the runs |
| `*Proofs` | theorems about the module of that name | |

The conventions are the same in all of them. A thread is a value of `pc`, whose
label says what the thread does next; `idle` is outside the code modelled. An
action is what a thread does between two points at which another thread can get
in between: one `synchronized` block, one critical section of a mutex, one access
of a flag that is used without a lock. A wait is cut in two or three: the test,
the sleep and the wake-up, so that a signal sent without the mutex can come
between the test and the sleep. Local variables that live across such a point are
state. Names are the source's. Operators marked `Mutant:` are not part of a
model: each is a plausible mistake in the definition `PROJECT.json` names for it,
kept to show that the property it breaks depends on the code.

### UvcPreview

The frame callback of libuvc (`UvcReceive`, `UvcAdd`, `UvcRecycle`) gets a frame
from the pool, fills it and puts it into `previewFrames`. The preview thread
takes it from there, decodes it when the camera sends MJPEG, draws it and leaves
it in `captureQueu`; the capture thread takes it from there and copies it to the
recording surface and to the Java callback. `heap` and `mFramePool` are sets of
frames: `get_frame` takes one of either, `recycle_frame` gives it back, and an
empty heap is an allocation that fails. `local` is the frames each thread has in
its local variables; a frame that is nowhere (`LostFrames`) has leaked.

Two client threads call: `api`, whose calls `UVCCamera.java` synchronises, and
`enc`, which calls `startCapture` and `stopCapture` without the monitor. The
preview thread creates the capture thread and `stopPreview` joins whatever is in
`capture_thread`, so a stop that comes early leaves the capture thread behind and
a second one may exist: `CaptureThreads` has two members for that reason.

The camera may be lost during a preview (`DeviceLost`). libuvc then takes the stream
for stopped (`stream.c` 985), so `PreviewStopStreaming` does not wait for its callback
thread, which may be in the callback or about to call once more (`device = "going"`,
`UvcReceiveLate`), even when the stream is closed or the next preview is starting. What
the callback does then is modelled; that it has lost its handle, `UvcStream` shows.
`StoppedIsQuiet` therefore promises less after a loss.

### UvcStream and FrameSource

`transfers` is what has become of each transfer: submitted, cancelled, in its
callback, freed, or lost when it could not be submitted again. The camera sends
numbered frames in packets, any of which may be lost, and all of a frame; it marks
each with the frame ID, the number modulo 2. A buffer is the set of the numbers whose
data it contains (0 for a bulk payload whose header is too short to have a frame ID).
`FrameIsWhole` says when that set may have two members: the frame ID is one bit, so
frame n + 2 is taken for n when n + 1 and the end of n are lost. `seen` only
observes: it has the frames of which a frame ID was looked at. The two buffers are swapped under `cb_mutex`. A copy is two steps, so that a swap
between them would be seen. `FrameSource` says that calls come one at a time and
only while streaming. `UvcStream` implements it with `streaming` from
`uvc_stream_start` to the return of `uvc_stream_stop`, and `UvcPreview` relies on
it: there `UvcReceive` is enabled only while `streaming`, unless the camera was lost,
when `UvcStream` does not implement `FrameSource` either.

### PreviewFormat

The client is either the camera handler, which asks for its size once, falls back
to YUYV and starts, or another user of `UVCCamera.java`, which may call
`setPreviewSize` at any time. The other thread is `preview`, from `pthread_create`
to the join. Both run `uvc_get_stream_ctrl_format_size_fps`: `Search` tries the
formats (and with them claims and releases the interface), `Probe` sends
`SET_CUR`, which the camera stores in `probe` with a frame of its choice (`None` is one that
its descriptors do not have, which ends the preview before it starts), and
`ReadProbe` fetches whatever is stored. The fields of the request are written in
two steps (`SetPreviewSize`, `SetMode`) and read by the preview thread in three
(`FrameSize` .. `FrameBytes`). A size is its number of pixels. `claimed` says
whether the open handle holds the streaming interface, and `disturbed` is a
history variable: a `setPreviewSize` met this preview. `UvcStream` has what follows
`StartStreaming`, `UvcPreview` what is done with the frames.

### UvcDevice

`api` is the thread that calls `open`, `close`, `destroy` and the setters, `ev` is
libuvc's event thread. `delivery` is not `none` while one of them holds libusb's
events lock to deliver the status transfer (`by` says which: a client that waits
for a control transfer delivers events too). `owner` has the file descriptors of
the process; `connect` duplicates the Java object's, `release` closes what `mFd`
says, which after a failed `connect` is descriptor 0. `OpenFile` and
`OtherRelease` are the rest of the process and other cameras. `ref` is the
device's reference count. The button and the status callback are the same code;
one is modelled.

### CameraControls

The forty controls are three tables: `Accessor` (selector and types of the fields,
from `ctrl.c`), `Row` (accessor, members, mask bit and manner, from `UVCCamera.cpp`)
and `Percent` (the Java methods). The rows are as the code has them, with its
mistakes: they are listed under "Divergences". An action is one call of a method
that is synchronized in Java, with the control and the arguments as parameters.
`values` and `current` are the native camera's, `fields` the Java object's,
`register` what the camera holds; `call` remembers what the last call set, for the
properties. A control transfer may fail in every call, before or after the first
of the three limits was read.

### Recording and MuxerProtocol

Each encoder has its thread (`run`) and a thread that brings it frames (`feed`).
The codec is a queue that may delay its output arbitrarily. `MuxerProtocol` is
the contract of `android.media.MediaMuxer` as this code uses it: tracks first,
then one start, samples, one stop. The view may draw on an encoder that has
released its renderer: `DrawFrame` then ends the view's thread, and only that.
`ImplementsMuxer` says that the two encoder threads and `MediaMuxerWrapper` keep it
together.

### CameraHandler

The looper's queue is a sequence of messages and each `handleX` a sequence of
steps of thread `Looper`. A recording is only its life here (created, running,
stopping, done): `Recording` has the rest. Its encoder's thread runs `onStopped`
and, when it does not get the path, `handleRelease` and `handleClose` itself, so
the steps of `handleClose` are parameterised with the thread that takes them.
The view is `posted` and `viewEncoder`: `setVideoEncoder` posts a message, and the
render thread takes it later (`SetEncoder`), or ends with an exception when the
encoder it is given was released meanwhile (`SetEncoderThrows`). `captureStill` waits
on the camera thread until the UI thread draws a frame (`StillDrawn`). What the view
draws when, and its surface coming and going, is left out.

### UsbMonitor

`block` holds the `UsbControlBlock`s created, the originals in `mCtrlBlocks` and
the clones the cameras use. `mAsyncHandler`'s queue is `tasks`, except the
periodic check, which is due at any time and therefore counted in `checks`. The
UI thread receives broadcasts, calls, and destroys; the camera thread clones and
closes. `CameraActivity` is the client: `onConnect` opens the camera and
`onDisconnect` queues a close. After `onDestroy` both throw, since the handler is
null. So does a block's `close` when nobody holds its device any more
(`ForgetThrows`), and the block's constructor when the device cannot be opened a
second time (`ConnectThrows`). The model goes on with the other threads, which adds
behaviours only; `RequestIsAnswered` leaves these out.

## Runs

| Run | Instance | What it shows |
|---|---|---|
| `preview_lifecycle` | MJPEG, 4 frames, queue of 1, 2 capture threads, 5 calls, spurious wake-ups, camera lost at any moment of a stream | frames have one owner; a stopped preview is quiet |
| `preview_capture` | YUYV with a converter, 2 frames, 1 capture thread, a surface, 4 calls of two clients | frames are lost only when a preview stops, the drawn one; a client that waits for the capture thread returns while frames come |
| `capture_window_race` | YUYV, 2 frames, 1 capture thread, 1 surface, 4 calls | finding 1 |
| `stream_session` | isochronous, 2 transfers of 2 packets, 2 frames | no callback outside start and stop; stop returns; published frames are seen |
| `stream_faults` | bulk, 1 transfer, 3 frames, lost packets and frames, short headers, with callback and polled, failing submits, unplugging | what the user gets is whole, and one frame as far as the frame IDs tell |
| `stream_unplugged` | 2 transfers, unplugging | finding 2 |
| `format_session` | 4 cameras that may answer with another frame or an unknown one, 2 sizes, 2 ranges of rates, 4 calls, 1 failed transfer | an undisturbed preview has its interface and gets the frames it expects; the fallback from MJPEG starts only what is offered |
| `device_session` | 4 descriptors, 6 calls, listeners that call the camera | a camera that is closed leaves nothing behind, an open one keeps its descriptor and its event thread; callbacks outlive their calls; close returns |
| `control_session` | 2 cameras, 2 of the controls at a time, 3 requests, 2 percentages, 1 failed transfer | every layer knows the open camera's limits; requests are taken; a call leaves the other controls alone |
| `recording_session` | both kinds of video encoder, sound, 2 frames each, failing prepare, collected wrapper | the muxer's protocol is kept; the file is closed; a stop finishes |
| `handler_session` | 2 clients, 3 calls, 2 recordings | no recording is forgotten; each is taken from the view before it is stopped, however late the view takes the message; a thread that ends has closed its camera; as long as frames are drawn, a `stopPreview` that waits while a stop is queued and the preview on is woken, and, if encoders stop too, a release ends the thread |
| `usb_session` | 1 device, 3 requests or registrations, 2 orders to close, destroy at any time | no closed block is handed out; open blocks are lost only to clones or destroy; requests are answered |

### Findings

1. `setCaptureDisplay` waits "finishing capturing", but the signal that announces
   a new frame ends the wait too: the surface is released while it is drawn on.
2. `uvc_stream_close` frees the handle without stopping the stream when the
   camera was unplugged or a start failed.

### Divergences

The models follow the code where it does something a reader would not expect.
These were met while modelling; the properties leave them out and say so. No run
is spent on them.

- Stream and preview: `stopPreview` may join threads that never wake, as its signals
  are sent without the mutex. A preview thread that fails to start leaves
  `mIsRunning` set.
- Format: a refused size that is asked for again is accepted, as it equals the
  last request; the handler's fallback to YUYV does that when its format is YUYV. A
  change of the rates alone is ignored. A refused `setPreviewSize` releases the
  interface of a running stream, and one that is under way when the preview starts
  may give it a frame size, a mode and a buffer that do not fit together. After
  `close` the mode is -1, which is asked for as MJPEG.
- Device: a `UVCCamera` closed and opened again has no event thread
  (`kill_handler_thread` is never reset). A failed `connect` makes `release` close
  descriptor 0. A failed `open` in the camera handler drops the object without
  closing it.
- Controls: the iris uses the selectors of the focus; the auto contrast uses the
  member of the auto focus, the relative exposure that of the absolute one, the
  relative focus and the privacy shutter the limits of the absolute focus;
  `getWhiteBlance` is read by `getFocus`'s accessor, `resetHue` uses the default of
  the saturation; the test of `setPowerlineFrequency` is inverted; some bits of one
  support mask are tested in the other; several Java fields the glue writes do not
  exist; a negative tilt is reset to its default by `setPan` and the other way round.
- Recording: `encode` with length 0 is documented as the end of the stream and
  queues nothing. A stop that comes between the encoder's test and its sleep is
  seen at the next frame only.
- Camera handler: `stopPreview` is to wait until the preview has stopped, and does
  not when a start is under way. When two clients call it at once, the message of
  the second may find the preview stopped and then notifies nobody: that client waits
  until a later stop, or for ever. `handleClose` leaves `mIsPreviewing` set.
- USB monitor and application: closing a cloned control block makes the monitor
  forget the original. `onDisconnect` tests its condition inverted, and the
  handler is null after `onDestroy`. A block's `close` and its constructor may end in a
  NullPointerException when the device is gone.

### Bounds

- Memory (`Frames`): a frame can be at 2 places of the queue and the pool or in at
  most 2 local variables per thread. Four frames with a queue of one fill the queue
  and the pool's 3 places; two make every allocation fail somewhere.
- `MAX_FRAME` is 4 in the source and 1 here, with the pool's size `MAX_FRAME + 2`
  as there: full and empty queues occur with one place, and the theorems hold for
  every capacity.
- `MaxCalls`: each run allows start, stop and start again (a surface, start, stop, a
  surface and start are the five calls of `preview_lifecycle`), or a setter of each
  client while the preview runs. `preview_capture` leaves `stopPreview` out to
  keep its temporal properties checkable; `preview_lifecycle` has it.
- `NumTransfers` 2 is what cancelling needs (one in its callback, one in flight);
  `MaxFrame` 2 or 3 frames make the two buffers be reused.
- `MaxFrames` 2 in `Recording`: one frame before and one after a stop.
- `MaxRecordings` 2 lets the end of one recording meet the start of the next. A camera
  is opened at most `MaxCalls` times, which is as often as the clients can ask. The
  properties of `handler_session` also hold with 4 calls and 3 recordings (5 million
  states), and those with a theorem for any number.
- `PreviewFormat`: four calls are a size, a start, a size during the preview and a
  stop, or start, stop and start again; one failed transfer at any place; two sizes
  and four cameras (both formats, ranges of intervals, two formats of one kind, a
  camera too slow for the default rates) make every search succeed and fail.
- `MaxFd` 3: descriptor 0, the Java object's, the camera's and one more, so that
  `dup` finds 0, another one or none. `MaxCalls` 6: construct, open, close,
  destroy and begin again.
- `MaxOpens` 2 cameras with different limits; `MCRequests` has a value below, one
  inside and one above every limit (and beyond a byte); `MCCombinations` has each
  control with a neighbour, and those that share a member, a selector or an accessor.
  The registers begin at their maximum, so that a request changes them.
- `MaxBlocks` 4 in `UsbSession` is never reached: 3 calls open at most two
  originals and two clones.
- All runs say `CHECK_DEADLOCK FALSE`: calls are bounded and a program nobody calls
  stops. That waits end is stated by the liveness properties instead, and by
  `StoppedIsQuiet` for the threads.

### Fairness

Every thread that can take a step takes one eventually (`WF`): the scheduler of
the operating system is fair among runnable threads. A thread that needs a
mutex or a monitor others use all the time gets it if it is free again and
again (`SF`). Nothing else is assumed: no frame need come, no client call, no user
answer, no device be plugged, no encoder stop. `SetterReturnsWhileFramesCome` states
its own assumption, that frames do come, and so do `SleeperIsWoken` and `ReleaseEnds`:
`captureStill` blocks the camera thread until a frame is drawn (`FramesAreDrawn`), and
a thread to be released waits for the recording's encoder (`EncodersStop`), which may
wait for ever, as `Recording` has it. A transfer ends because libusb cancels it or
times it out. The periodic check of `USBMonitor` shares a thread with the
requests and is due only every two seconds: hence `SF` for the requests.
`UvcDevice.LiveSpec` has `SF` for the client, whose `libusb_close` interrupts the event
thread until it gets the events lock, and `WF` for the event thread and for a delivery;
`CloseReturns` assumes that no listener stays blocked on the camera's monitor, which
`close` holds.

## Proofs

Each component has a module of proofs, for all values of the
constants that its `ASSUME` admits. Those assumptions say what kind of value a
constant is: naturals, Booleans, finite sets of frames and of devices (they are
counted), special values distinct from the others, a positive queue capacity and
number of transfers, cameras whose sizes are positive. The bounds of the actions
(`MaxCalls` and so on) may be any natural number. One assumption says more, and only two
theorems use it: `CamerasAssumption`, about the limits a camera reports (below).

All of them are built alike. `XInv` is the inductive invariant: the parts of `TypeOK`
and clauses named for what they are about, most of which say where the other threads
may be while one is at a given label. `InitInv` establishes it; there is one lemma for
each thread or group of actions, with one step per action and below it one per clause
the action can disturb; `NextInv` puts them together and `InvariantHolds` is
`Spec => []XInv`. A safety property follows from a few clauses. A refinement takes
one more lemma: a step from a state of the invariant is a step of the abstract
specification or leaves its variables alone. TLC checked the invariants too, also those
about lost wake-ups, which no run lists: to see one on an instance, let the MC module
extend the module of proofs and add the name to the `.cfg`.

Some theorems state the half of a liveness property that can be proved here. That a thread
which waits is woken takes fairness; that what it waits for has not happened already, and is
in some queue, flag or thread that will bring it, is an invariant, and usually where such
code goes wrong. `FramesWakeTheirThread`, `NoWakeupIsLost`, `SoleCallerIsOwed`,
`WaitingStopIsKept`, `NoAnswerIsLost` and `CloseWaitsForWhatComes` are of that kind.

### UvcPreviewProofs

- `TypeCorrect`: `TypeOK`, with the queue and the pool within their capacities. It is
  not inductive alone: `addPreviewFrame` would queue a null frame if the callback
  thread came there without one, so `TypeInv` says that it does not.
- `FramesAreOwnedOnce`: no frame is in two places. `FrameHasOneOwner` is inductive
  with `TypeInv`; lemmas state what each way of moving a frame (`GetFrameTaken`,
  `RecycleKept`, a queue to a local and back) does to the places.
- `StoppedPreviewIsQuiet`: `StoppedIsQuiet`, from `QuietInv`, whether or not the camera
  may be lost. `StreamInv` says that, unless the camera was lost, frames
  come only between the preview thread's start and stop of the stream. `StopInv`
  says that what `stopPreview` has achieved at each of its labels (the thread joined,
  one queue emptied, then the other) stays so until the thread is created again.
- `FramesAreLostOnlyByStopping`: the action property `FramesLostOnlyWhenStopping`.
  It needs `LocalsInv`: a local variable a thread is about to assign holds no frame.
  With it, and one owner for each frame, no step drops one but those
  that overwrite a local when the preview is being stopped.
- `FramesWakeTheirThread`: `NoFrameIsSleptOn`, that no frame lies in `previewFrames` or
  `captureQueu` while its taker sleeps. It is inductive with `TypeInv`, since those who
  queue a frame hold the mutex and signal; one lemma for each kind of thread says so. The
  signals of `stopPreview`, sent without the mutex, have no such theorem: they can be lost.

### UvcStreamProofs

- `TypeCorrect` and `FramesAreWhole` hold even when transfers fail or the camera is
  unplugged, and whatever packets and frames are lost. `PacketInv` says the packets
  come in the order of their frames; `OutbufInv` that every frame ID looked at since the
  first data in the buffer being filled is `fid`; `HoldInv` that what is published may
  be in one frame (`Marked`), and that the user's half or whole copy is of it;
  `CallerInv` that a handle has no callback thread unless it is started with a callback,
  so one thread copies at a time. Two lemmas, `StillMarked` and `AddMarked`, are the
  arithmetic: a later frame, or data of the same frame ID, leaves the buffer `Marked`.
- `StoppedStreamIsQuiet` and `StreamImplementsSource` (the refinement of `FrameSource`)
  assume `Reliable == ~Unplug /\ ~SubmitFails`, which is the setting of
  `stream_session`. Without either part `StoppedIsQuiet` is false: a transfer that could
  not be submitted, or that ended when the camera went, may leave its buffers behind
  (`stream_unplugged` finds one consequence). `EventInv` says the only transfer in
  its callback is the event thread's, so that `_uvc_free_transfer` leaves none behind;
  `UserInv` says how far start and stop have got at each label.
- `NoWakeupIsLost`: `WaitersAreOwed`, whatever fails. `uvc_stream_stop` sleeps only while a
  transfer is in flight or its callback runs (or it could not be submitted again, when the
  wait has no end); the callback thread and a poller only while there is no newer frame; and
  a callback thread whose stream stops still has to be told. `SlotsInv` says what became of
  the transfers at each point of start and stop.

### RecordingProofs

- `TypeCorrect`, `EncodersNeverCrash` (`NoEncoderCrashes`), `FileIsFinished`
  (`RecordingIsClosed`) and the refinement `RecordingImplementsMuxer`, for both kinds of
  video encoder and whether or not the collector takes the wrapper.
- `ClientInv` orders preparing and starting; `QueueInv` says that no codec is told
  that its stream ends; `FeedInv` bounds the requests to drain by the frames that were
  fed; `CodecInv` says an encoder drains only while its codec runs, and writes only
  after it has added its track. `CountInv` relates `mStartedCount` to which encoders
  have started the muxer and not stopped it, as long as the wrapper exists, and
  `MuxerInv` relates those to the state of the muxer: this is what makes
  each write come between start and stop.

### CameraHandlerProofs

- `TypeCorrect` (`TypeOK`), `RecordingsAreKnown` (`RunningRecordingIsKnown`), `ViewIsToldFirst`
  (`StoppedRecordingIsLetGo`) and `NothingIsLeftBehind` (`EndedIsClosed`), for any
  number of clients and calls.
- `LooperInv` says what the camera thread has closed when it comes to each label;
  `MuxerInv` that a running recording is in exactly one place, `mMuxer`, the hands of the
  camera thread that is about to set it, or the local of the thread that took it; `ViewInv` that what the view was told last
  (`Told`: the last message posted, or what it feeds when none is) is not a recording
  that is stopped or about to be; `CameraInv` that what shows is the open camera or one about to be
  destroyed. Two of the threads that close may be at it at once: hence "the thread
  that took it", for cameras and recordings alike.
- `removeMessages` is a recursive function over the queue. That it returns messages, and
  which ones it keeps, takes induction over data: `Induction` gets it from the
  well-foundedness of `<` on the naturals, with the set of the numbers for which the
  statement holds in place of a predicate.
- `SoleCallerIsOwed`: a `stopPreview` that waits finds its message in the queue or in the
  hands of the camera thread, with the preview still on (`SleeperIsOwed`), provided no
  other client calls. `SoleInv` adds that there is one such message at a time and only
  while the client waits. With two clients it is false, as said under "Divergences"; what
  holds then is `WaitingStopIsKept`: only the handling of a stop that finds the preview
  stopped takes the message away and leaves the client waiting, although every caller of
  `stopPreview` removes messages from the queue.

### UvcDeviceProofs

- `TypeCorrect`, `ClosedCameraIsClean` (`ClosedIsClean`), `OpenCameraKeepsDescriptor`
  (`OpenKeepsDescriptor`), `CallbacksAreBounded` (`CallbacksOutliveTheirCalls`) and
  `FirstOpenGetsEvents` (`FirstOpenHasEvents`).
- `HandleInv` says where the client is while the handle is open or half closed;
  `RefInv` counts the references of the device: one for `mDevice`, one for the handle;
  `EventInv` ties the event thread, the status transfer and a delivery to a handle;
  `CallbackInv` says how long the callback object exists; `DescriptorInv` that the
  camera owns at most one descriptor, and keeps it while it is positive. Descriptor 0
  is the case its guards exclude, since the code takes it for none.
- `CloseWaitsForWhatComes`: `CloseIsOwed`. When `uvc_close` waits for the events lock or
  joins the event thread, that thread was told to end, the lock is its own, and what it
  delivers can be blocked only by a listener that calls the camera.

### PreviewFormatProofs

- `TypeCorrect`, `StreamsKeepTheirInterface` (`StreamHasItsInterface`),
  `FramesAlwaysFit` (`FramesAreShown`) and `FallbackIsHonest` (`AcceptedIsOffered`), for
  every set of cameras, sizes and rates.
- `AnswerInv` says a probe has found a frame; `ControlInv` when there is a preview
  thread; `HandlerInv` what the handler's calls ask for; `InterfaceInv` that
  `setPreviewSize` works on a running preview only where it has disturbed it;
  `FrameInv` that each line of `prepare_preview` fits what was negotiated; `OfferInv`
  that a request for MJPEG which was refused is replaced before anything else is asked.

### UsbMonitorProofs

- `TypeCorrect`, `KnownBlocksAreUsable` (`KnownBlockIsUsable`) and `OnlyClosedClonesHide`
  (`OnlyClonesHideBlocks`), for any finite set of devices, with any number of calls.
- `QueueInv` says that only a device that is gone is reported as detached, `CheckInv`
  bounds the periodic checks, `BlockInv` says which blocks the threads hold.
  `MapInv`, `PutInv` and `CloseInv` are about the map: a block about to be put is new and
  the only one of its device, and one that the UI thread closes is in the map no more.
  `HideInv` strengthens `OnlyClonesHideBlocks`: while the UI thread closes the block of
  a device, the device is gone and that block is its only open one. With "not plugged"
  for "gone" it was not inductive: the broadcast must still be in the queue too.
- `NoAnswerIsLost`: `AnswersAreOwed`, the safety half of `RequestIsAnswered`. A request the
  client waits for is one the user is being asked about while the monitor listens, or its
  answer is a broadcast, a task of the async thread, or the `onConnect` that is about to be
  called, unless an exception has ended the async thread. `HeadInv` is needed, that the UI thread drops the detach it worked on and not an
  answer, and `GoneInv`, that nobody waits when the looper quits.

### CameraControlsProofs

- `CallsLeaveOthers` (`OthersAreLeft`) and `LimitsAreTheCameras` (`KnownIsTheCameras`), for
  any cameras and any sets of controls.
- `TypeCorrect` and `ClampedRequestsAreTaken` (`RequestsAreTaken`), for cameras as
  `CamerasAssumption` has them: each limit is a value of its field's type, the minimum is
  not above the default nor that above the maximum, and the powerline frequency goes
  from 0 to 2 or 3. The code has no test for any of this and relies on it: a camera
  whose minimum is above its maximum refuses whatever is clamped.
- What differs between forty controls is in the tables, so the proofs begin there:
  `SentTo` and `KeptIn` turn the rows around (which controls use a selector, which a
  member), and a lemma for each checks the tables row by row. All else follows for
  `Plain` controls, those not in `Mixed`, without looking at the rows again.
- `AnglesInv` says the angles that are kept are the register's or not known. In
  `KnownInv`, `Right` says each limit that is kept is 0 or the camera's, and `Whole` that,
  as long as no transfer fails, a control's limits are all known or none is; `Right`
  alone does not imply the latter, which `update_ctrl_values` needs since it asks again only
  while minimum and maximum are both 0. `TypedInv` adds that each register holds a
  value within its limits: setting one angle sends the other one back.

### Only model-checked

Every invariant, action property and refinement that a passing run checks has a theorem.
What has none:

- Liveness, which needs fairness and `ENABLED`: `SetterReturnsWhileFramesCome`,
  `StopReturns`, `PublishedFrameIsSeen`, `StoppingFinishes`, `SleeperIsWoken`,
  `ReleaseEnds`, `RequestIsAnswered`, `CloseReturns`. The theorems about what waiting
  threads are owed prove the safety half of some of them.
- The findings, which are violations.

## What is not modelled

- Pixel conversion, JPEG decoding and descriptor parsing: no interaction. That they
  may fail is in the models where the caller looks at the result.
- The encoding of the probe and commit control block (`uvc_query_stream_ctrl`), the
  list of supported sizes, still images, time stamps; the controls no Java method
  reaches (power mode, relative pan and tilt, digital window, region of interest).
- `ObjectArray`: a container, for which `UvcPreview` has a sequence and a set.
- The registration of the native methods, and those that only pass a call on.
- `MediaSurfaceEncoder`, the multi-surface handler, and of the view's render thread
  what is not about encoders.
- `MyService`, `LogoActivity` and the screen receiver: one counter and intents.
- libusb, libjpeg-turbo, rapidjson and Android itself: external; the models say how
  they are used (`Sent`, `Connected`, `Answer`, the codec, the transfers).
- Data races on the plain flags are treated as races on atomic words: a read sees
  some value that was written. The builds are for processors that do so.

## Plan

Done, in this order, the most important first: `UvcPreview` (all frames pass
through it), `UvcStream` with `FrameSource`, `Recording` with `MuxerProtocol`,
`CameraHandler`, `UsbMonitor`; then `UvcDevice`, `CameraControls`, `PreviewFormat`;
then the proofs of all of them.

Left: `MediaSurfaceEncoder`, the view's surface, and a second camera in
`UsbMonitor` for `onDisconnect`'s inverted test.
