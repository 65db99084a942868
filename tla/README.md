# Models of smark_lock

TLA+ modules that describe the concurrent and stateful parts of the smark_lock
Android application (a door panel with a USB camera, voice messages and a serial
link to the lock), TLC configurations that check them on small instances, and
TLAPS proofs about them. The reference is the code under `src/`; line numbers in
`PROJECT.json` ("map") say which code each definition stands for.

Contents: [the system](#the-system) · [modules](#modules) · [UvcPreview](#uvcpreview) ·
[VoiceRecord](#voicerecord) · [VideoCapture](#videocapture) ·
[CameraPreview](#camerapreview) · [SerialLink and DoorLog](#seriallink-and-doorlog) ·
[CameraConnection](#cameraconnection) · [proofs](#proofs) ·
[what is not modelled](#what-is-not-modelled)

## The system

| component | state | operations | interacts with | what is hard |
|---|---|---|---|---|
| **Native frame pipeline** `UVCPreview.cpp` | two volatile flags, preview queue, frame pool, `captureQueu`, callback object, two windows, three mutexes, two condition variables | start/stop preview, set display, frame callback and capture display, release; libuvc callback, preview thread, capture thread | called through JNI by `UVCCamera.java`; calls back into Java with frames | four threads; flags changed without the mutex; single waits; ownership of every frame on every path |
| **Camera service** `CameraConnectionService`, `CameraInternal`, `CameraHelper` | cameras by device, last removed key; open UVCCamera, previewing flag | select, open, start/stop preview, take picture, record, release | a handler thread per helper, a listener thread per connection, `USBMonitor`'s thread, the GL thread, the main thread | waits without a condition loop, a wait for an event that never comes, locks taken in opposite orders |
| **USB devices** `USBMonitor` | detected and permitted devices, opened control blocks | request permission, periodic check, detached broadcast, destroy | posts to the listener thread of the camera service | tables shared by three threads; clones of control blocks |
| **Rendering** `RendererHolder`, `EGLTask` | message queue, primary surface, slave surfaces | add/remove surface, resize, recreate, release | GL thread calls back into `CameraInternal` | waits for the GL thread while holding locks the GL thread needs |
| **Still images** `ImageCapture` | one pending request | take picture | handler of the GL thread | an answer for every request, also when the renderer ends |
| **Video recording** `VideoCapture` | encoders, muxer, track indices, flags and futures | start, stop, release | video and audio encoder threads, an executor, client callbacks | two threads meet at the muxer; errors on either; stop before start has taken effect; the future that prepares the next recording |
| **Voice messages** `AudioRecordManager`, `RecordAudioButton` | state object, recorder, file, delayed messages | touch down/move/up, permission answer, focus loss | `MainPresenter`, `LeaveMessageFragment`, `MediaRecorder` | delayed messages and Runnables that outlive the state that posted them; failing start and stop |
| **Serial link** `SerialManager`, `SerialReader`, `SerialWriter` | port, writer, listeners | open, write, register | tasks of a cached thread pool | each chunk and each command is a task of its own: order; check-then-act on the port |
| **Door log** `MainActivity` listener, `DoorUtils`, `AlbumFragment` | time of the last opening, table of openings, displayed list | chunk received, insert, delete, refresh | serial link, event bus, main thread | filter by time in concurrent coroutines; key that is only a time of day; stale loads |
| **Home page camera** `CameraXPreviewFragment` | selected device, connected flag | attach, open, start, take picture, destroy | camera service, CameraX | waits of the main thread; timers racing the user |
| **Voice playback** `AudioPlayManager` | player, listener, sensor state | start, stop, sensor events | list of messages | the framework's own states |
| **Event bus, click guard** `LiveDataBusX`, `FastClickUtils` | last value and version per channel | post, observe | fragments | sticky delivery to late observers |
| **Album, settings, network, weather** | lists and forms | user interface | system services | little of their own |
| **Vendored** libuvc, libusb, libyuv, libjpeg-turbo, rapidjson | | | under the native pipeline | third-party |

What makes each correct:

- *native pipeline*: a frame has one owner, none is leaked, memory is bounded; a
  stopped preview leaves no thread and no frame; a wake-up is not missed; calls return.
- *camera service and USB*: every call is answered; a device that goes away takes
  its camera with it; an open camera is known to the registry.
- *rendering*: a wait for the surface is answered; the camera draws to the surface
  there is; no surface is drawn to after its removal; a release leaves nothing.
- *video recording*: one recording at a time, saved or failed but not both, saved only
  if the file can be played; a stopped recording ends; a closed camera frees its encoders.
- *voice messages*: every recording ends, within the limit, and is either finished
  once with its own length or deleted; nothing records in the idle state.
- *serial link, door log*: one reader; an opening is never missing from the table and
  logged once; the list shown is the table.

`PROJECT.json` lists the hazards behind these at their lines, with the properties
that cover them, or why none does: where the code falls to its hazard, the model reaches
the fault, a property excepts it by name, and the hazard's note says so.

## Modules

| module | models | checked by | proved in |
|---|---|---|---|
| `UvcPreview` | the native frame pipeline | `uvc_frames`, `uvc_setter`, `uvc_stop_hangs`, `uvc_capture_outlives_stop` | `UvcPreviewProofs`, `UvcPreviewFrameProofs` |
| `VoiceRecord` | voice messages | `voice_record` | `VoiceRecordProofs` |
| `VideoCapture` | video recording; implements `VideoRecorder` | `video_record`, `video_too_short` | `VideoCaptureProofs`, `VideoCaptureOrderProofs` |
| `VideoRecorder` | what the callbacks of a recorder promise its client (abstract) | through `VideoCapture` | |
| `CameraPreview` | an open camera composed with its renderer and its pictures | `camera_preview` | `CameraPreviewProofs` |
| `SerialLink` | the serial line | through `DoorLog` | `DoorLogProofs` |
| `DoorLog` | the log of openings, composed with the line by EXTENDS | `door_log` | `DoorLogProofs` |
| `CameraConnection` | selection, permission, opening and loss of devices | `conn_two`, `conn_one`, `conn_deadlock` | `CameraConnectionProofs` |

An `MC...` module instantiates a module for TLC where an instance needs definitions of
its own (symmetry, a view) and is the root of its runs. All modules are written to be
proved about as well as checked: parameters are constants with a named assumption, there
is one action per step of the code, and no operator is RECURSIVE.

How they fit together: `CameraConnection` ends where a camera is open and previews;
`CameraPreview` begins there, with the surfaces that `VideoCapture` adds and removes
through its "recorder" thread, and with the release that `CameraConnection` and
`VideoCapture`'s closing both see from their own side. `UvcPreview` is what the native
`startPreview` and `stopPreview`, one step in `CameraPreview`, do inside. Composing
them in one module would multiply their states without adding a shared variable: they
meet in calls that one side makes and the other takes as one action.

A variable named *history* in its comment records something no code keeps (a count, an
outcome, that something unusual happened) so that a property can speak of it. A property
that excepts a history variable names the exact circumstance under which the code does
not keep it. It therefore says nothing about the hazard it excepts, only that there is no
other way to the same fault; the exceptions are part of what the runs found out, each is
listed in its section, and the hazards they stand for are marked so in `PROJECT.json`.

Every property has a mutant: a definition next to the one it changes (`..._Not`,
`..._Always`) with a plausible bug, under which TLC finds the property violated.

## UvcPreview

`UVCPreview.cpp` line by line as far as threads, flags, queues and pointers go.
`Frames` are the identities a `uvc_frame_t` can have: `heap` is what is not
allocated, `mFramePool` the pool, `previewFrames` the queue, and `ptr` maps each
pointer that can own a frame (the member `captureQueu`, the locals `copy`,
`frame`, `callback_frame`...) to the frame it owns. `pc` says where each thread is:

- `"app"` is the JNI caller, one call at a time; `AppCalls` starts a call, `AppReturns` is
  the rest of it (signals without mutexes, the two joins, clearing the queues). A join
  reads the thread it waits for once: `joining` is the capture thread `stopPreview` read.
- `"uvc"` is libuvc's callback thread: `uvcFrameArrives`, `uvcDuplicate`,
  `addPreviewFrame`.
- `"preview"` is `preview_thread`: starts the stream, stores `capture_thread`,
  waits, decodes (which may fail), hands the frame to `addCaptureFrame`. Its
  `pthread_create` may fail unnoticed (`createCaptureFails`), and nobody then takes the
  frames of `captureQueu`.
- each capture thread is `capture_thread_func` of one start: `do_capture`,
  `do_capture_surface`, `do_capture_idle_loop`, the Java callback.

A critical section is one action. A wait on a condition variable splits its
section: the thread joins the wait set and may go on when a signal took it out.
`setFrameCallback` and `setCaptureDisplay` hold `capture_mutex` over several
actions because the capture thread changes `mIsCapturing` and the window without
it. Only wake-ups the code sends occur; spurious ones would weaken nothing that is
claimed as holding, and every violation below happens without them.

| run | question | instance | result |
|---|---|---|---|
| `uvc_frames` | Do frames keep one owner on every path, is each accounted for, is memory bounded, is a stopped preview drained? | two starts (so a capture thread of the first can live into the second), one callback, one capture window, 12 frames, pool of 2, queue of 1 | holds |
| `uvc_setter` | Does replacing the frame callback return? | one start, three setter calls, frames keep coming | holds under `CameraSpec` |
| `uvc_stop_hangs` | Do the joins of `stopPreview` come back? | one start | violated |
| `uvc_capture_outlives_stop` | Is no capture thread alive after `stopPreview`? | one start | violated |

The two violations are findings, listed with the messages they contradict:
`stopPreview` clears `mIsRunning` and signals without the mutexes, so a worker
between its test and its wait sleeps on; and it reads `capture_thread` before the
preview thread has stored it.

*Bounds.* `MAX_FRAME` and `FRAME_POOL_SZ` are the code's capacities (4 and 6),
small here so that the full queue, the full pool and the empty pool all occur.
`MaxStarts` and `MaxSets` bound the calls; two starts are what it takes for a
thread of an earlier start to meet a later one. Frames are interchangeable, so
`UpToFrames` (in `MCUvcPreview`) identifies states that differ by a renaming, which
`FrameOwnership` makes sound: it is proved, and `FramesView`, which `uvc_frames` uses,
also keeps its truth value.

*Fairness.* `ThreadFairness`: a thread that can take a step takes one (the
scheduler's promise; a waiting or joining thread cannot). `CameraFairness`: frames
keep arriving, and infinitely many of them can be copied and decoded: strong
fairness, because each frame may fail but not all. The setter's wait is justified
only while the camera delivers.

## VoiceRecord

`AudioRecordManager` runs on the main looper: an action is one touch event, one
system callback or one delayed message. `clock` counts half seconds since the
recording started; `queue` holds the delayed messages of `mHandler` with the time
they have left, and `tick` lets time pass only when none is due. `mMediaRecorder`
may be null, a running recorder, or one that never started; `recording` are the
recorders that run whether or not a field still refers to them.

`queue` is a set: no two pending messages are ever the same, because a countdown
message is posted only by the one before it or by a start, and `RECORD_INTERVAL` is
longer than the countdown. Messages due at the same instant are handled in any order.

| run | question | instance | result |
|---|---|---|---|
| `voice_record` | In any order of touches, answers, losses and failures: does sending end, is the limit armed, is the idle state quiet? Undisturbed: is each recording finished once with its own length or deleted, within the limit, and does it end? | two takes, `RECORD_INTERVAL` 8 half seconds, `COUNTDOWN` 2 seconds, permission asked late, starts that fail, presses at any time | holds |

`disturbed` becomes true when `MediaRecorder` refuses to start or the user presses again
within the half second in which a recording is being finished. The first three
invariants hold regardless. The other properties except it: a failed start leaves the
path of the previous recording to be finished or deleted again, and the Runnable of a
finished recording stops whatever recorder is current by then, so that a quick press
leaves the earlier recorder running with nothing to stop it. A recorder nobody refers
to is finalized at some time or never (`collectGarbage`).

*Bounds.* The limit is 4 seconds instead of 180 and the countdown 2 instead of 10; the
longest delay (half a second) and the shortest recording (one second) keep their
values, so every order of the delays occurs. Two takes are what one finish can
confuse. *Fairness.* `LooperSpec`: the main looper handles its messages and time
passes; the user is under no obligation.

## VideoCapture

Five threads: the client's calls on `CameraHelper`'s handler, the listener that closes
the camera, the video and the audio encoding thread, and the executor that runs
`mRecordingFuture`. A step is what a thread does up to its next access to state that
another may change; a section on `mMuxerLock` is one step. `MediaCodec`, `MediaMuxer`
and `AudioRecord` appear as their state machines: a call in the wrong state throws, one
in the right state may fail, `MaxFailures` times in all. An exception that nobody
catches on a thread ends the process (`crashed`).

`VideoRecorder` is what the client hears through `OnVideoCaptureCallback`: a call of
`startRecording` is refused or begins; there is one recording at a time; and one that
ended is *saved* (`onVideoSaved` and no `onError`; the file has a key frame), *failed*
(`onError` and no `onVideoSaved`) or *saved despite an error* (both). The comment of
`stopRecording` names the first two. The third is the exception the code makes: the audio
thread tells `onError` when the microphone or its encoder cannot be stopped (lines 941
and 948), which does not keep the video thread from telling `onVideoSaved` (line 439),
before or after it. `soundFailed` remembers that failure, and the abstract recorder has a
step for it (`SoundFails`); no other failure leads there. `VideoCapture` implements the
recorder with `status` read off what each call was told (`Outcome`) and
`mEndOfAudioVideoSignal` (`UnderWay`), and `playable <- keyed`; a recording that ended
without a word would be `"silent"`, which the recorder does not have. The encoders, the
two threads, the muxer and the futures are stuttering steps.

| run | question | instance | result |
|---|---|---|---|
| `video_record` | Is it a `VideoRecorder` (saved or failed, both only if the sound could not be stopped)? Does a thread die only of a failure or an overlap? Is `isRecording` right at rest? Does a stopped recording end, and does closing during a recording free everything? | two calls, with or without sound, one failure anywhere, stop and close at any time | holds |
| `video_too_short` | Is a file deleted as too short only if it has no key frame? | two calls, no failure | violated |

`hurried` is the history of a call that overlapped what was left of an earlier
recording: the audio thread then meets a muxer or an encoder that the end of the video
has taken away. `video_too_short` is a finding: `startRecording` clears
`mIsFirstVideoKeyFrameWrite` before it refuses, so a second call during a recording
makes the end of the first delete a playable file.

What the model showed about this code besides, all inside the behaviours that the
properties allow: closing after a recording has *finished* frees nothing, since the
future that would do it has already run (`CloseFreesRecorder` speaks of closing during
one); a microphone that fails to start leaves `mAudioEncoder` null, so later starts are
silent failures; `setupEncoder` failing early leaves `mIsRecording` true
(`IsRecordingIsTrue` excepts failures); an input surface that cannot be created leaves
none, and the next start tells `onStart` and then dies of the missing surface, so that a
recording is said to be under way which nobody encodes and no stop ends (`Abandoned`,
which the two liveness properties except); and a muxer that cannot be made for another
reason than an `IOException` ends `startRecording` without a callback and without the
future that would prepare the next call.

*Exceptions.* `hurried` and failures (in `CrashHasCause`, `IsRecordingIsTrue`), `crashed`,
`hurried` and `Abandoned` (`Cut`, in the liveness properties).

*Bounds.* Two calls are a recording and either an overlapping call or the next
recording; one failure, because most handlers of a failure are the end of the
recording it happens in. *Fairness.* `CaptureSpec`: client, listener, executor and the
two loops go on; an encoder that was told to end delivers the end of its stream
eventually (strong fairness: it may deliver other buffers first).

## CameraPreview

`CameraInternal` of an open camera with `RendererHolder` and its GL thread. `async` runs
the helper's calls, `recorder` is `VideoCapture`'s adding and removing of its surface,
`listener` closes the camera, `gl` handles the messages of `queue`. The two locks are
kept as owners: `camera` is `CameraInternal.class`, `lock` is `mLock`. A condition's
`await` gives `lock` back but not `camera`, which is what makes it interesting:
`startPreview` holds `CameraInternal.class` and awaits the GL thread, while the GL
thread's `onPrimarySurfaceCreate` calls `startPreview` with `mLock` held. Sections on
`mSlaveSurfaces` are atomic and cut at `wait`. A surface is a number, new for each
creation; `sizeSet` says that the renderer has the camera's preview size, before which
`updatePrimarySize` sends its request and waits.

| run | question | instance | result |
|---|---|---|---|
| `camera_preview` | Is every unlimited wait answered, does the camera draw to the surface there is, does a removed surface stay away, is everything released, is every picture answered, does `startPreview` return? | three calls of the helper, one of the recorder, one failure of GL, a release at any time | holds |

The exceptions, each a circumstance the code allows:

- `LockOrder` (in `StartReturns`): `startPreview` on `async` wants `mLock` or awaits
  with `CameraInternal.class` held, while `gl` holds `mLock` in its callback and wants
  `CameraInternal.class`: neither goes on. It takes a creation of the surface, while a
  preview runs, that meets a second `startPreview`; the property says that nothing
  else keeps a call from returning.
- `missed` (in `DisplayIsPrimary`): the surface was created anew after a start had read
  the old one and before it set `mIsPreviewing`, so the callback does not restart it.
- `cut` (in `RemovedIsGone`): `mSlaveSurfaces.wait(1000)` ended by time, or by a
  notification for the other caller, or was entered after the looper had quit.
- `behind` (in `ReleasedAll`): something was sent while the release was in the queue;
  a looper that quits safely still handles it. `unheard`, in `PictureAnswered`, is the
  picture among them: its callback is not called, although `takePicture`'s comment says
  that it is, once for every invocation (`CameraInternal.java:340`).

*Bounds.* Three calls are a start, a second start or a stop, and a picture; the
application itself calls `startPreview` once per camera, so the instance is more
demanding than its present client. One surface of the recorder besides the helper's own,
because callers of `mSlaveSurfaces` disturb each other in pairs. *Fairness.*
`ThreadSpec`: `gl` and `async` take the steps they can; nobody has to call, and nothing
has to fail.

*Left out.* `startPreview` reads `mPrimarySurface` twice, and a release between the two
reads ends in a `NullPointerException` on the helper's thread that is caught there; the
model reads it once. `removeSlaveSurfaceAll` runs before the camera is open. The two
messages that set a capture holder follow a surface's own. Drawing is a failure at most,
and only while the camera streams: a `REQUEST_DRAW` that is still queued when the camera
stops or closes may fail too and send its re-creation of the surface behind the release
(lines 498 and 508), one more way to `behind` that the model does not take.

## SerialLink and DoorLog

`SerialLink` is the line: `openSerialPort` is a task per activity (`CheckPort`,
`OpenPort`, `StartReader`, `TellSuccess`), a `SerialReader` reads one byte, then what
there is, and reports each chunk in a task of its own, in any order. Frames arrive whole
and are two bytes here, the one that is read alone and the rest. `DoorLog` extends it
with what each chunk starts: a coroutine for every registered listener (`jobs`), with
the steps of `MainActivity`: the date, the filter by `nowTime`, the views (which may
throw on this thread), the test of the key, the insertion, the update. The album's loads
and deletions are coroutines of their own (`loads`), what both post reaches the main
thread in order (`mainQueue`). A deletion is posted by any click; its coroutine tests
whether the album shows rows (`TestList`), clears the table and posts the empty list.

| run | question | instance | result |
|---|---|---|---|
| `door_log` | Does one reader take the bytes? Is no opening missing, none logged twice, and does an album at rest show the table? | two openings with one activity, or one with two activities that open the port at any time; two days; one deletion | holds |

What the properties except: `overlapped` (two activities between the test and the
setting of `mPort` make two readers, or a command that meets a null writer, `npe`);
`together` (two coroutines between the test of `nowTime` and its setting log one opening
twice) and a second listener, which every new activity registers without removing the
old one; `hidden` (the primary key is the time of day, so the opening of another day at
the same second takes it); `overtaken` (loads that overlap may be shown in the wrong
order); `replaced` (the old activity's coroutines then end the process in
`requireActivity`). An opening lost because the views threw is not in `handled`: the
coroutine ends before it has told anybody.

*Bounds.* `MaxActivities` is the number of main activities, `MaxReports` bounds frames
times activities (each chunk starts a coroutine for each): two openings for the filter
to compare, two activities for two listeners. Time is in units of which the window of
3000 ms has `Window` = 2 and a day `Day` = 3; `MaxTime` leaves an opening inside the
window, one outside, and one on the next day. A coroutine takes at most one unit from
reading the date to its end (`Tick`), which is why `Window` must be at least one.
There is no liveness here: that a coroutine ends is the runtime's promise. The clock only
moves forward; the panel's wall clock may be set back, of which the code takes no notice.
`setScreenTime` (line 108), outside the coroutine's `try`, wakes and unlocks the screen and is
left out with what it may throw.

## CameraConnection

`CameraXPreviewFragment`, `CameraHelper`, `CameraConnectionService` and `USBMonitor`
as four threads, each a looper with a queue:

- `"main"`: the fragment's callbacks and the system's broadcasts (`Main`), and the
  user's picture and leaving the page (`User`);
- `"async"`: `CameraHelper`'s `mAsyncHandler` (`Async`): select, open, start preview,
  take picture, release;
- `"listener"`: the connection's `mListenerHandler` (`Listener`): what `USBMonitor`
  tells, `addCamera`, `removeCamera`;
- `"monitor"`: `USBMonitor`'s `mAsyncHandler` (`Monitor`): broadcasts handed over by
  main, and the check every 150 ms.

`queue[t]` holds a thread's messages, `pc[t]` where it is inside one: a message is one
action unless another thread can see the middle. `mConnectionSync` is kept as an
owner and `waiting` as its wait set; a section that is left by `wait()` is cut there,
and so is one that asks `isCameraOpened()` first, which takes no lock.
`mOpenedCtrlBlocks` is `USBMonitor`'s table and `lostCtrlBlocks` the control blocks
that are open but in no table; `connected` are the cameras whose own clone is open,
`mUVCCamera` those whose field is not null, which a failed open also sets.

A device is one plugging in: `UsbDevice` equality goes by a name the system gives anew,
so two devices are also one camera plugged in twice.

| run | question | instance | result |
|---|---|---|---|
| `conn_two` | Is an open camera always known to the registry, and a waiting `selectDevice` always about to be answered? | two devices, one picture, the page stays | holds |
| `conn_one` | Does every wait end, is an unplugged camera closed, does release close the camera? | one device, two pictures, the page left at any time | holds |
| `conn_deadlock` | Do main and helper never wait for each other's wake-up for ever? | two devices, the page stays | violated |

`conn_deadlock` is a finding: `mLastCameraKey` was added so that `getCamera` does not
wait for a camera that was just removed, but it remembers one key. When a second device
is removed, the helper's `startPreview` and main's `previewSize` both wait for the first
camera; the broadcasts that could end the wait pass through main. `conn_one` shows that
with a single device the remedy is enough, which is the difference its liveness
properties make.

*Bounds.* Two devices are what it takes for one to overwrite the other's key;
`MaxPictures` bounds the user, `MayLeave` says whether the page may be left: with two
devices the release triples the state space (1.7 million states, in which the same
invariants hold) and concerns one device at a time. Every queue is bounded because each
device is plugged in once. *Fairness.* `LooperSpec`: each looper runs, and the user
answers the permission dialog. Nobody has to plug anything in or out.

*Left out.* One helper: the re-creation in `requestUsbVideoPermission` is a release
followed by a new, independent instance. The camera permission of `XXPermissions` is
already granted. The periodic check is atomic: its two sets are locked by another
monitor than `updateDeviceKeys` uses (`synchronized (this)` of the Runnable), and what
a lost update there causes is one more `onAttach`, which the fragment ignores. The
sections on `CameraInternal.class` are atomic; their order against the renderer's
lock is in `CameraPreview`. Two callbacks on one camera count as one. Weak
references are never collected. `onDeviceClose` and `onError`, which the fragment
ignores, are not there, nor are `closeCamera`, `setPreviewSize` and `releaseAll`, which
nothing calls.

## Proofs

Every theorem holds for every value of the constants that satisfies the module's named
assumption, and every invariant's theorem is a theorem of `Spec`, without fairness. Each
proof module has an inductive invariant `IInv` (checked by TLC before it was proved), a
lemma that `Init` gives it, lemmas that the steps keep its parts, `Invariance`, and the
theorems that follow from it. `UvcPreviewFrameProofs` and `VideoCaptureOrderProofs` extend
the module before them and add an invariant of their own, `CountInv` and `Orderly`.

| module | theorems | for any | assumption |
|---|---|---|---|
| `UvcPreviewProofs` | `TypeCorrect`, `OneOwner` (`FrameOwnership`), `NothingKept` (`FramesInHand`), `DrainedWhenStopped` (`StoppedIsDrained`), `NoMissedFrame` (`NoMissedPreviewFrame`) | frames, threads, callbacks, windows, capacities, calls | `ConstantsAssumption`: `NULL` is none of them, the kinds of threads differ, capacities are positive |
| `UvcPreviewFrameProofs` | `LossesBounded` (`LostPerStart`), `MemoryBounded` (`FrameMemoryBound`) | the same, finite or not | the same |
| `VoiceRecordProofs` | `TypeCorrect`, `SendingEnds` (`SendingWillEnd`), `LimitIsArmed` (`TimeLimitArmed`), `QuietWhenIdle` (`IdleIsQuiet`), `ToldOnce` (`FinishedRight`), `NoFileLeft` (`NothingLeftBehind`), `WithinMaxVoiceTime` (`MaxVoiceTime`) | takes, limit, countdown | `VoiceAssumption`: the limit is longer than its countdown |
| `VideoCaptureProofs` | `TypeCorrect`, `Implementation` (`ImplementsRecorder`) | calls, failures | `CaptureAssumption`: there is a call |
| `VideoCaptureOrderProofs` | `CrashesHaveCauses` (`CrashHasCause`), `RestTellsRecording` (`IsRecordingIsTrue`) | calls, failures, with and without audio | the same |
| `CameraPreviewProofs` | `TypeCorrect`, `NoLostWakeup` (`AwaitIsAnswered`), `ShowsPrimary` (`DisplayIsPrimary`), `StaysRemoved` (`RemovedIsGone`), `EndsReleased` (`ReleasedAll`), `PicturesAnswered` (`PictureAnswered`) | calls, failures | `PreviewAssumption`: they are numbers |
| `DoorLogProofs` | `TypeCorrect`, `ReadsAlone` (`OneReader`), `NoneIsMissing` (`OpeningIsLogged`), `LogsOnce` (`LoggedOnce`), `ShowsTable` (`ListIsTable`) | activities, frames, window, day, time, loads | `LinkAssumption`, `DoorAssumption`: the window and the day are at least one unit |
| `CameraConnectionProofs` | `TypeCorrect`, `OpenKnown` (`OpenIsRegistered`), `SelectAnswered` (`SelectHasAnswer`), `ReleasedIsClosed` (`ReleaseClosesCamera`), `OneAtATime` (what an opening step may do) | devices, pictures, with or without leaving the page | `ConnectionAssumption`: devices are finitely many and `NoDevice` is none of them |

The arguments:

- *UvcPreview.* None of the properties is inductive alone. A frame keeps one owner when
  it is recycled or handed on because the thread really holds it there
  (`FramesInHand`); `get_frame` overwrites a pointer, which is harmless only if it was
  empty; and a preview or uvc thread starts with empty hands only because the app
  thread may start it when the previous one has ended. `Phases` states when which
  thread is alive and when the queues are empty. A lemma for each way a frame moves
  (get, recycle, hand over, enqueue, dequeue, replace, drop, free) is about `FrameInv`
  alone; one lemma per thread cites them.
- *UvcPreview, counting.* Every step treats frames in one of a few ways (`Handled`), in
  each of which a frame that had an owner keeps one, or it is `addCaptureFrame` with the
  preview stopped (`Loses`). A loss uses up the chance to lose (`MayLose`), which only the
  next start gives back, so losses and chances together never exceed the starts. The
  frames in use grow only when the pool has run empty; then they are the queue's and one
  for each pointer of a thread that was started, and `CountHeld`, `CountQueued` and
  `CountUnion` count those.
- *VoiceRecord.* `Core` holds always: types, and which message each state relies on
  (`SendingWillEnd`, `TimeLimitArmed`, `IdleIsQuiet`, and that no old limit is pending
  when idle, without which the next start would have two). `Clean` holds until something
  disturbs: one recorder runs, for the file `mAudioPath` names, one finish is pending,
  what was told is told, and the time the pending message has left bounds the length
  (`TimeLeft`), from which `MaxVoiceTime` follows for any limit. Each operation of the
  state machine has a lemma for each half.
- *VideoCapture.* `status` is read off callbacks and the end-of-stream flag, so the
  refinement needs whose recording the flag is about (`Calling`), that the video thread
  has the task of that recording and no other but for one that is only to be told saved
  (`Tasks`), that an end without an error has seen a key frame of its own recording
  (`Keys`), and that an error of the video is told, remembered by `errorOccurred` and keeps
  the recording from being told saved, while none ends without a word (`Outcomes`). The
  steps outside these are the cases of `Elsewhere` and `Stutter`; `Refused`, `Begins`,
  `Writes`, `SoundFailing` and `Finishes` are the steps of the abstract recorder.
- *VideoCapture, order.* As long as nothing has failed and no call has overlapped what was
  left of an earlier recording (`Calm`), the whole recorder is in one of four phases:
  `Rests`, `Starts` (inside `startRecording`), `Records` (the threads encode) and `Prepares`
  (the future sets up the next one). Each names the joint state of both encoders, the
  microphone, the muxer and the three queues; in `Records`, the muxer has the tracks whose
  format is known and is started once that is all (`Muxes`), and the video is not told to
  end before the audio has (`HandlesAudio`, `AudioHandled`). No phase enables a step that
  throws (`NoCrash`), and at rest both flags say that nothing is recorded. A lemma per
  phase says to which phases each step leads.
- *CameraPreview.* `Held` says who is inside which lock; `Closing`, how far the release
  has come and what cannot be under way then; `SizeFirst`, that a surface is not created
  anew while a preview runs before the size is known, which keeps the GL thread, the
  only one that signals, from awaiting; `Answered`, that a creation is ahead of any
  release for whoever awaits; `Released`, `Gone` and `Shown`, what the GL thread leaves
  at its end, which surfaces it may still draw to, and what the camera shows.
- *DoorLog.* `Port`: tasks that do not overlap open the port once. `Covered`: an opening
  the filter dropped has one in the table, or a coroutine with a near date past the
  filter, or its key was taken, although `nowTime` runs ahead of the table and
  coroutines set it in any order. `Once`: with one listener and no two coroutines
  between test and setting, dates pass the filter in order and further apart than the
  window. `Refreshed`: whenever the list is not the table, an update, a load or a list
  that will make it so is under way.
- *CameraConnection.* `Life`: a looper quits and `USBMonitor` is destroyed only while the
  helper is inside a release or after it, so nothing is sent in vain to a thread that
  still waits. `Leaves`: whatever is about to remove a device's camera (a broadcast, a
  message to the listener, the listener inside `removeCamera`) is there because the
  device is gone or a release began. `Known` follows: an opening that finds its camera
  removed cannot succeed any more, and a removal that saw nothing to close has nothing
  to close. `Asked` follows the answer from dialog to broadcast to monitor to listener.
  A lemma per thread says what its steps add to and take from the queues
  (`MonitorSends`, `ListenerSends`, `AsyncSends`).
- *CameraConnection, release.* A release closes the camera of the helper's device only,
  so no other camera may be open and stay (`Holding`): the helper must never be given a
  second device while the camera of the first is open. That is the fragment's doing, which
  selects when its `clientDevice` is none and forgets it on a cancellation or a detachment.
  `Selection` follows the selection of a device that is still there, or whose camera is
  still open with no removal begun (`Live`), through its stages: the helper's queue,
  `selectDevice`, the dialog, the broadcast, the monitor, the listener, `mCameras`, or back
  as a cancellation. It is at one stage at a time, once; it is the client's device; and
  past the helper's queue no other selection is in that queue. `Notices`: a detachment the
  fragment is about to hear of is not a live device's. A lemma per thread moves the
  selection on (`Passes`) or leaves it (`Rests`). `OneAtATime` follows from the same
  invariant: an opening is of the helper's device, and beside no other open camera but one
  that is being removed.

Only model-checked: liveness under fairness, which is out of the prover's reach
(`SetterReturns`, `RecordingEnds`, `StoppedRecordingEnds`, `CloseFreesRecorder`,
`StartReturns`, `EveryWaitEnds`, `GoneIsClosed`). Every other property of a passing run,
the invariants and the refinement, is a theorem.

## What is not modelled

The repository has about 280,000 lines, nearly all of them vendored C libraries under
`libuvccamera/src/main/jni` (libyuv, libusb, libuvc, libjpeg-turbo) and copies of Java
user-interface code; the program's own stateful logic is a few thousand lines, and the
modules cover that part of it that runs.

- In `UvcPreview`: two threads of the application in a call each. `UVCCamera.java`
  synchronizes most of its methods but not `setFrameCallback` (511), `startCapture` (541)
  and `stopCapture` (552), so a setter could meet a `stopPreview` of another thread; the
  model makes the calls one at a time, and `SetterReturns` is about those. A frame that
  `get_frame` cannot allocate (577, 597), which the code would dereference.
  `setPreviewSize` and `callbackPixelFormatChanged` (sizes and converters only), drawing,
  and what a program does after using freed memory: releasing the capture window or
  replacing the callback object under a thread that uses it is listed as a hazard, and
  what follows is undefined.
- In `VoiceRecord`: the volume meter (event 2 only reads an amplitude and posts
  itself again) and `destroyRecord`, which nothing calls.
- In `VideoCapture`: `setConfig` and `setResolution` between recordings, where the file
  is stored, the sample rates and the fragment's timers. A muxer that is null when the
  output format changes (761) would throw there; no behaviour gets there.
- In `SerialLink`: `closeSerialPort` and `unRegisterListener`, which nothing calls, the
  bytes of a command on the wire and their order (each write is a task of its own: see
  the hazards), and the native port.
- In `DoorLog`: the doorbell frame, for which the code does nothing, and the other pages
  of the album.
- *Old encoder* (`MediaEncoder`, `MediaMuxerWrapper`, `MediaSurfaceEncoderHelper`) is
  created only by helpers of the library the application does not use; `ImageCapture2`
  only for `CAPTURE_STRATEGY_IMAGE_READER`, which the application never sets.
- *Local video helper* (`VideoUtils`) and *voice playback* (`AudioPlayManager`) run on
  the main thread around framework objects (`MediaRecorder`, the old Camera API,
  `MediaPlayer`) whose states only the framework's documentation defines: a model would
  be one of Android, not of this code.
- *Event bus* (`LiveDataBusX`) is reflection over AndroidX LiveData; the one delivery
  whose order matters, the update of an album that is or is not observing yet, is in
  `DoorLog`.
- An abstract frame pipeline that `UvcPreview` would refine was considered and left
  out: what it would promise (one owner, bounded, drained) is what `FrameOwnership`,
  `FrameMemoryBound` and `StoppedIsDrained` already say of the concrete variables.
- Vendored libraries, except for what `UVCPreview` sees of libuvc: it calls the
  callback while a stream is open, and closing the stream waits for it.
