-------------------------- MODULE CameraConnection --------------------------
(***************************************************************************)
(* How the USB camera of the home page is found, permitted, opened and     *)
(* lost: CameraXPreviewFragment, CameraHelper, CameraConnectionService and *)
(* USBMonitor, with what CameraInternal and UVCCamera do to connections.   *)
(*                                                                         *)
(* Four threads, each a looper that handles the messages of its queue in   *)
(* order: "main" (the fragment, broadcasts), "async" (CameraHelper's       *)
(* mAsyncHandler), "listener" (CameraConnection's mListenerHandler) and    *)
(* "monitor" (USBMonitor's mAsyncHandler). They meet at mConnectionSync,   *)
(* whose owner is kept because sections are left by wait().                *)
(*                                                                         *)
(* A device is one plugging in: the system names it anew each time.        *)
(* Recording, surfaces and the preview itself are left out, and so are     *)
(* callbacks the fragment ignores.                                         *)
(***************************************************************************)
EXTENDS Integers, SequencesExt

CONSTANTS Devices, NoDevice,
          MayLeave,    \* the user may leave the page
          MaxPictures  \* bound: pictures the user takes

ASSUME ConnectionAssumption ==
  IsFiniteSet(Devices) /\ NoDevice \notin Devices /\ MayLeave \in BOOLEAN /\ MaxPictures \in Nat

Threads == {"main", "async", "listener", "monitor"}

VARIABLES
  plugged, permitted, dialogs,   \* Android: devices, permissions, questions to the user
  queue,   \* of each thread
  quit,    \* threads whose looper takes no more messages
  pc,      \* where each thread is: [at, task, dev]
  mOpenedCtrlBlocks,  \* devices with an (open) control block in USBMonitor's table
  lostCtrlBlocks,     \* devices with an open control block that is in no table
  mDetectedDeviceKeys, mHasPermissionDeviceKeys, mDestroyed,
  mConnectionSync,    \* its owner, or "free"
  waiting,            \* threads in mConnectionSync.wait()
  mCameras,           \* keys
  mLastCameraKey,
  mUVCCamera,         \* CameraInternals whose mUVCCamera is not null
  connected,          \* CameraInternals whose cloned control block is open
  callbacks,          \* CameraInternals with a registered StateCallback
  told,               \* its mIsCameraOpened
  released,           \* CameraInternals after releaseResource
  mService, helperDevice, mDetachedDeviceMap,      \* CameraHelper; helperDevice: mUsbDevice
  mCameraHelper, clientDevice, mIsCameraConnected, \* fragment; clientDevice: mUsbDevice
  pictures

systemVars   == <<plugged, permitted, dialogs>>
keyVars      == <<mDetectedDeviceKeys, mHasPermissionDeviceKeys>>
blockVars    == <<mOpenedCtrlBlocks, lostCtrlBlocks>>
syncVars     == <<mConnectionSync, waiting>>
registryVars == <<mCameras, mLastCameraKey>>
cameraVars   == <<mUVCCamera, connected, callbacks, told, released>>
helperVars   == <<mService, helperDevice, mDetachedDeviceMap>>
clientVars   == <<mCameraHelper, clientDevice, mIsCameraConnected, pictures>>
looperVars   == <<queue, quit, pc>>
vars == <<systemVars, looperVars, blockVars, keyVars, mDestroyed, syncVars,
          registryVars, cameraVars, helperVars, clientVars>>

At(at, task, d) == [at |-> at, task |-> task, dev |-> d]
Idle            == At("idle", "none", NoDevice)
Message(what, d) == [what |-> what, dev |-> d]
Here            == {d \in Devices : plugged[d] = "here"}

Init ==
  /\ plugged \in [Devices -> {"absent", "here"}] /\ Here # {}
  /\ permitted \in SUBSET Here /\ dialogs = {}
  /\ queue = [t \in Threads |-> <<>>] /\ quit = {} /\ pc = [t \in Threads |-> Idle]
  /\ mOpenedCtrlBlocks = {} /\ lostCtrlBlocks = {}
  /\ mDetectedDeviceKeys = {} /\ mHasPermissionDeviceKeys = {} /\ mDestroyed = FALSE
  /\ mConnectionSync = "free" /\ waiting = {}
  /\ mCameras = {} /\ mLastCameraKey = NoDevice
  /\ mUVCCamera = {} /\ connected = {} /\ callbacks = {} /\ told = {} /\ released = {}
  /\ mService = TRUE /\ helperDevice = NoDevice /\ mDetachedDeviceMap = {}
  /\ mCameraHelper = TRUE /\ clientDevice = NoDevice /\ mIsCameraConnected = FALSE
  /\ pictures = 0

-----------------------------------------------------------------------------
(* Loopers and the monitor mConnectionSync. *)

\* q after posting m to t: a looper that has quit drops it.
Posted(q, t, m) == IF t \in quit THEN q ELSE [q EXCEPT ![t] = Append(@, m)]
Rest(t)         == [queue EXCEPT ![t] = Tail(@)]
Goto(t, at, task, d) == pc' = [pc EXCEPT ![t] = At(at, task, d)]
Return(t)       == pc' = [pc EXCEPT ![t] = Idle]
Handles(t, what, d) == pc[t] = Idle /\ queue[t] # <<>> /\ Head(queue[t]) = Message(what, d)
Unlocked        == mConnectionSync = "free"
NotifyAll       == waiting' = {}

\* The connection still reports to the client: mWeakStateCallback is not cleared.
ToClient(q, m)  == IF "listener" \in quit THEN q ELSE Posted(q, "main", m)

\* CameraInternal.release with CameraInternal.closeCamera, UVCCamera.close and the
\* UsbControlBlock.close of the clone: it takes the original block, which stays
\* open, out of the table. opened is what isCameraOpened() answered before.
releaseCameraInternal(d, opened, q) ==
  LET shut == IF opened THEN {d} \cap mUVCCamera ELSE {}
      cut  == shut \cap connected
      q1   == IF cut # {} THEN Posted(q, "listener", Message("closed", d)) ELSE q
      q2   == IF shut \cap told # {} THEN ToClient(q1, Message("cameraClose", d)) ELSE q1
  IN /\ queue' = q2
     /\ mUVCCamera' = mUVCCamera \ shut /\ connected' = connected \ shut
     /\ lostCtrlBlocks' = lostCtrlBlocks \cup (cut \cap mOpenedCtrlBlocks)
     /\ mOpenedCtrlBlocks' = mOpenedCtrlBlocks \ cut
     /\ callbacks' = callbacks \ {d} /\ told' = told \ {d}
     /\ released' = released \cup {d}

NothingReleased(q) == queue' = q /\ UNCHANGED <<blockVars, cameraVars>>

-----------------------------------------------------------------------------
(* Android: the user plugs devices in and out and answers questions. *)

Plug(d) ==
  /\ plugged[d] = "absent" /\ plugged' = [plugged EXCEPT ![d] = "here"]
  /\ UNCHANGED <<permitted, dialogs, looperVars, blockVars, keyVars, mDestroyed, syncVars,
                 registryVars, cameraVars, helperVars, clientVars>>

\* The system's own question when a device for this activity is attached.
GrantBySystem(d) ==
  /\ d \in Here \ permitted /\ permitted' = permitted \cup {d}
  /\ UNCHANGED <<plugged, dialogs, looperVars, blockVars, keyVars, mDestroyed, syncVars,
                 registryVars, cameraVars, helperVars, clientVars>>

\* A broadcast reaches mUsbReceiver, on the main thread, while it is registered.
Broadcast(what, d) ==
  /\ queue' = IF mDestroyed THEN queue ELSE Posted(queue, "main", Message(what, d))
  /\ UNCHANGED <<quit, pc>>

Unplug(d) ==
  /\ d \in Here /\ plugged' = [plugged EXCEPT ![d] = "gone"]
  /\ permitted' = permitted \ {d}
  /\ Broadcast("detached", d)
  /\ UNCHANGED <<dialogs, blockVars, keyVars, mDestroyed, syncVars,
                 registryVars, cameraVars, helperVars, clientVars>>

Answer(d) ==
  /\ d \in dialogs /\ dialogs' = dialogs \ {d}
  /\ \/ d \in Here /\ permitted' = permitted \cup {d} /\ Broadcast("granted", d)
     \/ Broadcast("denied", d) /\ UNCHANGED permitted
  /\ UNCHANGED <<plugged, blockVars, keyVars, mDestroyed, syncVars,
                 registryVars, cameraVars, helperVars, clientVars>>

System == \E d \in Devices : Plug(d) \/ GrantBySystem(d) \/ Unplug(d) \/ Answer(d)

-----------------------------------------------------------------------------
(* USBMonitor. *)

\* openDevice may also fail for a device that is there.
MayOpen(d) == d \in Here \cap permitted

\* processOpenDevice by thread t up to its post, which is t's next step.
processOpenDevice(t, d) ==
  /\ mDetectedDeviceKeys' = mDetectedDeviceKeys \cup {d}
  /\ mHasPermissionDeviceKeys' = mHasPermissionDeviceKeys \cup {d}
  /\ UNCHANGED lostCtrlBlocks
  /\ \/ /\ d \in mOpenedCtrlBlocks \/ MayOpen(d)
        /\ mOpenedCtrlBlocks' = mOpenedCtrlBlocks \cup {d}
        /\ Goto(t, "post", "opened", d)
     \/ /\ d \notin mOpenedCtrlBlocks
        /\ UNCHANGED mOpenedCtrlBlocks
        /\ Goto(t, "post", "failed", d)

\* Mutant: the cancellation is not reported.
processCancel_Silent(d, q) ==
  /\ mDetectedDeviceKeys' = mDetectedDeviceKeys \cup {d}
  /\ mHasPermissionDeviceKeys' = mHasPermissionDeviceKeys \ {d}
  /\ queue' = q
processCancel(d, q) ==
  /\ mDetectedDeviceKeys' = mDetectedDeviceKeys \cup {d}
  /\ mHasPermissionDeviceKeys' = mHasPermissionDeviceKeys \ {d}
  /\ queue' = Posted(q, "listener", Message("cancel", d))

monitorFrame == UNCHANGED <<systemVars, mDestroyed, syncVars, registryVars, cameraVars,
                            helperVars, clientVars, quit>>

\* mDeviceCheckRunnable, every 150 ms; it reports new devices in any order.
CheckDevices ==
  LET news == {d \in Here : \/ d \notin mDetectedDeviceKeys
                            \/ d \in permitted \ mHasPermissionDeviceKeys}
  IN /\ pc["monitor"] = Idle /\ ~mDestroyed
     /\ \E s \in SetToSeqs({Message("attach", d) : d \in news}) :
          queue' = [queue EXCEPT !["listener"] = @ \o s]
     /\ mDetectedDeviceKeys' = Here /\ mHasPermissionDeviceKeys' = Here \cap permitted
     /\ monitorFrame /\ UNCHANGED <<pc, blockVars>>

\* mUsbReceiver, in the monitor's thread.
PermissionGranted(d) ==
  /\ Handles("monitor", "granted", d) /\ ~mDestroyed
  /\ queue' = Rest("monitor") /\ processOpenDevice("monitor", d) /\ monitorFrame

PermissionDenied(d) ==
  /\ Handles("monitor", "denied", d) /\ ~mDestroyed
  /\ processCancel(d, Rest("monitor"))
  /\ monitorFrame /\ UNCHANGED <<pc, blockVars>>

DeviceDetached(d) ==
  /\ Handles("monitor", "detached", d) /\ ~mDestroyed
  /\ queue' = IF d \in mOpenedCtrlBlocks
              THEN Posted(Rest("monitor"), "listener", Message("closed", d))
              ELSE Rest("monitor")
  /\ mOpenedCtrlBlocks' = mOpenedCtrlBlocks \ {d}
  /\ Goto("monitor", "post", "detach", d)
  /\ monitorFrame /\ UNCHANGED <<keyVars, lostCtrlBlocks>>

\* The end of processOpenDevice, and processDetach.
MonitorPosts ==
  /\ pc["monitor"].at = "post"
  /\ LET what == pc["monitor"].task IN
       queue' = IF what = "detach" /\ mDestroyed THEN queue
                ELSE Posted(queue, "listener", Message(what, pc["monitor"].dev))
  /\ Return("monitor") /\ monitorFrame /\ UNCHANGED <<keyVars, blockVars>>

Monitor ==
  \/ CheckDevices \/ MonitorPosts
  \/ \E d \in Devices : PermissionGranted(d) \/ PermissionDenied(d) \/ DeviceDetached(d)

-----------------------------------------------------------------------------
(* CameraConnection's listener (MyOnDeviceConnectListener). *)

listenerFrame == UNCHANGED <<systemVars, quit, keyVars, mDestroyed,
                             mService, helperDevice, clientVars>>

OnAttach(d) ==
  /\ Handles("listener", "attach", d)
  /\ mDetachedDeviceMap' = mDetachedDeviceMap \ {d}
  /\ queue' = ToClient(Rest("listener"), Message("attach", d))
  /\ listenerFrame /\ UNCHANGED <<pc, blockVars, syncVars, registryVars, cameraVars>>

\* onDeviceOpen: addCamera, then the callbacks.
AddCamera(d) ==
  /\ Handles("listener", "opened", d) /\ Unlocked
  /\ queue' = Rest("listener") /\ Goto("listener", "register", "opened", d)
  /\ mLastCameraKey' = NoDevice /\ mCameras' = mCameras \cup {d}
  /\ released' = IF d \in mCameras THEN released ELSE released \ {d}
  /\ NotifyAll
  /\ listenerFrame
  /\ UNCHANGED <<mDetachedDeviceMap, blockVars, mConnectionSync, mUVCCamera, connected,
                 callbacks, told>>

RegisterCallback ==
  /\ pc["listener"].at = "register"
  /\ LET d == pc["listener"].dev IN
       /\ callbacks' = callbacks \cup {d}
       /\ queue' = ToClient(queue, Message("opened", d))
  /\ Return("listener") /\ listenerFrame
  /\ UNCHANGED <<mDetachedDeviceMap, blockVars, syncVars, registryVars, mUVCCamera,
                 connected, told, released>>

OnDetach(d) ==
  /\ Handles("listener", "detach", d)
  /\ mDetachedDeviceMap' = IF "listener" \in quit THEN mDetachedDeviceMap
                           ELSE mDetachedDeviceMap \cup {d}
  /\ queue' = ToClient(Rest("listener"), Message("detach", d))
  /\ Goto("listener", "remove", "detach", d)
  /\ listenerFrame /\ UNCHANGED <<blockVars, syncVars, registryVars, cameraVars>>

\* removeCamera: enter the section and ask isCameraOpened(), which takes no lock.
\* onDeviceClose goes there directly.
RemoveCamera(d) ==
  /\ Unlocked
  /\ \/ Handles("listener", "closed", d) /\ queue' = Rest("listener")
     \/ pc["listener"] = At("remove", "detach", d) /\ UNCHANGED queue
  /\ mConnectionSync' = "listener"
  /\ Goto("listener", "release", IF d \in mCameras \cap mUVCCamera THEN "close" ELSE "drop", d)
  /\ listenerFrame
  /\ UNCHANGED <<waiting, mDetachedDeviceMap, blockVars, registryVars, cameraVars>>

\* Mutant: the key of the removed camera is not kept.
FinishRemove_NoLastKey ==
  /\ pc["listener"].at = "release"
  /\ LET d == pc["listener"].dev IN
       /\ IF d \in mCameras
          THEN releaseCameraInternal(d, pc["listener"].task = "close", queue)
          ELSE NothingReleased(queue)
       /\ mCameras' = mCameras \ {d} /\ UNCHANGED mLastCameraKey
  /\ mConnectionSync' = "free" /\ NotifyAll
  /\ Return("listener") /\ listenerFrame /\ UNCHANGED mDetachedDeviceMap
\* Mutant: the camera is removed, not released.
FinishRemove_Unreleased ==
  /\ pc["listener"].at = "release"
  /\ LET d == pc["listener"].dev IN
       /\ NothingReleased(queue)
       /\ mCameras' = mCameras \ {d} /\ mLastCameraKey' = d
  /\ mConnectionSync' = "free" /\ NotifyAll
  /\ Return("listener") /\ listenerFrame /\ UNCHANGED mDetachedDeviceMap
FinishRemove ==
  /\ pc["listener"].at = "release"
  /\ LET d == pc["listener"].dev IN
       /\ IF d \in mCameras
          THEN releaseCameraInternal(d, pc["listener"].task = "close", queue)
          ELSE NothingReleased(queue)
       /\ mCameras' = mCameras \ {d} /\ mLastCameraKey' = d
  /\ mConnectionSync' = "free" /\ NotifyAll
  /\ Return("listener") /\ listenerFrame /\ UNCHANGED mDetachedDeviceMap

OnCancel(d) ==
  /\ Handles("listener", "cancel", d)
  /\ queue' = ToClient(Rest("listener"), Message("cancel", d))
  /\ Goto("listener", "notify", "cancel", d)
  /\ listenerFrame
  /\ UNCHANGED <<mDetachedDeviceMap, blockVars, syncVars, registryVars, cameraVars>>

\* The end of onCancel, and onError, which the fragment only shows.
Notify(d) ==
  /\ Unlocked
  /\ \/ pc["listener"] = At("notify", "cancel", d) /\ UNCHANGED queue
     \/ Handles("listener", "failed", d) /\ queue' = Rest("listener")
  /\ NotifyAll /\ Return("listener") /\ listenerFrame
  /\ UNCHANGED <<mDetachedDeviceMap, blockVars, mConnectionSync, registryVars, cameraVars>>

Listener ==
  \/ RegisterCallback \/ FinishRemove
  \/ \E d \in Devices : \/ OnAttach(d) \/ AddCamera(d) \/ OnDetach(d)
                        \/ RemoveCamera(d) \/ OnCancel(d) \/ Notify(d)

-----------------------------------------------------------------------------
(* getCamera(device, true), by thread t. *)

\* What t does with the camera, or without: an opening goes on if it has one.
Continue(t, found) ==
  LET task == pc[t].task IN
  /\ IF task = "open" /\ found THEN Goto(t, "reset", task, pc[t].dev) ELSE Return(t)
  /\ mIsCameraConnected' = (mIsCameraConnected \/ task = "size")

getCameraFrame == UNCHANGED <<systemVars, queue, quit, blockVars, keyVars, mDestroyed,
  mConnectionSync, registryVars, cameraVars, helperVars, mCameraHelper, clientDevice, pictures>>

getCamera(t) ==
  /\ pc[t].at = "get" /\ Unlocked
  /\ LET d == pc[t].dev IN
       IF d \in mCameras \/ mLastCameraKey = d
       THEN Continue(t, d \in mCameras) /\ UNCHANGED waiting
       ELSE /\ waiting' = waiting \cup {t} /\ Goto(t, "wait", pc[t].task, d)
            /\ UNCHANGED mIsCameraConnected
  /\ getCameraFrame

\* The wait is not repeated; selectDevice's ends here too and only logs.
Awaited(t) ==
  /\ pc[t].at = "wait" /\ t \notin waiting /\ Unlocked
  /\ Continue(t, pc[t].dev \in mCameras)
  /\ getCameraFrame /\ UNCHANGED waiting

-----------------------------------------------------------------------------
(* CameraHelper's tasks. *)

asyncFrame == UNCHANGED <<systemVars, clientVars>>

\* selectDevice
SelectTask(d) ==
  /\ Handles("async", "select", d) /\ queue' = Rest("async")
  /\ IF mService /\ d \notin mDetachedDeviceMap
     THEN helperDevice' = d /\ Goto("async", "select", "select", d)
     ELSE UNCHANGED <<helperDevice, pc>>
  /\ asyncFrame
  /\ UNCHANGED <<quit, blockVars, keyVars, mDestroyed, syncVars, registryVars, cameraVars,
                 mService, mDetachedDeviceMap>>

\* The end of selectDevice's section: no camera yet, so it waits.
AwaitSelected(d) ==
  /\ mConnectionSync' = "free"
  /\ IF d \in mCameras THEN Return("async") /\ UNCHANGED waiting
     ELSE waiting' = waiting \cup {"async"} /\ Goto("async", "wait", "select", d)

\* selectDevice's section up to the post of processOpenDevice...
OpenSelected ==
  LET d == pc["async"].dev IN
  /\ pc["async"].at = "select" /\ Unlocked /\ d \in permitted
  /\ processOpenDevice("async", d) /\ mConnectionSync' = "async"
  /\ asyncFrame
  /\ UNCHANGED <<queue, quit, mDestroyed, waiting, registryVars, cameraVars, helperVars>>

PostSelected ==
  LET d == pc["async"].dev IN
  /\ pc["async"].at = "post"
  /\ queue' = Posted(queue, "listener", Message(pc["async"].task, d))
  /\ AwaitSelected(d) /\ asyncFrame
  /\ UNCHANGED <<quit, blockVars, keyVars, mDestroyed, registryVars, cameraVars, helperVars>>

\* ...or all of it, when the permission must be asked for, which may throw.
AskForSelected ==
  LET d == pc["async"].dev IN
  /\ pc["async"].at = "select" /\ Unlocked /\ d \notin permitted
  /\ \/ dialogs' = dialogs \cup {d} /\ UNCHANGED <<queue, keyVars>>
     \/ processCancel(d, queue) /\ UNCHANGED dialogs
  /\ AwaitSelected(d)
  /\ UNCHANGED <<plugged, permitted, quit, blockVars, mDestroyed, registryVars, cameraVars,
                 helperVars, clientVars>>

\* openCamera tests isCameraOpened first; startPreview and takePicture go on to
\* getCamera at once.
CameraTask(task) ==
  LET d == helperDevice
      opened == d \in mCameras \cap mUVCCamera
      runs == /\ mService /\ d # NoDevice
              /\ task = "open" => d \notin mDetachedDeviceMap /\ ~opened
  IN /\ Handles("async", task, NoDevice) /\ (task = "open" => Unlocked)
     /\ queue' = Rest("async")
     /\ IF runs THEN Goto("async", "get", task, d) ELSE UNCHANGED pc
     /\ asyncFrame
     /\ UNCHANGED <<quit, blockVars, keyVars, mDestroyed, syncVars, registryVars,
                    cameraVars, helperVars>>

openFrame == UNCHANGED <<systemVars, quit, blockVars, keyVars, mDestroyed, syncVars,
                         registryVars, released, callbacks, helperVars, clientVars>>

\* CameraInternal.openCamera up to resetUVCCamera, which throws after a release.
ResetUVCCamera ==
  LET d == pc["async"].dev IN
  /\ pc["async"].at = "reset"
  /\ \/ d \in mUVCCamera /\ Goto("async", "tell", "open", d)
     \/ d \notin mUVCCamera \cup released /\ Goto("async", "connect", "open", d)
     \/ d \in released \ mUVCCamera /\ Return("async")
  /\ openFrame /\ UNCHANGED <<queue, mUVCCamera, connected, told>>

\* openUVCCamera: mUVCCamera is set whatever becomes of the clone's open and of
\* nativeConnect.
OpenUVCCamera ==
  LET d == pc["async"].dev IN
  /\ pc["async"].at = "connect"
  /\ mUVCCamera' = mUVCCamera \cup {d}
  /\ \/ MayOpen(d) /\ connected' = connected \cup {d} /\ Goto("async", "tell", "open", d)
     \/ MayOpen(d) /\ connected' = connected \cup {d} /\ Return("async")
     \/ UNCHANGED connected /\ Return("async")
  /\ openFrame /\ UNCHANGED <<queue, told>>

\* Mutant: a camera without callbacks tells too.
ProcessOnCameraOpen_Always ==
  LET d == pc["async"].dev IN
  /\ pc["async"].at = "tell"
  /\ queue' = IF d \in told THEN queue ELSE ToClient(queue, Message("cameraOpen", d))
  /\ told' = told \cup {d}
  /\ Return("async") /\ openFrame /\ UNCHANGED <<mUVCCamera, connected>>
ProcessOnCameraOpen ==
  LET d == pc["async"].dev IN
  /\ pc["async"].at = "tell"
  /\ queue' = IF d \in callbacks \ told THEN ToClient(queue, Message("cameraOpen", d))
              ELSE queue
  /\ told' = told \cup ({d} \cap callbacks)
  /\ Return("async") /\ openFrame /\ UNCHANGED <<mUVCCamera, connected>>

\* Mutant: the camera is dropped without its release.
ReleaseTask_Unreleased ==
  /\ Handles("async", "release", NoDevice) /\ Unlocked
  /\ NothingReleased(Rest("async"))
  /\ mCameras' = mCameras \ {helperDevice} /\ UNCHANGED mLastCameraKey
  /\ Goto("async", "destroy", "release", helperDevice)
  /\ asyncFrame /\ UNCHANGED <<quit, keyVars, mDestroyed, syncVars, helperVars>>
\* release: releaseCamera(mUsbDevice)...
ReleaseTask ==
  LET d == helperDevice
      q == Rest("async")
  IN /\ Handles("async", "release", NoDevice) /\ Unlocked
     /\ IF d \in mCameras THEN releaseCameraInternal(d, d \in mUVCCamera, q)
                          ELSE NothingReleased(q)
     /\ mCameras' = mCameras \ {d} /\ UNCHANGED mLastCameraKey
     /\ Goto("async", "destroy", "release", d)
     /\ asyncFrame /\ UNCHANGED <<quit, keyVars, mDestroyed, syncVars, helperVars>>

\* ...then USBMonitor.destroy. Its loop removes from the table it iterates over:
\* with more than one entry the first removal makes the iterator throw, and the
\* rest of the table is cleared without being closed.
ClosedByDestroy(closed) ==
  /\ closed \subseteq mOpenedCtrlBlocks
  /\ Cardinality(closed) = (IF mOpenedCtrlBlocks = {} THEN 0 ELSE 1)

DestroyMonitor ==
  /\ pc["async"].at = "destroy"
  /\ mDestroyed' = TRUE /\ mDetectedDeviceKeys' = {} /\ UNCHANGED mHasPermissionDeviceKeys
  /\ \E closed \in SUBSET mOpenedCtrlBlocks :
       /\ ClosedByDestroy(closed)
       /\ lostCtrlBlocks' = lostCtrlBlocks \cup (mOpenedCtrlBlocks \ closed)
       /\ \E s \in SetToSeqs({Message("closed", d) : d \in closed}) :
            queue' = [queue EXCEPT !["listener"] = @ \o s, !["monitor"] = <<>>]
  /\ mOpenedCtrlBlocks' = {} /\ quit' = quit \cup {"monitor"}
  /\ Goto("async", "quit", "release", NoDevice)
  /\ asyncFrame /\ UNCHANGED <<syncVars, registryVars, cameraVars, helperVars>>

\* ...then quitSafely of the listener and of this thread: both still handle what
\* they have.
QuitSafely ==
  /\ pc["async"].at = "quit" /\ Return("async")
  /\ quit' = quit \cup {"listener", "async"}
  /\ mService' = FALSE /\ helperDevice' = NoDevice /\ mDetachedDeviceMap' = {}
  /\ asyncFrame
  /\ UNCHANGED <<queue, blockVars, keyVars, mDestroyed, syncVars, registryVars, cameraVars>>

Async ==
  \/ \E d \in Devices : SelectTask(d)
  \/ OpenSelected \/ PostSelected \/ AskForSelected
  \/ \E task \in {"open", "start", "picture"} : CameraTask(task)
  \/ getCamera("async") \/ Awaited("async")
  \/ ResetUVCCamera \/ OpenUVCCamera \/ ProcessOnCameraOpen
  \/ ReleaseTask \/ DestroyMonitor \/ QuitSafely

-----------------------------------------------------------------------------
(* The fragment, on the main thread. *)

mainFrame == UNCHANGED <<systemVars, quit, blockVars, keyVars, mDestroyed, syncVars,
                         registryVars, cameraVars, helperVars>>

\* q after a call of the helper that posts a task.
Call(q, task, d) == IF mCameraHelper THEN Posted(q, "async", Message(task, d)) ELSE q

\* onAttach: attachNewDevice, selectDevice
AttachNewDevice(d) ==
  /\ Handles("main", "attach", d)
  /\ IF clientDevice = NoDevice
     THEN /\ clientDevice' = d /\ mIsCameraConnected' = FALSE
          /\ queue' = Call(Rest("main"), "select", d)
     ELSE queue' = Rest("main") /\ UNCHANGED <<clientDevice, mIsCameraConnected>>
  /\ mainFrame /\ UNCHANGED <<pc, mCameraHelper, pictures>>

\* onDeviceOpen
OpenOnDeviceOpen(d) ==
  /\ Handles("main", "opened", d) /\ queue' = Call(Rest("main"), "open", NoDevice)
  /\ mainFrame /\ UNCHANGED <<pc, clientVars>>

\* onCameraOpen: startPreview, then previewSize, which may wait.
StartOnCameraOpen(d) ==
  /\ Handles("main", "cameraOpen", d) /\ queue' = Call(Rest("main"), "start", NoDevice)
  /\ IF mCameraHelper /\ mService /\ helperDevice # NoDevice
     THEN Goto("main", "get", "size", helperDevice) /\ UNCHANGED mIsCameraConnected
     ELSE mIsCameraConnected' = TRUE /\ UNCHANGED pc
  /\ mainFrame /\ UNCHANGED <<mCameraHelper, clientDevice, pictures>>

OnCameraClose(d) ==
  /\ Handles("main", "cameraClose", d) /\ queue' = Rest("main")
  /\ mIsCameraConnected' = FALSE
  /\ mainFrame /\ UNCHANGED <<pc, mCameraHelper, clientDevice, pictures>>

\* onDetach, onCancel
ForgetDevice(d) ==
  /\ Handles("main", "detach", d) \/ Handles("main", "cancel", d)
  /\ queue' = Rest("main")
  /\ clientDevice' = IF clientDevice = d THEN NoDevice ELSE clientDevice
  /\ mainFrame /\ UNCHANGED <<pc, mCameraHelper, mIsCameraConnected, pictures>>

\* mUsbReceiver.onReceive
ReceiveBroadcast(what, d) ==
  /\ Handles("main", what, d)
  /\ queue' = Posted(Rest("main"), "monitor", Message(what, d))
  /\ mainFrame /\ UNCHANGED <<pc, clientVars>>

\* The user takes a picture, while a camera is connected...
TakeUsbPicture ==
  /\ pc["main"] = Idle /\ mIsCameraConnected /\ mCameraHelper /\ pictures < MaxPictures
  /\ queue' = Call(queue, "picture", NoDevice) /\ pictures' = pictures + 1
  /\ mainFrame /\ UNCHANGED <<pc, mCameraHelper, clientDevice, mIsCameraConnected>>

\* ...or leaves the page: onDestroy.
ClearCameraHelper ==
  /\ pc["main"] = Idle /\ mCameraHelper /\ MayLeave
  /\ queue' = Call(queue, "release", NoDevice) /\ mCameraHelper' = FALSE
  /\ mainFrame /\ UNCHANGED <<pc, clientDevice, mIsCameraConnected, pictures>>

Main ==
  \/ \E d \in Devices :
       \/ AttachNewDevice(d) \/ OpenOnDeviceOpen(d) \/ StartOnCameraOpen(d)
       \/ OnCameraClose(d) \/ ForgetDevice(d)
       \/ \E what \in {"granted", "denied", "detached"} : ReceiveBroadcast(what, d)
  \/ getCamera("main") \/ Awaited("main")

User == TakeUsbPicture \/ ClearCameraHelper

-----------------------------------------------------------------------------
Next == System \/ User \/ Main \/ Async \/ Listener \/ Monitor

\* Threads run, and a question put to the user is answered.
Fairness ==
  /\ WF_vars(Main) /\ WF_vars(Async) /\ WF_vars(Listener) /\ WF_vars(Monitor)
  /\ \A d \in Devices : WF_vars(Answer(d))

Spec == Init /\ [][Next]_vars
LooperSpec == Spec /\ Fairness

-----------------------------------------------------------------------------
(* Properties. *)

Places == {"idle", "post", "register", "remove", "release", "notify", "get", "wait",
           "select", "reset", "connect", "tell", "destroy", "quit"}
Whats  == {"attach", "opened", "failed", "closed", "detach", "cancel", "cameraOpen",
           "cameraClose", "granted", "denied", "detached", "select", "open", "start",
           "picture", "release"}
Tasks  == Whats \cup {"none", "size", "close", "drop"}

\* Types, and who may be where: only the threads that call getCamera wait, a thread
\* that owns mConnectionSync is in one of its sections, a camera that was released
\* tells nobody anything (USBMonitor, CameraConnectionService, CameraInternal).
TypeOK ==
  /\ plugged \in [Devices -> {"absent", "here", "gone"}]
  /\ permitted \subseteq Here /\ dialogs \subseteq Devices
  /\ queue \in [Threads -> Seq([what : Whats, dev : Devices \cup {NoDevice}])]
  /\ quit \subseteq Threads
  /\ pc \in [Threads -> [at : Places, task : Tasks, dev : Devices \cup {NoDevice}]]
  /\ mOpenedCtrlBlocks \subseteq Devices /\ lostCtrlBlocks \subseteq Devices
  /\ mDetectedDeviceKeys \subseteq Devices /\ mHasPermissionDeviceKeys \subseteq Devices
  /\ mDestroyed \in BOOLEAN
  /\ mConnectionSync \in {"free", "async", "listener"}
  /\ mConnectionSync = "async" <=> pc["async"].at = "post"
  /\ mConnectionSync = "listener" <=> pc["listener"].at = "release"
  /\ waiting \subseteq {t \in {"main", "async"} : pc[t].at = "wait"}
  /\ mCameras \subseteq Devices /\ mLastCameraKey \in Devices \cup {NoDevice}
  /\ mUVCCamera \subseteq Devices /\ connected \subseteq mUVCCamera
  /\ callbacks \subseteq Devices /\ told \subseteq callbacks /\ released \subseteq Devices
  /\ mService \in BOOLEAN /\ helperDevice \in Devices \cup {NoDevice}
  /\ mDetachedDeviceMap \subseteq Devices
  /\ mCameraHelper \in BOOLEAN /\ clientDevice \in Devices \cup {NoDevice}
  /\ mIsCameraConnected \in BOOLEAN /\ pictures \in 0..MaxPictures

\* A camera whose connection is open is in mCameras, where a removal or a release
\* finds and closes it: an opening on one thread (openUVCCamera) and a removal on
\* another (removeCamera) never leave an open camera nobody knows.
OpenIsRegistered == connected \subseteq mCameras

\* While selectDevice waits, an answer for its device is on its way: a question to
\* the user, a broadcast, or a message of USBMonitor that will notify
\* (requestPermission, processOpenDevice, processCancel, onCancel, onError).
AnswerPending(d) ==
  \/ d \in dialogs
  \/ \E t \in {"main", "monitor"}, what \in {"granted", "denied"} :
       Contains(queue[t], Message(what, d))
  \/ \E what \in {"opened", "failed", "cancel"} :
       Contains(queue["listener"], Message(what, d))
  \/ pc["monitor"].at = "post" /\ pc["monitor"].dev = d
  \/ pc["listener"] = At("notify", "cancel", d)
SelectHasAnswer ==
  "async" \in waiting /\ pc["async"].task = "select" => AnswerPending(pc["async"].dev)

\* Every wait on mConnectionSync ends (getCamera, selectDevice).
EveryWaitEnds == \A t \in {"main", "async"} : t \in waiting ~> t \notin waiting

\* The main thread and the helper's thread never both wait while nothing is left
\* to wake them: broadcasts come through the main thread ("add this condition to fix
\* async thread deadlock bug", getCamera).
AtRest(t)  == pc[t] = Idle /\ queue[t] = <<>>
NoDeadlock == ~(waiting = {"main", "async"} /\ AtRest("listener") /\ AtRest("monitor"))

\* The connection of a device that was unplugged is closed (mUsbReceiver,
\* removeCamera).
GoneIsClosed ==
  \A d \in Devices : plugged[d] = "gone" /\ d \in connected ~> d \notin connected

\* The helper was released and the connection's listener has handled all it had.
ReleaseDone ==
  "listener" \in quit /\ AtRest("listener")

\* After release no camera is open (CameraHelper.release).
ReleaseClosesCamera == ReleaseDone => connected = {}

=============================================================================
