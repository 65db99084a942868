----------------------- MODULE CameraConnectionProofs -----------------------
(***************************************************************************)
(* CameraConnection for any number of devices and pictures: types, that an *)
(* open camera is known to the registry, that a waiting selectDevice has   *)
(* its answer on the way, and that a release leaves no camera open.        *)
(*                                                                         *)
(* All rest on what a release ends (Life): once USBMonitor is destroyed or *)
(* a looper quits, the helper opens and selects nothing any more. Leaves   *)
(* says that whatever is about to remove a device's camera is there        *)
(* because the device is gone, or after a release: so no opening is under  *)
(* way that could succeed, although removal and opening run on two threads *)
(* and the removal asks isCameraOpened before it acts (Known). Asked is    *)
(* the answer's way through dialog, broadcast and threads.                 *)
(*                                                                         *)
(* A release closes the camera of the helper's device only. So no camera   *)
(* of another device may be open and stay (Holding): the helper must not   *)
(* be given a second device while the first one's camera is open. The      *)
(* fragment selects once per clientDevice, and clientDevice is forgotten   *)
(* on a cancellation or a detachment. Selection follows the selection of a *)
(* device that is live, from the fragment's call through dialog,           *)
(* broadcast, monitor and listener to mCameras: it is at one stage at a    *)
(* time, it is the client's device, and past its first stage the helper    *)
(* has no selection to come. A detachment the fragment hears of is one of  *)
(* a device whose removal is under way (Notices).                          *)
(***************************************************************************)
EXTENDS CameraConnection, SequenceTheorems, FiniteSetTheorems, TLAPS

-----------------------------------------------------------------------------
(* The invariant. *)

Devs   == Devices \cup {NoDevice}
Msgs   == [what : Whats, dev : Devs]
Queues == [Threads -> Seq(Msgs)]
Posts  == [at : Places, task : Tasks, dev : Devs]

\* TypeOK, by groups of variables.
SystemTypes ==
  /\ plugged \in [Devices -> {"absent", "here", "gone"}]
  /\ permitted \subseteq Here /\ dialogs \subseteq Devices
QueueTypes == queue \in Queues /\ quit \subseteq {"async", "listener", "monitor"}
TableTypes ==
  /\ mOpenedCtrlBlocks \subseteq Devices /\ lostCtrlBlocks \subseteq Devices
  /\ mDetectedDeviceKeys \subseteq Devices /\ mHasPermissionDeviceKeys \subseteq Devices
  /\ mDestroyed \in BOOLEAN
SyncTypes ==
  /\ mConnectionSync \in {"free", "async", "listener"}
  /\ mConnectionSync = "async" <=> pc["async"].at = "post"
  /\ mConnectionSync = "listener" <=> pc["listener"].at = "release"
  /\ waiting \subseteq {"main", "async"} /\ \A t \in waiting : pc[t].at = "wait"
CameraTypes ==
  /\ mCameras \subseteq Devices /\ mLastCameraKey \in Devs
  /\ mUVCCamera \subseteq Devices /\ connected \subseteq mUVCCamera
  /\ callbacks \subseteq Devices /\ told \subseteq callbacks /\ released \subseteq Devices
ClientTypes ==
  /\ mService \in BOOLEAN /\ helperDevice \in Devs /\ mDetachedDeviceMap \subseteq Devices
  /\ mCameraHelper \in BOOLEAN /\ clientDevice \in Devs
  /\ mIsCameraConnected \in BOOLEAN /\ pictures \in 0..MaxPictures

\* Where each thread can be, and for which device.
MainPlaces ==
  /\ pc["main"].at \in {"idle", "get", "wait"}
  /\ pc["main"].at # "idle" => pc["main"].dev \in Devices /\ pc["main"].task = "size"
MonitorPlaces ==
  /\ pc["monitor"].at \in {"idle", "post"}
  /\ pc["monitor"].at = "post" =>
       pc["monitor"].task \in {"opened", "failed", "detach"} /\ pc["monitor"].dev \in Devices
ListenerPlaces ==
  /\ pc["listener"].at \in {"idle", "register", "remove", "release", "notify"}
  /\ pc["listener"].at # "idle" => pc["listener"].dev \in Devices
  /\ pc["listener"].at = "release" => pc["listener"].task \in {"close", "drop"}
AsyncPlaces ==
  /\ pc["async"].at \in {"idle", "get", "wait", "select", "post", "reset", "connect", "tell",
                         "destroy", "quit"}
  /\ pc["async"].at \notin {"idle", "destroy", "quit"} => pc["async"].dev \in Devices
  /\ pc["async"].at = "post" => pc["async"].task \in {"opened", "failed"}
  /\ pc["async"].at = "get" => pc["async"].task # "select"
PlaceTypes ==
  pc \in [Threads -> Posts] /\ MainPlaces /\ MonitorPlaces /\ ListenerPlaces /\ AsyncPlaces

Typed == /\ SystemTypes /\ QueueTypes /\ PlaceTypes /\ TableTypes /\ SyncTypes
         /\ CameraTypes /\ ClientTypes

\* A release has begun.
Over == pc["async"].at \in {"destroy", "quit"} \/ ~mService
Life ==
  /\ ~mService => pc["async"].at \in {"idle", "destroy", "quit"}
  /\ mDestroyed \/ quit # {} => pc["async"].at = "quit" \/ ~mService

\* Something on its way will remove d's camera.
Leaving(d) ==
  \/ \E t \in {"main", "monitor"} : Contains(queue[t], Message("detached", d))
  \/ pc["monitor"] = At("post", "detach", d)
  \/ \E what \in {"detach", "closed"} : Contains(queue["listener"], Message(what, d))
  \/ pc["listener"].at \in {"remove", "release"} /\ pc["listener"].dev = d
Leaves == \A d \in Devices : Leaving(d) => plugged[d] = "gone" \/ Over

Known ==
  /\ connected \subseteq mCameras
  /\ pc["async"].at \in {"reset", "connect"} =>
       pc["async"].dev \in mCameras \/ plugged[pc["async"].dev] = "gone"
  /\ pc["listener"].at = "release" /\ pc["listener"].task = "drop" =>
       pc["listener"].dev \notin connected

\* AnswerPending, without the monitor's own posting of a detachment.
Answering(d) ==
  \/ d \in dialogs
  \/ \E t \in {"main", "monitor"}, what \in {"granted", "denied"} :
       Contains(queue[t], Message(what, d))
  \/ \E what \in {"opened", "failed", "cancel"} :
       Contains(queue["listener"], Message(what, d))
  \/ /\ pc["monitor"].at = "post" /\ pc["monitor"].dev = d
     /\ pc["monitor"].task \in {"opened", "failed"}
  \/ pc["listener"] = At("notify", "cancel", d)
Asked == "async" \in waiting /\ pc["async"].task = "select" => Answering(pc["async"].dev)

\* The selection of a device.

\* The messages that carry a selection on, in the queue of each thread.
Kinds(t) ==
  CASE t = "main"     -> {"granted", "denied", "cancel"}
    [] t = "monitor"  -> {"granted", "denied"}
    [] t = "listener" -> {"opened", "failed", "cancel"}
    [] t = "async"    -> {"select"}

\* A sequence has one of those for e; at most one; a task of selection; none after e's.
Carries(s, K, e) == \E i \in 1..Len(s) : s[i].what \in K /\ s[i].dev = e
Once(s, K, e) == \A i, j \in 1..Len(s) :
  s[i].what \in K /\ s[i].dev = e /\ s[j].what \in K /\ s[j].dev = e => i = j
Selects(s) == \E i \in 1..Len(s) : s[i].what = "select"
IsLast(s, e) == \A i, j \in 1..Len(s) :
  s[i].what = "select" /\ s[i].dev = e /\ s[j].what = "select" => j <= i

\* The stages of e's selection, from the task to the camera in mCameras.
Stages == Threads \cup {"selecting", "asking", "posting", "added"}
Reached(s, e) ==
  \/ s \in Threads /\ Carries(queue[s], Kinds(s), e)
  \/ s = "selecting" /\ pc["async"].at \in {"select", "post"} /\ pc["async"].dev = e
  \/ s = "asking" /\ e \in dialogs
  \/ /\ s = "posting" /\ pc["monitor"].at = "post" /\ pc["monitor"].dev = e
     /\ pc["monitor"].task \in {"opened", "failed"}
  \/ s = "added" /\ e \in mCameras

\* The client's device is the only one that is selected, and only once.
Selected(e) ==
  /\ \A s, r \in Stages : Reached(s, e) /\ Reached(r, e) => s = r
  /\ \A s \in Stages : Reached(s, e) => clientDevice = e
  /\ \A t \in Threads : Once(queue[t], Kinds(t), e)
  /\ \A s \in Stages \ {"async"} : Reached(s, e) => ~Selects(queue["async"])
  /\ IsLast(queue["async"], e)

\* removeCamera has begun for e; and e may still be used, or is and nobody removes it yet.
Removing(e) == pc["listener"].at \in {"remove", "release"} /\ pc["listener"].dev = e
Live(e) == plugged[e] # "gone" \/ (e \in connected /\ ~Removing(e))

\* Until a release: a live device is selected once, and a detachment the client will hear of
\* is not a live device's. What is open is the helper's, or its removal has begun.
Selection == ~Over => \A e \in Devices : Live(e) => Selected(e)
Notices ==
  ~Over => \A e \in Devices : Contains(queue["main"], Message("detach", e)) => ~Live(e)
Holding ==
  /\ \A e \in connected : Removing(e) \/ (~Over /\ e = helperDevice)
  /\ pc["async"].at \notin {"idle", "destroy", "quit"} => pc["async"].dev = helperDevice

IInv == Typed /\ Life /\ Leaves /\ Known /\ Asked /\ Selection /\ Notices /\ Holding

-----------------------------------------------------------------------------
(* Messages, queues and places. *)

\* Messages and places are what they were made of.
LEMMA RecordFacts ==
  /\ \A w \in Whats, d \in Devs : Message(w, d) \in Msgs
  /\ \A w, v, d, e : Message(w, d) = Message(v, e) <=> w = v /\ d = e
  /\ \A a \in Places, w \in Tasks, d \in Devs : At(a, w, d) \in Posts
  /\ \A a, w, d : At(a, w, d).at = a /\ At(a, w, d).task = w /\ At(a, w, d).dev = d
  /\ Idle = At("idle", "none", NoDevice) /\ Idle \in Posts
BY DEF Message, Msgs, At, Posts, Idle, Places, Tasks, Devs

\* Appending a message to a sequence.
LEMMA AppendFacts ==
  ASSUME NEW s \in Seq(Msgs), NEW m \in Msgs
  PROVE  Append(s, m) \in Seq(Msgs) /\ \A x : Contains(Append(s, m), x) <=> Contains(s, x) \/ x = m
<1>1. /\ Append(s, m) \in Seq(Msgs) /\ Len(s) \in Nat /\ Len(Append(s, m)) = Len(s) + 1
      /\ \A i \in 1..Len(s) : Append(s, m)[i] = s[i]
      /\ Append(s, m)[Len(s) + 1] = m
  BY AppendProperties, LenProperties
<1>2. ASSUME NEW x, Contains(Append(s, m), x) PROVE Contains(s, x) \/ x = m
  BY <1>1, <1>2 DEF Contains
<1>3. ASSUME NEW x, Contains(s, x) \/ x = m PROVE Contains(Append(s, m), x)
  <2>1. CASE Contains(s, x)
    BY <1>1, <2>1 DEF Contains
  <2>2. CASE x = m
    <3>1. Len(s) + 1 \in 1..Len(Append(s, m))
      BY <1>1
    <3> QED  BY <1>1, <2>2, <3>1 DEF Contains
  <2> QED  BY <1>3, <2>1, <2>2
<1> QED  BY <1>1, <1>2, <1>3

\* Taking the first message off a sequence.
LEMMA TailFacts ==
  ASSUME NEW s \in Seq(Msgs), s # <<>>
  PROVE  /\ Tail(s) \in Seq(Msgs) /\ Contains(s, Head(s))
         /\ \A x : /\ Contains(Tail(s), x) => Contains(s, x)
                   /\ Contains(s, x) => Contains(Tail(s), x) \/ x = Head(s)
<1>1. /\ Tail(s) \in Seq(Msgs) /\ Len(s) \in Nat \ {0} /\ Len(Tail(s)) = Len(s) - 1
      /\ s[1] = Head(s) /\ \A i \in 1..Len(Tail(s)) : Tail(s)[i] = s[i + 1]
  OBVIOUS
<1>2. ASSUME NEW x, Contains(Tail(s), x) PROVE Contains(s, x)
  <2>1. PICK i \in 1..Len(Tail(s)) : Tail(s)[i] = x
    BY <1>2 DEF Contains
  <2>2. i + 1 \in 1..Len(s) /\ s[i + 1] = x
    BY <1>1, <2>1
  <2> QED  BY <2>2 DEF Contains
<1>3. ASSUME NEW x, Contains(s, x), x # Head(s) PROVE Contains(Tail(s), x)
  <2>1. PICK i \in 1..Len(s) : s[i] = x
    BY <1>3 DEF Contains
  <2>2. i - 1 \in 1..Len(Tail(s)) /\ Tail(s)[i - 1] = x
    BY <1>1, <1>3, <2>1
  <2> QED  BY <2>2 DEF Contains
<1>4. Contains(s, Head(s))
  BY <1>1 DEF Contains
<1> QED  BY <1>1, <1>2, <1>3, <1>4

\* Posting to a looper, which may have quit.
LEMMA PostedFacts ==
  \A q \in Queues, t \in Threads, m \in Msgs :
    /\ Posted(q, t, m) \in Queues
    /\ \A u \in Threads : u # t => Posted(q, t, m)[u] = q[u]
    /\ \A x : Contains(Posted(q, t, m)[t], x) <=> Contains(q[t], x) \/ (t \notin quit /\ x = m)
<1> SUFFICES ASSUME NEW q \in Queues, NEW t \in Threads, NEW m \in Msgs
    PROVE /\ Posted(q, t, m) \in Queues
          /\ \A u \in Threads : u # t => Posted(q, t, m)[u] = q[u]
          /\ \A x : Contains(Posted(q, t, m)[t], x) <=> Contains(q[t], x) \/ (t \notin quit /\ x = m)
  OBVIOUS
<1>1. CASE t \in quit
  BY <1>1 DEF Posted
<1>2. CASE t \notin quit
  <2>1. /\ q[t] \in Seq(Msgs)
        /\ Posted(q, t, m) = [q EXCEPT ![t] = Append(q[t], m)]
    BY <1>2 DEF Posted, Queues
  <2>2. /\ Append(q[t], m) \in Seq(Msgs)
        /\ \A x : Contains(Append(q[t], m), x) <=> Contains(q[t], x) \/ x = m
    BY <2>1, AppendFacts
  <2>3. Posted(q, t, m) \in Queues
    BY <2>1, <2>2 DEF Queues
  <2>4. Posted(q, t, m)[t] = Append(q[t], m) /\ \A u \in Threads \ {t} : Posted(q, t, m)[u] = q[u]
    BY <2>1 DEF Queues
  <2> QED  BY <1>2, <2>2, <2>3, <2>4
<1> QED  BY <1>1, <1>2

\* Posting to the listener.
LEMMA ToListener ==
  \A q \in Queues, m \in Msgs :
    /\ Posted(q, "listener", m) \in Queues
    /\ \A u \in Threads : u # "listener" => Posted(q, "listener", m)[u] = q[u]
    /\ \A x : Contains(Posted(q, "listener", m)["listener"], x) <=>
                Contains(q["listener"], x) \/ ("listener" \notin quit /\ x = m)
<1> DEFINE t == "listener"
<1>1. t \in Threads
  BY DEF Threads
<1> HIDE DEF t
<1>2. \A q \in Queues, m \in Msgs :
        /\ Posted(q, t, m) \in Queues
        /\ \A u \in Threads : u # t => Posted(q, t, m)[u] = q[u]
        /\ \A x : Contains(Posted(q, t, m)[t], x) <=> Contains(q[t], x) \/ (t \notin quit /\ x = m)
  BY <1>1, PostedFacts
<1> QED  BY <1>2 DEF t

\* Posting to the monitor.
LEMMA ToMonitor ==
  \A q \in Queues, m \in Msgs :
    /\ Posted(q, "monitor", m) \in Queues
    /\ \A u \in Threads : u # "monitor" => Posted(q, "monitor", m)[u] = q[u]
    /\ \A x : Contains(Posted(q, "monitor", m)["monitor"], x) <=>
                Contains(q["monitor"], x) \/ ("monitor" \notin quit /\ x = m)
<1> DEFINE t == "monitor"
<1>1. t \in Threads
  BY DEF Threads
<1> HIDE DEF t
<1>2. \A q \in Queues, m \in Msgs :
        /\ Posted(q, t, m) \in Queues
        /\ \A u \in Threads : u # t => Posted(q, t, m)[u] = q[u]
        /\ \A x : Contains(Posted(q, t, m)[t], x) <=> Contains(q[t], x) \/ (t \notin quit /\ x = m)
  BY <1>1, PostedFacts
<1> QED  BY <1>2 DEF t

\* Posting to the helper's thread.
LEMMA ToAsync ==
  \A q \in Queues, m \in Msgs :
    /\ Posted(q, "async", m) \in Queues
    /\ \A u \in Threads : u # "async" => Posted(q, "async", m)[u] = q[u]
    /\ \A x : Contains(Posted(q, "async", m)["async"], x) <=>
                Contains(q["async"], x) \/ ("async" \notin quit /\ x = m)
<1> DEFINE t == "async"
<1>1. t \in Threads
  BY DEF Threads
<1> HIDE DEF t
<1>2. \A q \in Queues, m \in Msgs :
        /\ Posted(q, t, m) \in Queues
        /\ \A u \in Threads : u # t => Posted(q, t, m)[u] = q[u]
        /\ \A x : Contains(Posted(q, t, m)[t], x) <=> Contains(q[t], x) \/ (t \notin quit /\ x = m)
  BY <1>1, PostedFacts
<1> QED  BY <1>2 DEF t

\* Posting to the main thread, whose looper never quits.
LEMMA ToMain ==
  QueueTypes =>
    \A q \in Queues, m \in Msgs :
      /\ Posted(q, "main", m) \in Queues
      /\ \A u \in Threads : u # "main" => Posted(q, "main", m)[u] = q[u]
      /\ \A x : Contains(Posted(q, "main", m)["main"], x) <=> Contains(q["main"], x) \/ x = m
<1> DEFINE t == "main"
<1>1. t \in Threads /\ (QueueTypes => t \notin quit)
  BY DEF Threads, QueueTypes
<1> HIDE DEF t
<1>2. QueueTypes =>
        \A q \in Queues, m \in Msgs :
          /\ Posted(q, t, m) \in Queues
          /\ \A u \in Threads : u # t => Posted(q, t, m)[u] = q[u]
          /\ \A x : Contains(Posted(q, t, m)[t], x) <=> Contains(q[t], x) \/ x = m
  BY <1>1, PostedFacts
<1> QED  BY <1>2 DEF t

\* Reporting to the client, until the listener quits.
LEMMA ToClientFacts ==
  QueueTypes =>
    \A q \in Queues, m \in Msgs :
      /\ ToClient(q, m) \in Queues
      /\ \A u \in Threads : u # "main" => ToClient(q, m)[u] = q[u]
      /\ \A x : /\ Contains(q["main"], x) => Contains(ToClient(q, m)["main"], x)
                /\ Contains(ToClient(q, m)["main"], x) => Contains(q["main"], x) \/ x = m
BY ToMain DEF ToClient

\* Taking a looper's first message.
LEMMA RestFacts ==
  queue \in Queues =>
    \A t \in Threads : \A w, d : Handles(t, w, d) =>
      /\ Rest(t) \in Queues /\ Contains(queue[t], Message(w, d)) /\ pc[t] = Idle
      /\ \A u \in Threads : u # t => Rest(t)[u] = queue[u]
      /\ \A x : /\ Contains(Rest(t)[t], x) => Contains(queue[t], x)
                /\ Contains(queue[t], x) => Contains(Rest(t)[t], x) \/ x = Message(w, d)
<1> SUFFICES ASSUME queue \in Queues, NEW t \in Threads, NEW w, NEW d, Handles(t, w, d)
    PROVE /\ Rest(t) \in Queues /\ Contains(queue[t], Message(w, d)) /\ pc[t] = Idle
          /\ \A u \in Threads : u # t => Rest(t)[u] = queue[u]
          /\ \A x : /\ Contains(Rest(t)[t], x) => Contains(queue[t], x)
                    /\ Contains(queue[t], x) => Contains(Rest(t)[t], x) \/ x = Message(w, d)
  OBVIOUS
<1>1. queue[t] \in Seq(Msgs) /\ queue[t] # <<>> /\ Head(queue[t]) = Message(w, d) /\ pc[t] = Idle
  BY DEF Handles, Queues
<1>2. /\ Tail(queue[t]) \in Seq(Msgs) /\ Contains(queue[t], Message(w, d))
      /\ \A x : /\ Contains(Tail(queue[t]), x) => Contains(queue[t], x)
                /\ Contains(queue[t], x) => Contains(Tail(queue[t]), x) \/ x = Message(w, d)
  BY <1>1, TailFacts
<1>3. Rest(t) \in Queues
  BY <1>2 DEF Rest, Queues
<1>4. Rest(t)[t] = Tail(queue[t]) /\ \A u \in Threads \ {t} : Rest(t)[u] = queue[u]
  BY DEF Rest, Queues
<1> QED  BY <1>1, <1>2, <1>3, <1>4

\* Going somewhere else in one's code.
LEMMA GotoFacts ==
  pc \in [Threads -> Posts] =>
    \A t \in Threads :
      /\ \A a \in Places, w \in Tasks, d \in Devs : Goto(t, a, w, d) =>
           /\ pc' \in [Threads -> Posts] /\ pc'[t] = At(a, w, d)
           /\ \A u \in Threads : u # t => pc'[u] = pc[u]
      /\ Return(t) => /\ pc' \in [Threads -> Posts] /\ pc'[t] = Idle
                      /\ \A u \in Threads : u # t => pc'[u] = pc[u]
BY RecordFacts DEF Goto, Return

\* Messages for a set of devices, in any order.
LEMMA SeveralFacts ==
  ASSUME NEW w \in Whats, NEW D \in SUBSET Devices, NEW q \in Seq(Msgs),
         NEW s \in SetToSeqs({Message(w, d) : d \in D})
  PROVE  /\ q \o s \in Seq(Msgs)
         /\ \A x : /\ Contains(q, x) => Contains(q \o s, x)
                   /\ Contains(q \o s, x) => Contains(q, x) \/ \E d \in D : x = Message(w, d)
<1> DEFINE M == {Message(w, d) : d \in D}
<1>1. IsFiniteSet(D)
  BY FS_Subset, ConnectionAssumption
<1>2. IsFiniteSet(M)
  <2>1. [d \in D |-> Message(w, d)] \in Surjection(D, M)
    BY DEF Surjection
  <2> QED  BY <1>1, <2>1, FS_Surjection DEF ExistsSurjection
<1>3. M \subseteq Msgs
  BY RecordFacts DEF Devs
<1>4. Cardinality(M) \in Nat
  BY <1>2, FS_CardinalityType
<1>5. s \in [1..Cardinality(M) -> M]
  BY DEF SetToSeqs
<1> DEFINE n == Cardinality(M)
<1>6. \A x : x \in M => \E d \in D : x = Message(w, d)
  OBVIOUS
<1> HIDE DEF M
<1>7. s \in Seq(M) /\ Len(s) = n /\ \A i \in 1..n : s[i] \in M
  BY <1>4, <1>5
<1>8. s \in Seq(Msgs)
  BY <1>3, <1>7, SeqMonotonic
<1>9. /\ q \o s \in Seq(Msgs) /\ Len(q) \in Nat /\ Len(q \o s) = Len(q) + n
      /\ \A i \in 1..Len(q) + n : (q \o s)[i] = IF i <= Len(q) THEN q[i] ELSE s[i - Len(q)]
  BY <1>4, <1>7, <1>8, ConcatProperties, LenProperties
<1>10. ASSUME NEW x, Contains(q, x) PROVE Contains(q \o s, x)
  BY <1>4, <1>9, <1>10 DEF Contains
<1>11. ASSUME NEW x, Contains(q \o s, x) PROVE Contains(q, x) \/ x \in M
  <2>1. PICK i \in 1..Len(q) + n : (q \o s)[i] = x
    BY <1>9, <1>11 DEF Contains
  <2>2. CASE i <= Len(q)
    BY <1>4, <1>9, <2>1, <2>2 DEF Contains
  <2>3. CASE ~(i <= Len(q))
    BY <1>4, <1>7, <1>9, <2>1, <2>3
  <2> QED  BY <2>2, <2>3
<1> QED  BY <1>6, <1>9, <1>10, <1>11

-----------------------------------------------------------------------------
(* Types. *)

\* What the release of a camera does to the queues and to the cameras.
LEMMA ReleaseFacts ==
  ASSUME QueueTypes, CameraTypes, NEW q \in Queues, NEW d \in Devices, NEW o \in BOOLEAN,
         releaseCameraInternal(d, o, q)
  PROVE  /\ queue' \in Queues
         /\ \A u \in Threads : u \notin {"main", "listener"} => queue'[u] = q[u]
         /\ \A x : /\ Contains(q["listener"], x) => Contains(queue'["listener"], x)
                   /\ Contains(queue'["listener"], x) =>
                        Contains(q["listener"], x) \/ x = Message("closed", d)
         /\ \A x : /\ Contains(q["main"], x) => Contains(queue'["main"], x)
                   /\ Contains(queue'["main"], x) =>
                        Contains(q["main"], x) \/ x = Message("cameraClose", d)
         /\ mUVCCamera' = (IF o THEN mUVCCamera \ {d} ELSE mUVCCamera)
         /\ connected' = (IF o THEN connected \ {d} ELSE connected)
         /\ callbacks' = callbacks \ {d} /\ told' = told \ {d} /\ released' = released \cup {d}
<1> DEFINE shut == IF o THEN {d} \cap mUVCCamera ELSE {}
           cut  == shut \cap connected
           q1   == IF cut # {} THEN Posted(q, "listener", Message("closed", d)) ELSE q
           q2   == IF shut \cap told # {} THEN ToClient(q1, Message("cameraClose", d)) ELSE q1
<1>1. /\ queue' = q2 /\ mUVCCamera' = mUVCCamera \ shut /\ connected' = connected \ shut
      /\ callbacks' = callbacks \ {d} /\ told' = told \ {d} /\ released' = released \cup {d}
  BY DEF releaseCameraInternal
<1>2. Message("closed", d) \in Msgs /\ Message("cameraClose", d) \in Msgs
  BY RecordFacts DEF Whats, Devs
<1>3. "listener" \in Threads /\ "main" \in Threads
  BY DEF Threads
<1>4. /\ mUVCCamera \ shut = (IF o THEN mUVCCamera \ {d} ELSE mUVCCamera)
      /\ connected \ shut = (IF o THEN connected \ {d} ELSE connected)
  BY DEF CameraTypes
<1>5. /\ q1 \in Queues /\ \A u \in Threads : u # "listener" => q1[u] = q[u]
      /\ \A x : /\ Contains(q["listener"], x) => Contains(q1["listener"], x)
                /\ Contains(q1["listener"], x) => Contains(q["listener"], x) \/ x = Message("closed", d)
  <2>1. CASE cut = {}
    BY <2>1
  <2>2. CASE cut # {}
    <3> DEFINE p == Posted(q, "listener", Message("closed", d))
    <3>1. q1 = p
      BY <2>2
    <3>2. /\ p \in Queues /\ \A u \in Threads : u # "listener" => p[u] = q[u]
          /\ \A x : /\ Contains(q["listener"], x) => Contains(p["listener"], x)
                    /\ Contains(p["listener"], x) => Contains(q["listener"], x) \/ x = Message("closed", d)
      BY <1>2, ToListener
    <3> HIDE DEF p, q1
    <3> QED  BY <3>1, <3>2
  <2> QED  BY <2>1, <2>2
<1> HIDE DEF q1
<1>6. /\ q2 \in Queues /\ \A u \in Threads : u # "main" => q2[u] = q1[u]
      /\ \A x : /\ Contains(q1["main"], x) => Contains(q2["main"], x)
                /\ Contains(q2["main"], x) => Contains(q1["main"], x) \/ x = Message("cameraClose", d)
  <2>1. CASE shut \cap told = {}
    BY <1>5, <2>1
  <2>2. CASE shut \cap told # {}
    <3>1. q2 = ToClient(q1, Message("cameraClose", d))
      BY <2>2
    <3> QED  BY <1>2, <1>5, <3>1, ToClientFacts
  <2> QED  BY <2>1, <2>2
<1> HIDE DEF shut, cut, q2
<1> QED  BY <1>1, <1>3, <1>4, <1>5, <1>6

\* What the user plugs and permits stays in its types.
LEMMA SystemStep == Typed /\ Next => SystemTypes'
<1> SUFFICES ASSUME Typed, Next PROVE SystemTypes'
  OBVIOUS
<1>1. CASE System
  BY <1>1 DEF Typed, SystemTypes, Here, System, Plug, GrantBySystem, Unplug, Answer
<1>2. CASE Main \/ User
  BY <1>2 DEF Typed, SystemTypes, Here, systemVars, Main, AttachNewDevice, OpenOnDeviceOpen,
              StartOnCameraOpen, OnCameraClose, ForgetDevice, ReceiveBroadcast, getCamera, Awaited,
              mainFrame, getCameraFrame, User, TakeUsbPicture, ClearCameraHelper
<1>3. CASE Listener \/ Monitor
  BY <1>3 DEF Typed, SystemTypes, Here, systemVars, Listener, OnAttach, AddCamera, RegisterCallback,
              OnDetach, RemoveCamera, FinishRemove, OnCancel, Notify, listenerFrame, Monitor,
              CheckDevices, MonitorPosts, PermissionGranted, PermissionDenied, DeviceDetached,
              monitorFrame
<1>4. CASE Async
  <2>1. CASE AskForSelected
    BY <1>4, <2>1 DEF Typed, SystemTypes, PlaceTypes, AsyncPlaces, AskForSelected, Here
  <2>2. CASE ~AskForSelected
    BY <1>4, <2>2 DEF Typed, SystemTypes, Here, systemVars, Async, SelectTask, OpenSelected,
                      PostSelected, AskForSelected, CameraTask, getCamera, Awaited, ResetUVCCamera,
                      OpenUVCCamera, ProcessOnCameraOpen, ReleaseTask, DestroyMonitor, QuitSafely,
                      asyncFrame, openFrame, getCameraFrame
  <2> QED  BY <2>1, <2>2
<1> QED  BY <1>1, <1>2, <1>3, <1>4 DEF Next

\* USBMonitor's tables hold devices.
LEMMA TableStep == Typed /\ Next => TableTypes'
<1> SUFFICES ASSUME Typed, Next PROVE TableTypes'
  OBVIOUS
<1>1. CASE System \/ Main \/ User
  BY <1>1 DEF Typed, TableTypes, blockVars, keyVars, System, Plug, GrantBySystem, Unplug, Answer,
              Main, AttachNewDevice, OpenOnDeviceOpen, StartOnCameraOpen, OnCameraClose,
              ForgetDevice, ReceiveBroadcast, getCamera, Awaited, mainFrame, getCameraFrame, User,
              TakeUsbPicture, ClearCameraHelper
<1>2. CASE Listener
  BY <1>2 DEF Typed, TableTypes, blockVars, keyVars, Listener, OnAttach, AddCamera,
              RegisterCallback, OnDetach, RemoveCamera, FinishRemove, OnCancel, Notify,
              listenerFrame, NothingReleased, releaseCameraInternal
<1>3. CASE Monitor
  BY <1>3 DEF Typed, TableTypes, blockVars, keyVars, Here, Monitor, CheckDevices, MonitorPosts,
              PermissionGranted, PermissionDenied, DeviceDetached, monitorFrame, processOpenDevice,
              processCancel
<1>4. CASE Async
  <2>1. CASE OpenSelected \/ AskForSelected
    BY <2>1 DEF Typed, TableTypes, PlaceTypes, AsyncPlaces, blockVars, keyVars, OpenSelected,
                AskForSelected, processOpenDevice, processCancel
  <2>2. CASE ReleaseTask
    BY <2>2 DEF Typed, TableTypes, blockVars, keyVars, ReleaseTask, NothingReleased,
                releaseCameraInternal
  <2>3. CASE DestroyMonitor
    BY <2>3 DEF Typed, TableTypes, DestroyMonitor
  <2>4. CASE ~(OpenSelected \/ AskForSelected \/ ReleaseTask \/ DestroyMonitor)
    BY <1>4, <2>4 DEF Typed, TableTypes, blockVars, keyVars, Async, SelectTask, OpenSelected,
                      PostSelected, AskForSelected, CameraTask, getCamera, Awaited, ResetUVCCamera,
                      OpenUVCCamera, ProcessOnCameraOpen, ReleaseTask, DestroyMonitor, QuitSafely,
                      asyncFrame, openFrame, getCameraFrame
  <2> QED  BY <2>1, <2>2, <2>3, <2>4
<1> QED  BY <1>1, <1>2, <1>3, <1>4 DEF Next

\* The cameras: what is connected has its field set, what was told has a callback.
LEMMA CameraStep == Typed /\ Next => CameraTypes'
<1> SUFFICES ASSUME Typed, Next PROVE CameraTypes'
  OBVIOUS
<1> USE DEF Devs
<1>1. CASE System \/ Main \/ User \/ Monitor
  BY <1>1 DEF Typed, CameraTypes, registryVars, cameraVars, System, Plug, GrantBySystem, Unplug,
              Answer, Main, AttachNewDevice, OpenOnDeviceOpen, StartOnCameraOpen, OnCameraClose,
              ForgetDevice, ReceiveBroadcast, getCamera, Awaited, mainFrame, getCameraFrame, User,
              TakeUsbPicture, ClearCameraHelper, Monitor, CheckDevices, MonitorPosts,
              PermissionGranted, PermissionDenied, DeviceDetached, monitorFrame
<1>2. CASE Listener
  <2>1. CASE FinishRemove
    BY <2>1 DEF Typed, CameraTypes, PlaceTypes, ListenerPlaces, FinishRemove, NothingReleased,
                releaseCameraInternal, cameraVars
  <2>2. CASE RegisterCallback
    BY <2>2 DEF Typed, CameraTypes, PlaceTypes, ListenerPlaces, RegisterCallback, registryVars
  <2>3. CASE ~(FinishRemove \/ RegisterCallback)
    BY <1>2, <2>3 DEF Typed, CameraTypes, registryVars, cameraVars, Listener, OnAttach, AddCamera,
                      RegisterCallback, OnDetach, RemoveCamera, FinishRemove, OnCancel, Notify,
                      listenerFrame
  <2> QED  BY <2>1, <2>2, <2>3
<1>3. CASE Async
  <2>1. CASE OpenUVCCamera \/ ProcessOnCameraOpen
    BY <2>1 DEF Typed, CameraTypes, PlaceTypes, AsyncPlaces, OpenUVCCamera, ProcessOnCameraOpen,
                openFrame, registryVars
  <2>2. CASE ReleaseTask
    BY <2>2 DEF Typed, CameraTypes, ReleaseTask, NothingReleased, releaseCameraInternal, cameraVars
  <2>3. CASE ~(OpenUVCCamera \/ ProcessOnCameraOpen \/ ReleaseTask)
    BY <1>3, <2>3 DEF Typed, CameraTypes, registryVars, cameraVars, Async, SelectTask, OpenSelected,
                      PostSelected, AskForSelected, CameraTask, getCamera, Awaited, ResetUVCCamera,
                      OpenUVCCamera, ProcessOnCameraOpen, ReleaseTask, DestroyMonitor, QuitSafely,
                      asyncFrame, openFrame, getCameraFrame
  <2> QED  BY <2>1, <2>2, <2>3
<1> QED  BY <1>1, <1>2, <1>3 DEF Next

\* The helper and the fragment.
LEMMA ClientStep == Typed /\ Next => ClientTypes'
<1> SUFFICES ASSUME Typed, Next PROVE ClientTypes'
  OBVIOUS
<1> USE DEF Devs
<1>1. CASE System \/ Monitor
  BY <1>1 DEF Typed, ClientTypes, helperVars, clientVars, System, Plug, GrantBySystem, Unplug,
              Answer, Monitor, CheckDevices, MonitorPosts, PermissionGranted, PermissionDenied,
              DeviceDetached, monitorFrame
<1>2. CASE Main
  <2>1. CASE getCamera("main") \/ Awaited("main")
    BY <2>1 DEF Typed, ClientTypes, getCamera, Awaited, getCameraFrame, Continue, helperVars
  <2>2. CASE ~(getCamera("main") \/ Awaited("main"))
    BY <1>2, <2>2 DEF Typed, ClientTypes, helperVars, clientVars, Main, AttachNewDevice,
                      OpenOnDeviceOpen, StartOnCameraOpen, OnCameraClose, ForgetDevice,
                      ReceiveBroadcast, getCamera, Awaited, mainFrame, getCameraFrame
  <2> QED  BY <2>1, <2>2
<1>3. CASE User
  <2>1. pictures \in 0..MaxPictures /\ MaxPictures \in Nat
    BY ConnectionAssumption DEF Typed, ClientTypes
  <2>2. pictures' \in 0..MaxPictures
    BY <1>3, <2>1 DEF User, TakeUsbPicture, ClearCameraHelper, mainFrame
  <2> QED  BY <1>3, <2>2 DEF Typed, ClientTypes, helperVars, User, TakeUsbPicture,
                             ClearCameraHelper, mainFrame
<1>4. CASE Listener
  BY <1>4 DEF Typed, ClientTypes, helperVars, clientVars, Listener, OnAttach, AddCamera,
              RegisterCallback, OnDetach, RemoveCamera, FinishRemove, OnCancel, Notify,
              listenerFrame
<1>5. CASE Async
  <2>1. CASE getCamera("async") \/ Awaited("async")
    BY <2>1 DEF Typed, ClientTypes, getCamera, Awaited, getCameraFrame, Continue, helperVars
  <2>2. CASE ~(getCamera("async") \/ Awaited("async"))
    BY <1>5, <2>2 DEF Typed, ClientTypes, helperVars, clientVars, Async, SelectTask, OpenSelected,
                      PostSelected, AskForSelected, CameraTask, getCamera, Awaited, ResetUVCCamera,
                      OpenUVCCamera, ProcessOnCameraOpen, ReleaseTask, DestroyMonitor, QuitSafely,
                      asyncFrame, openFrame, getCameraFrame
  <2> QED  BY <2>1, <2>2
<1> QED  BY <1>1, <1>2, <1>3, <1>4, <1>5 DEF Next

\* A thread that goes somewhere goes there alone.
Moved(t) == pc' \in [Threads -> Posts] /\ \A u \in Threads : u # t => pc'[u] = pc[u]

\* Where a thread's step can take it.
LEMMA MoveFacts ==
  PlaceTypes =>
    /\ \A t \in Threads : pc' = pc \/ Return(t) => Moved(t)
    /\ \A t \in Threads : Return(t) => pc'[t].at = "idle"
    /\ \A t \in Threads, a \in Places, w \in Tasks, d \in Devs :
         Goto(t, a, w, d) => Moved(t) /\ pc'[t].at = a /\ pc'[t].task = w /\ pc'[t].dev = d
    /\ \A t \in Threads : pc[t].task \in Tasks /\ pc[t].dev \in Devs
    /\ Threads = {"main", "async", "listener", "monitor"}
    /\ {"get", "wait", "select", "post", "reset", "connect", "tell", "destroy", "quit",
        "register", "remove", "release", "notify"} \subseteq Places
    /\ {"none", "size", "close", "drop", "opened", "failed", "detach", "cancel", "select",
        "open", "start", "picture", "release"} \subseteq Tasks
    /\ Devices \subseteq Devs /\ NoDevice \in Devs
<1> SUFFICES ASSUME PlaceTypes
    PROVE /\ \A t \in Threads : pc' = pc \/ Return(t) => Moved(t)
          /\ \A t \in Threads : Return(t) => pc'[t].at = "idle"
          /\ \A t \in Threads, a \in Places, w \in Tasks, d \in Devs :
               Goto(t, a, w, d) => Moved(t) /\ pc'[t].at = a /\ pc'[t].task = w /\ pc'[t].dev = d
          /\ \A t \in Threads : pc[t].task \in Tasks /\ pc[t].dev \in Devs
  BY DEF Threads, Places, Tasks, Whats, Devs
<1>1. pc \in [Threads -> Posts]
  BY DEF PlaceTypes
<1>2. \A t \in Threads : pc' = pc \/ Return(t) => Moved(t)
  BY <1>1, GotoFacts DEF Moved
<1>3. \A t \in Threads : Return(t) => pc'[t].at = "idle"
  BY <1>1, GotoFacts, RecordFacts
<1>4. \A t \in Threads, a \in Places, w \in Tasks, d \in Devs :
        Goto(t, a, w, d) => Moved(t) /\ pc'[t].at = a /\ pc'[t].task = w /\ pc'[t].dev = d
  BY <1>1, GotoFacts, RecordFacts DEF Moved
<1>5. \A t \in Threads : pc[t].task \in Tasks /\ pc[t].dev \in Devs
  BY <1>1 DEF Posts
<1> QED  BY <1>2, <1>3, <1>4, <1>5

\* The main thread, from inside its handlers (getCamera, previewSize).
LEMMA MainMoves == Typed /\ Main => Moved("main") /\ MainPlaces'
<1> SUFFICES ASSUME Typed, Main PROVE Moved("main") /\ MainPlaces'
  OBVIOUS
<1>1. PlaceTypes /\ MainPlaces /\ helperDevice \in Devs
  BY DEF Typed, PlaceTypes, ClientTypes
<1>2. CASE pc' = pc
  BY <1>1, <1>2, MoveFacts DEF MainPlaces
<1>3. CASE getCamera("main") \/ Awaited("main")
  <2>1. pc["main"].task = "size" /\ pc["main"].dev \in Devices
    BY <1>1, <1>3 DEF getCamera, Awaited, MainPlaces
  <2>2. Return("main") \/ Goto("main", "wait", "size", pc["main"].dev)
    BY <1>3, <2>1 DEF getCamera, Awaited, Continue
  <2> QED  BY <1>1, <2>1, <2>2, MoveFacts DEF MainPlaces
<1>4. ASSUME NEW d \in Devices, StartOnCameraOpen(d) PROVE Moved("main") /\ MainPlaces'
  <2>1. pc' = pc \/ (helperDevice \in Devices /\ Goto("main", "get", "size", helperDevice))
    BY <1>1, <1>4 DEF StartOnCameraOpen, Devs
  <2> QED  BY <1>1, <1>2, <2>1, MoveFacts DEF MainPlaces
<1> QED  BY <1>2, <1>3, <1>4 DEF Main, AttachNewDevice, OpenOnDeviceOpen, OnCameraClose,
                                 ForgetDevice, ReceiveBroadcast

\* The monitor's thread, to the posts that end its handlers.
LEMMA MonitorMoves == Typed /\ Monitor => Moved("monitor") /\ MonitorPlaces'
<1> SUFFICES ASSUME Typed, Monitor PROVE Moved("monitor") /\ MonitorPlaces'
  OBVIOUS
<1>1. PlaceTypes /\ MonitorPlaces
  BY DEF Typed, PlaceTypes
<1>2. CASE pc' = pc
  BY <1>1, <1>2, MoveFacts DEF MonitorPlaces
<1>3. CASE Return("monitor")
  BY <1>1, <1>3, MoveFacts DEF MonitorPlaces
<1>4. ASSUME NEW d \in Devices, PermissionGranted(d) \/ DeviceDetached(d)
      PROVE  Moved("monitor") /\ MonitorPlaces'
  <2>1. \/ Goto("monitor", "post", "opened", d) \/ Goto("monitor", "post", "failed", d)
        \/ Goto("monitor", "post", "detach", d)
    BY <1>4 DEF PermissionGranted, DeviceDetached, processOpenDevice
  <2> QED  BY <1>1, <2>1, MoveFacts DEF MonitorPlaces
<1> QED  BY <1>2, <1>3, <1>4 DEF Monitor, CheckDevices, MonitorPosts, PermissionDenied

\* The listener's thread, through onDeviceOpen, removeCamera and onCancel.
LEMMA ListenerMoves == Typed /\ Listener => Moved("listener") /\ ListenerPlaces'
<1> SUFFICES ASSUME Typed, Listener PROVE Moved("listener") /\ ListenerPlaces'
  OBVIOUS
<1>1. PlaceTypes /\ ListenerPlaces
  BY DEF Typed, PlaceTypes
<1>2. CASE pc' = pc
  BY <1>1, <1>2, MoveFacts DEF ListenerPlaces
<1>3. CASE Return("listener")
  BY <1>1, <1>3, MoveFacts DEF ListenerPlaces
<1>4. ASSUME NEW d \in Devices, AddCamera(d) \/ OnDetach(d) \/ OnCancel(d)
      PROVE  Moved("listener") /\ ListenerPlaces'
  <2>1. \/ Goto("listener", "register", "opened", d) \/ Goto("listener", "remove", "detach", d)
        \/ Goto("listener", "notify", "cancel", d)
    BY <1>4 DEF AddCamera, OnDetach, OnCancel
  <2> QED  BY <1>1, <2>1, MoveFacts DEF ListenerPlaces
<1>5. ASSUME NEW d \in Devices, RemoveCamera(d) PROVE Moved("listener") /\ ListenerPlaces'
  <2>1. Goto("listener", "release", "close", d) \/ Goto("listener", "release", "drop", d)
    BY <1>5 DEF RemoveCamera
  <2> QED  BY <1>1, <2>1, MoveFacts DEF ListenerPlaces
<1> QED  BY <1>2, <1>3, <1>4, <1>5 DEF Listener, RegisterCallback, FinishRemove, OnAttach, Notify

\* The helper's thread, through its tasks.
LEMMA AsyncMoves == Typed /\ Async => Moved("async") /\ AsyncPlaces'
<1> SUFFICES ASSUME Typed, Async PROVE Moved("async") /\ AsyncPlaces'
  OBVIOUS
<1>1. PlaceTypes /\ AsyncPlaces /\ helperDevice \in Devs
  BY DEF Typed, PlaceTypes, ClientTypes
<1>2. CASE pc' = pc
  BY <1>1, <1>2, MoveFacts DEF AsyncPlaces
<1>3. CASE Return("async")
  BY <1>1, <1>3, MoveFacts DEF AsyncPlaces
<1>4. ASSUME NEW d \in Devices, SelectTask(d) PROVE Moved("async") /\ AsyncPlaces'
  <2>1. pc' = pc \/ Goto("async", "select", "select", d)
    BY <1>4 DEF SelectTask
  <2> QED  BY <1>1, <1>2, <2>1, MoveFacts DEF AsyncPlaces
<1>5. CASE OpenSelected
  <2>1. /\ pc["async"].dev \in Devices
        /\ \/ Goto("async", "post", "opened", pc["async"].dev)
           \/ Goto("async", "post", "failed", pc["async"].dev)
    BY <1>1, <1>5 DEF OpenSelected, processOpenDevice, AsyncPlaces
  <2> QED  BY <1>1, <2>1, MoveFacts DEF AsyncPlaces
<1>6. CASE PostSelected \/ AskForSelected
  <2>1. pc["async"].dev \in Devices
    BY <1>1, <1>6 DEF PostSelected, AskForSelected, AsyncPlaces
  <2>2. Return("async") \/ Goto("async", "wait", "select", pc["async"].dev)
    BY <1>6 DEF PostSelected, AskForSelected, AwaitSelected
  <2> QED  BY <1>1, <2>1, <2>2, MoveFacts DEF AsyncPlaces
<1>7. ASSUME NEW task \in {"open", "start", "picture"}, CameraTask(task)
      PROVE  Moved("async") /\ AsyncPlaces'
  <2>1. pc' = pc \/ (helperDevice \in Devices /\ Goto("async", "get", task, helperDevice))
    BY <1>1, <1>7 DEF CameraTask, Devs
  <2> QED  BY <1>1, <1>2, <2>1, MoveFacts DEF AsyncPlaces
<1>8. CASE getCamera("async") \/ Awaited("async")
  <2>1. pc["async"].dev \in Devices
    BY <1>1, <1>8 DEF getCamera, Awaited, AsyncPlaces
  <2>2. \/ Return("async") \/ Goto("async", "wait", pc["async"].task, pc["async"].dev)
        \/ Goto("async", "reset", pc["async"].task, pc["async"].dev)
    BY <1>8 DEF getCamera, Awaited, Continue
  <2>3. pc["async"].task \in Tasks
    BY <1>1, MoveFacts
  <2> QED  BY <1>1, <2>1, <2>2, <2>3, MoveFacts DEF AsyncPlaces
<1>9. CASE ResetUVCCamera \/ OpenUVCCamera \/ ProcessOnCameraOpen
  <2>1. pc["async"].dev \in Devices
    BY <1>1, <1>9 DEF ResetUVCCamera, OpenUVCCamera, ProcessOnCameraOpen, AsyncPlaces
  <2>2. \/ Return("async") \/ Goto("async", "tell", "open", pc["async"].dev)
        \/ Goto("async", "connect", "open", pc["async"].dev)
    BY <1>9 DEF ResetUVCCamera, OpenUVCCamera, ProcessOnCameraOpen
  <2> QED  BY <1>1, <2>1, <2>2, MoveFacts DEF AsyncPlaces
<1>10. CASE ReleaseTask \/ DestroyMonitor \/ QuitSafely
  <2>1. \/ Return("async") \/ Goto("async", "destroy", "release", helperDevice)
        \/ Goto("async", "quit", "release", NoDevice)
    BY <1>10 DEF ReleaseTask, DestroyMonitor, QuitSafely
  <2> QED  BY <1>1, <2>1, MoveFacts DEF AsyncPlaces
<1> QED  BY <1>4, <1>5, <1>6, <1>7, <1>8, <1>9, <1>10 DEF Async

\* A thread moves itself only.
LEMMA Alone ==
  Typed =>
    /\ System \/ User => pc' = pc
    /\ Main => Moved("main")
    /\ Monitor => Moved("monitor")
    /\ Listener => Moved("listener")
    /\ Async => Moved("async")
BY MainMoves, MonitorMoves, ListenerMoves, AsyncMoves DEF looperVars, Broadcast, System, Plug,
                                                          GrantBySystem, Unplug, Answer, User,
                                                          TakeUsbPicture, ClearCameraHelper,
                                                          mainFrame

\* Every thread is in its own code.
LEMMA PlaceStep == Typed /\ Next => PlaceTypes'
<1> SUFFICES ASSUME Typed, Next PROVE PlaceTypes'
  OBVIOUS
<1> USE DEF Threads, PlaceTypes, MainPlaces, MonitorPlaces, ListenerPlaces, AsyncPlaces
<1>1. PlaceTypes
  BY DEF Typed
<1>2. CASE System \/ User
  BY <1>1, <1>2, Alone
<1>3. CASE Main
  BY <1>1, <1>3, MainMoves DEF Moved
<1>4. CASE Monitor
  BY <1>1, <1>4, MonitorMoves DEF Moved
<1>5. CASE Listener
  BY <1>1, <1>5, ListenerMoves DEF Moved
<1>6. CASE Async
  BY <1>1, <1>6, AsyncMoves DEF Moved
<1> QED  BY <1>2, <1>3, <1>4, <1>5, <1>6 DEF Next

\* The section's owner is in it, and only those in getCamera or selectDevice wait.
LEMMA SyncStep == Typed /\ Next => SyncTypes'
<1> SUFFICES ASSUME Typed, Next PROVE SyncTypes'
  OBVIOUS
<1>1. pc \in [Threads -> Posts] /\ SyncTypes /\ AsyncPlaces /\ MainPlaces /\ ListenerPlaces
  BY DEF Typed, PlaceTypes
<1>2. "main" \in Threads /\ "monitor" \in Threads /\ "listener" \in Threads /\ "async" \in Threads
  BY DEF Threads
<1>3. /\ \A t \in Threads : Return(t) => pc'[t].at = "idle"
      /\ \A t \in Threads, a \in Places, w \in Tasks, d \in Devs : Goto(t, a, w, d) => pc'[t].at = a
  BY <1>1, GotoFacts, RecordFacts
<1>4. \A t \in Threads : pc[t].task \in Tasks /\ pc[t].dev \in Devs
  BY <1>1 DEF Posts
<1>5. \A t \in Threads : \A w, d : Handles(t, w, d) => pc[t].at = "idle"
  BY RecordFacts DEF Handles
<1>6. \A a \in {"get", "wait", "select", "post", "reset", "connect", "tell", "destroy", "quit",
                "register", "remove", "release", "notify"} : a \in Places
  BY DEF Places
<1>7. \A w \in {"none", "size", "close", "drop", "opened", "failed", "detach", "cancel", "select",
                "open", "start", "picture", "release"} : w \in Tasks
  BY DEF Tasks, Whats
<1>8. \A d \in Devices : d \in Devs
  BY DEF Devs
<1>9. CASE System \/ User
  BY <1>1, <1>9, Alone DEF SyncTypes, syncVars, System, Plug, GrantBySystem, Unplug, Answer, User,
                           TakeUsbPicture, ClearCameraHelper, mainFrame
<1>10. CASE Main
  <2>1. pc'["async"] = pc["async"] /\ pc'["listener"] = pc["listener"]
    BY <1>2, <1>10, Alone DEF Moved
  <2>2. mConnectionSync' = mConnectionSync
    BY <1>10 DEF syncVars, Main, AttachNewDevice, OpenOnDeviceOpen, StartOnCameraOpen,
                 OnCameraClose, ForgetDevice, ReceiveBroadcast, getCamera, Awaited, mainFrame,
                 getCameraFrame
  <2>3. waiting' = waiting \/ waiting' = waiting \cup {"main"}
    BY <1>10 DEF syncVars, Main, AttachNewDevice, OpenOnDeviceOpen, StartOnCameraOpen,
                 OnCameraClose, ForgetDevice, ReceiveBroadcast, getCamera, Awaited, mainFrame,
                 getCameraFrame
  <2>4. "main" \in waiting' => pc'["main"].at = "wait"
    <3>1. CASE getCamera("main")
      BY <1>1, <1>2, <1>3, <1>4, <1>6, <3>1 DEF getCamera, SyncTypes
    <3>2. CASE Awaited("main")
      BY <3>2 DEF Awaited
    <3>3. CASE ~getCamera("main") /\ ~Awaited("main")
      <4>1. pc["main"].at = "idle" /\ waiting' = waiting
        BY <1>2, <1>5, <1>10, <3>3 DEF syncVars, Main, AttachNewDevice, OpenOnDeviceOpen,
                                       StartOnCameraOpen, OnCameraClose, ForgetDevice,
                                       ReceiveBroadcast, getCamera, Awaited, mainFrame,
                                       getCameraFrame
      <4> QED  BY <1>1, <4>1 DEF SyncTypes
    <3> QED  BY <3>1, <3>2, <3>3
  <2> QED  BY <1>1, <2>1, <2>2, <2>3, <2>4 DEF SyncTypes
<1>11. CASE Monitor
  <2>1. pc'["async"] = pc["async"] /\ pc'["listener"] = pc["listener"] /\ pc'["main"] = pc["main"]
    BY <1>2, <1>11, Alone DEF Moved
  <2>2. UNCHANGED syncVars
    BY <1>11 DEF Monitor, CheckDevices, MonitorPosts, PermissionGranted, PermissionDenied,
                 DeviceDetached, monitorFrame
  <2> QED  BY <1>1, <2>1, <2>2 DEF SyncTypes, syncVars
<1>12. CASE Listener
  <2>1. pc'["async"] = pc["async"] /\ pc'["main"] = pc["main"]
    BY <1>2, <1>12, Alone DEF Moved
  <2>2. waiting' \subseteq waiting
    BY <1>12 DEF syncVars, NotifyAll, Listener, OnAttach, AddCamera, RegisterCallback, OnDetach,
                 RemoveCamera, FinishRemove, OnCancel, Notify, listenerFrame
  <2>3. /\ mConnectionSync' = "async" <=> mConnectionSync = "async"
        /\ mConnectionSync' \in {"free", "async", "listener"}
        /\ mConnectionSync' = "listener" <=> pc'["listener"].at = "release"
    <3>1. CASE FinishRemove
      BY <1>1, <1>2, <1>3, <3>1 DEF FinishRemove, SyncTypes
    <3>2. CASE RegisterCallback
      BY <1>1, <1>2, <1>3, <3>2 DEF RegisterCallback, SyncTypes, syncVars
    <3>3. ASSUME NEW d \in Devices, RemoveCamera(d)
          PROVE  mConnectionSync = "free" /\ mConnectionSync' = "listener" /\ pc'["listener"].at = "release"
      BY <1>2, <1>3, <1>6, <1>7, <1>8, <3>3 DEF RemoveCamera, Unlocked
    <3>4. ASSUME NEW d \in Devices, OnAttach(d)
          PROVE  UNCHANGED <<mConnectionSync, pc>>
      BY <3>4 DEF OnAttach, syncVars
    <3>5. ASSUME NEW d \in Devices, AddCamera(d) \/ OnDetach(d) \/ OnCancel(d) \/ Notify(d)
          PROVE  /\ mConnectionSync' = mConnectionSync
                 /\ pc["listener"].at # "release" /\ pc'["listener"].at # "release"
      <4>1. pc["listener"].at \in {"idle", "notify"}
        BY <1>2, <1>5, <3>5, RecordFacts DEF AddCamera, OnDetach, OnCancel, Notify
      <4>2. pc'["listener"].at \in {"idle", "register", "remove", "notify"}
        BY <1>2, <1>3, <1>6, <1>7, <1>8, <3>5 DEF AddCamera, OnDetach, OnCancel, Notify
      <4> QED  BY <3>5, <4>1, <4>2 DEF AddCamera, OnDetach, OnCancel, Notify, syncVars
    <3> QED  BY <1>1, <1>12, <3>1, <3>2, <3>3, <3>4, <3>5 DEF Listener, SyncTypes
  <2> QED  BY <1>1, <2>1, <2>2, <2>3 DEF SyncTypes
<1>13. CASE Async
  <2>1. pc'["listener"] = pc["listener"] /\ pc'["main"] = pc["main"]
    BY <1>2, <1>13, Alone DEF Moved
  <2>2. /\ mConnectionSync' = "listener" <=> mConnectionSync = "listener"
        /\ mConnectionSync' \in {"free", "async", "listener"}
        /\ mConnectionSync' = "async" <=> pc'["async"].at = "post"
        /\ waiting' \subseteq waiting \cup {"async"}
        /\ "async" \in waiting' => pc'["async"].at = "wait"
    <3>1. ASSUME NEW d \in Devices, SelectTask(d)
          PROVE  /\ UNCHANGED syncVars
                 /\ pc["async"].at = "idle" /\ pc'["async"].at \in {"idle", "select"}
      BY <1>2, <1>3, <1>5, <1>6, <1>7, <1>8, <3>1 DEF SelectTask
    <3>2. CASE OpenSelected
      BY <1>1, <1>2, <1>3, <1>4, <1>6, <1>7, <3>2 DEF OpenSelected, processOpenDevice, Unlocked,
                                                      SyncTypes
    <3>3. CASE PostSelected \/ AskForSelected
      <4>1. /\ pc["async"].at \in {"select", "post"} /\ mConnectionSync \in {"free", "async"}
            /\ mConnectionSync' = "free"
            /\ \/ pc'["async"].at = "idle" /\ waiting' = waiting
               \/ pc'["async"].at = "wait" /\ waiting' = waiting \cup {"async"}
        BY <1>1, <1>2, <1>3, <1>4, <1>6, <1>7, <3>3 DEF PostSelected, AskForSelected, AwaitSelected,
                                                        Unlocked, SyncTypes
      <4> QED  BY <1>1, <4>1 DEF SyncTypes
    <3>4. ASSUME NEW task \in {"open", "start", "picture"}, CameraTask(task)
          PROVE  /\ UNCHANGED syncVars
                 /\ pc["async"].at = "idle" /\ pc'["async"].at \in {"idle", "get"}
      <4>1. helperDevice \in Devs /\ task \in Tasks
        BY <1>7 DEF Typed, ClientTypes
      <4> QED  BY <1>2, <1>3, <1>5, <1>6, <3>4, <4>1 DEF CameraTask
    <3>5. CASE getCamera("async")
      <4>1. /\ mConnectionSync' = mConnectionSync /\ mConnectionSync = "free"
            /\ \/ pc'["async"].at \in {"idle", "reset"} /\ waiting' = waiting
               \/ pc'["async"].at = "wait" /\ waiting' = waiting \cup {"async"}
        BY <1>2, <1>3, <1>4, <1>6, <1>7, <3>5 DEF getCamera, Continue, getCameraFrame, Unlocked
      <4>2. pc["async"].at = "get"
        BY <3>5 DEF getCamera
      <4> QED  BY <1>1, <4>1, <4>2 DEF SyncTypes
    <3>6. CASE Awaited("async")
      <4>1. /\ mConnectionSync' = mConnectionSync /\ mConnectionSync = "free"
            /\ pc'["async"].at \in {"idle", "reset"} /\ waiting' = waiting /\ "async" \notin waiting
        BY <1>2, <1>3, <1>4, <1>6, <1>7, <3>6 DEF Awaited, Continue, getCameraFrame, Unlocked
      <4> QED  BY <1>1, <4>1 DEF SyncTypes
    <3>7. CASE ResetUVCCamera \/ OpenUVCCamera \/ ProcessOnCameraOpen
      <4>1. /\ UNCHANGED syncVars /\ pc["async"].at \in {"reset", "connect", "tell"}
            /\ pc'["async"].at \in {"idle", "tell", "connect"}
        BY <1>2, <1>3, <1>4, <1>6, <1>7, <3>7
           DEF ResetUVCCamera, OpenUVCCamera, ProcessOnCameraOpen, openFrame
      <4> QED  BY <1>1, <4>1 DEF SyncTypes, syncVars
    <3>8. CASE ReleaseTask \/ DestroyMonitor \/ QuitSafely
      <4>1. helperDevice \in Devs /\ NoDevice \in Devs
        BY DEF Typed, ClientTypes, Devs
      <4>2. /\ UNCHANGED syncVars /\ pc["async"].at \in {"idle", "destroy", "quit"}
            /\ pc'["async"].at \in {"idle", "destroy", "quit"}
        BY <1>2, <1>3, <1>5, <1>6, <1>7, <3>8, <4>1 DEF ReleaseTask, DestroyMonitor, QuitSafely
      <4> QED  BY <1>1, <4>2 DEF SyncTypes, syncVars
    <3> QED  BY <1>1, <1>13, <3>1, <3>2, <3>3, <3>4, <3>5, <3>6, <3>7, <3>8 DEF Async, SyncTypes,
                                                                                syncVars
  <2> QED  BY <1>1, <2>1, <2>2 DEF SyncTypes
<1> QED  BY <1>9, <1>10, <1>11, <1>12, <1>13 DEF Next


-----------------------------------------------------------------------------
(* Messages. *)

\* What is sent has its kind.
LEMMA MessageFacts ==
  /\ \A w \in {"attach", "opened", "failed", "closed", "detach", "cancel", "cameraOpen",
               "cameraClose", "granted", "denied", "detached", "select", "open", "start",
               "picture", "release"}, d \in Devs : Message(w, d) \in Msgs
  /\ Threads = {"main", "async", "listener", "monitor"}
  /\ Devices \subseteq Devs /\ NoDevice \in Devs
BY RecordFacts DEF Whats, Threads, Devs

\* Android only sends broadcasts to the main thread.
LEMMA SystemQueues ==
  Typed /\ System =>
    /\ queue' \in Queues /\ quit' = quit
    /\ \A u \in Threads : u # "main" => queue'[u] = queue[u]
    /\ \A x : Contains(queue["main"], x) => Contains(queue'["main"], x)
    /\ \A d : Contains(queue'["main"], Message("detached", d)) =>
         Contains(queue["main"], Message("detached", d)) \/ plugged'[d] = "gone"
<1> SUFFICES ASSUME Typed, System
    PROVE /\ queue' \in Queues /\ quit' = quit
          /\ \A u \in Threads : u # "main" => queue'[u] = queue[u]
          /\ \A x : Contains(queue["main"], x) => Contains(queue'["main"], x)
          /\ \A d : Contains(queue'["main"], Message("detached", d)) =>
               Contains(queue["main"], Message("detached", d)) \/ plugged'[d] = "gone"
  OBVIOUS
<1>1. QueueTypes /\ queue \in Queues /\ quit' = quit
  BY DEF Typed, QueueTypes, looperVars, Broadcast, System, Plug, GrantBySystem, Unplug, Answer
<1>2. CASE queue' = queue
  BY <1>1, <1>2
<1>3. ASSUME NEW w \in {"granted", "denied", "detached"}, NEW d \in Devices,
             w = "detached" => plugged'[d] = "gone",
             queue' = Posted(queue, "main", Message(w, d))
      PROVE  /\ queue' \in Queues
             /\ \A u \in Threads : u # "main" => queue'[u] = queue[u]
             /\ \A x : Contains(queue["main"], x) => Contains(queue'["main"], x)
             /\ \A e : Contains(queue'["main"], Message("detached", e)) =>
                  Contains(queue["main"], Message("detached", e)) \/ plugged'[e] = "gone"
  <2>1. Message(w, d) \in Msgs
    BY MessageFacts
  <2>2. /\ queue' \in Queues
        /\ \A u \in Threads : u # "main" => queue'[u] = queue[u]
        /\ \A x : Contains(queue'["main"], x) <=> Contains(queue["main"], x) \/ x = Message(w, d)
    BY <1>1, <1>3, <2>1, ToMain
  <2> QED  BY <1>3, <2>2, RecordFacts
<1>4. ASSUME NEW d \in Devices, Plug(d) \/ GrantBySystem(d) PROVE queue' = queue
  BY <1>4 DEF Plug, GrantBySystem, looperVars
<1>5. ASSUME NEW d \in Devices, Unplug(d)
      PROVE  queue' = queue \/ (plugged'[d] = "gone" /\ queue' = Posted(queue, "main", Message("detached", d)))
  BY <1>5 DEF Unplug, Broadcast, Typed, SystemTypes
<1>6. ASSUME NEW d \in Devices, Answer(d)
      PROVE  \/ queue' = queue
             \/ queue' = Posted(queue, "main", Message("granted", d))
             \/ queue' = Posted(queue, "main", Message("denied", d))
  BY <1>6 DEF Answer, Broadcast
<1> QED  BY <1>1, <1>2, <1>3, <1>4, <1>5, <1>6 DEF System

\* The fragment only gives tasks to the helper; broadcasts go on to the monitor.
LEMMA MainQueues ==
  Typed /\ Main =>
    /\ queue' \in Queues /\ quit' = quit /\ queue'["listener"] = queue["listener"]
    /\ \A x : /\ Contains(queue'["main"], x) => Contains(queue["main"], x)
              /\ Contains(queue["monitor"], x) => Contains(queue'["monitor"], x)
    /\ \A x : Contains(queue'["monitor"], x) => Contains(queue["monitor"], x) \/ Contains(queue["main"], x)
    /\ \A w \in {"granted", "denied"} : \A d : Contains(queue["main"], Message(w, d)) =>
         \/ Contains(queue'["main"], Message(w, d)) \/ Contains(queue'["monitor"], Message(w, d))
         \/ quit # {}
<1> SUFFICES ASSUME Typed, Main
    PROVE /\ queue' \in Queues /\ quit' = quit /\ queue'["listener"] = queue["listener"]
          /\ \A x : /\ Contains(queue'["main"], x) => Contains(queue["main"], x)
                    /\ Contains(queue["monitor"], x) => Contains(queue'["monitor"], x)
          /\ \A x : Contains(queue'["monitor"], x) =>
               Contains(queue["monitor"], x) \/ Contains(queue["main"], x)
          /\ \A w \in {"granted", "denied"} : \A d : Contains(queue["main"], Message(w, d)) =>
               \/ Contains(queue'["main"], Message(w, d)) \/ Contains(queue'["monitor"], Message(w, d))
               \/ quit # {}
  OBVIOUS
<1>1. queue \in Queues /\ quit' = quit
  BY DEF Typed, QueueTypes, Main, AttachNewDevice, OpenOnDeviceOpen, StartOnCameraOpen,
         OnCameraClose, ForgetDevice, ReceiveBroadcast, getCamera, Awaited, mainFrame,
         getCameraFrame
<1>2. CASE queue' = queue
  BY <1>1, <1>2
<1>3. ASSUME NEW w \in {"attach", "opened", "cameraOpen", "cameraClose", "detach", "cancel"},
             NEW d \in Devices, Handles("main", w, d)
      PROVE  /\ Rest("main") \in Queues
             /\ \A u \in Threads : u # "main" => Rest("main")[u] = queue[u]
             /\ \A x : Contains(Rest("main")["main"], x) => Contains(queue["main"], x)
             /\ \A v \in {"granted", "denied"} : \A e : Contains(queue["main"], Message(v, e)) =>
                  Contains(Rest("main")["main"], Message(v, e))
  BY <1>1, <1>3, RestFacts, RecordFacts, MessageFacts
<1>4. ASSUME NEW w \in {"attach", "opened", "cameraOpen", "cameraClose", "detach", "cancel"},
             NEW d \in Devices, Handles("main", w, d), queue' = Rest("main")
      PROVE  /\ queue' \in Queues
             /\ \A u \in Threads : u # "main" => queue'[u] = queue[u]
             /\ \A x : Contains(queue'["main"], x) => Contains(queue["main"], x)
             /\ \A v \in {"granted", "denied"} : \A e : Contains(queue["main"], Message(v, e)) =>
                  Contains(queue'["main"], Message(v, e))
  BY <1>3, <1>4
<1>5. ASSUME NEW w \in {"attach", "opened", "cameraOpen"}, NEW d \in Devices, Handles("main", w, d),
             NEW task \in {"select", "open", "start"}, NEW e \in Devs,
             queue' = Posted(Rest("main"), "async", Message(task, e))
      PROVE  /\ queue' \in Queues
             /\ \A u \in Threads : u \notin {"main", "async"} => queue'[u] = queue[u]
             /\ \A x : Contains(queue'["main"], x) => Contains(queue["main"], x)
             /\ \A v \in {"granted", "denied"} : \A f : Contains(queue["main"], Message(v, f)) =>
                  Contains(queue'["main"], Message(v, f))
  <2>1. Message(task, e) \in Msgs
    BY MessageFacts
  <2>2. queue' \in Queues /\ \A u \in Threads : u # "async" => queue'[u] = Rest("main")[u]
    BY <1>3, <1>5, <2>1, ToAsync
  <2> QED  BY <1>3, <1>5, <2>2, MessageFacts
<1>6. ASSUME NEW w \in {"granted", "denied", "detached"}, NEW d \in Devices, ReceiveBroadcast(w, d)
      PROVE  /\ queue' \in Queues /\ queue'["listener"] = queue["listener"]
             /\ \A x : /\ Contains(queue'["main"], x) => Contains(queue["main"], x)
                       /\ Contains(queue["main"], x) => Contains(queue'["main"], x) \/ x = Message(w, d)
             /\ \A x : Contains(queue'["monitor"], x) <=>
                         Contains(queue["monitor"], x) \/ ("monitor" \notin quit /\ x = Message(w, d))
             /\ Contains(queue["main"], Message(w, d))
  <2>1. /\ Rest("main") \in Queues /\ Contains(queue["main"], Message(w, d))
        /\ \A u \in Threads : u # "main" => Rest("main")[u] = queue[u]
        /\ \A x : /\ Contains(Rest("main")["main"], x) => Contains(queue["main"], x)
                  /\ Contains(queue["main"], x) =>
                       Contains(Rest("main")["main"], x) \/ x = Message(w, d)
    BY <1>1, <1>6, RestFacts, MessageFacts DEF ReceiveBroadcast
  <2>2. Message(w, d) \in Msgs /\ queue' = Posted(Rest("main"), "monitor", Message(w, d))
    BY <1>6, MessageFacts DEF ReceiveBroadcast
  <2>3. /\ queue' \in Queues /\ \A u \in Threads : u # "monitor" => queue'[u] = Rest("main")[u]
        /\ \A x : Contains(queue'["monitor"], x) <=>
             Contains(Rest("main")["monitor"], x) \/ ("monitor" \notin quit /\ x = Message(w, d))
    BY <2>1, <2>2, ToMonitor
  <2> QED  BY <2>1, <2>3, MessageFacts
<1>7. ASSUME NEW d \in Devices, AttachNewDevice(d)
      PROVE  \/ Handles("main", "attach", d) /\ queue' = Rest("main")
             \/ Handles("main", "attach", d) /\ queue' = Posted(Rest("main"), "async", Message("select", d))
  BY <1>7 DEF AttachNewDevice, Call
<1>8. ASSUME NEW d \in Devices, OpenOnDeviceOpen(d)
      PROVE  \/ Handles("main", "opened", d) /\ queue' = Rest("main")
             \/ Handles("main", "opened", d) /\ queue' = Posted(Rest("main"), "async", Message("open", NoDevice))
  BY <1>8 DEF OpenOnDeviceOpen, Call
<1>9. ASSUME NEW d \in Devices, StartOnCameraOpen(d)
      PROVE  \/ Handles("main", "cameraOpen", d) /\ queue' = Rest("main")
             \/ Handles("main", "cameraOpen", d) /\ queue' = Posted(Rest("main"), "async", Message("start", NoDevice))
  BY <1>9 DEF StartOnCameraOpen, Call
<1>10. ASSUME NEW d \in Devices, OnCameraClose(d) \/ ForgetDevice(d)
       PROVE  \E w \in {"cameraClose", "detach", "cancel"} : Handles("main", w, d) /\ queue' = Rest("main")
  BY <1>10 DEF OnCameraClose, ForgetDevice
<1>11. CASE getCamera("main") \/ Awaited("main")
  BY <1>2, <1>11 DEF getCamera, Awaited, getCameraFrame
<1>12. ASSUME NEW d \in Devices, AttachNewDevice(d) \/ OpenOnDeviceOpen(d) \/ StartOnCameraOpen(d)
                                 \/ OnCameraClose(d) \/ ForgetDevice(d)
       PROVE  /\ queue' \in Queues
              /\ \A u \in Threads : u \notin {"main", "async"} => queue'[u] = queue[u]
              /\ \A x : Contains(queue'["main"], x) => Contains(queue["main"], x)
              /\ \A v \in {"granted", "denied"} : \A f : Contains(queue["main"], Message(v, f)) =>
                   Contains(queue'["main"], Message(v, f))
  <2>1. CASE AttachNewDevice(d)
    BY <1>4, <1>5, <1>7, <2>1, MessageFacts
  <2>2. CASE OpenOnDeviceOpen(d)
    BY <1>4, <1>5, <1>8, <2>2, MessageFacts
  <2>3. CASE StartOnCameraOpen(d)
    BY <1>4, <1>5, <1>9, <2>3, MessageFacts
  <2>4. CASE OnCameraClose(d) \/ ForgetDevice(d)
    BY <1>4, <1>10, <2>4
  <2> QED  BY <1>12, <2>1, <2>2, <2>3, <2>4
<1> QED  BY <1>1, <1>6, <1>11, <1>12, MessageFacts DEF Main

\* The user only gives tasks to the helper.
LEMMA UserQueues ==
  Typed /\ User =>
    queue' \in Queues /\ quit' = quit /\ \A u \in Threads : u # "async" => queue'[u] = queue[u]
<1> SUFFICES ASSUME Typed, User
    PROVE queue' \in Queues /\ quit' = quit /\ \A u \in Threads : u # "async" => queue'[u] = queue[u]
  OBVIOUS
<1>1. queue \in Queues /\ quit' = quit
  BY DEF Typed, QueueTypes, User, TakeUsbPicture, ClearCameraHelper, mainFrame
<1>2. \/ queue' = queue \/ queue' = Posted(queue, "async", Message("picture", NoDevice))
      \/ queue' = Posted(queue, "async", Message("release", NoDevice))
  BY DEF Call, User, TakeUsbPicture, ClearCameraHelper, mainFrame
<1>3. Message("picture", NoDevice) \in Msgs /\ Message("release", NoDevice) \in Msgs
  BY MessageFacts
<1> QED  BY <1>1, <1>2, <1>3, ToAsync

\* The monitor tells the listener; what it takes from its queue goes on.
MonitorSends ==
  /\ queue' \in Queues /\ quit' = quit
  /\ queue'["main"] = queue["main"] /\ queue'["async"] = queue["async"]
  /\ \A x : /\ Contains(queue'["monitor"], x) => Contains(queue["monitor"], x)
            /\ Contains(queue["listener"], x) => Contains(queue'["listener"], x)
  /\ \A d \in Devices :
       /\ Contains(queue'["listener"], Message("detach", d)) =>
            Contains(queue["listener"], Message("detach", d)) \/ pc["monitor"] = At("post", "detach", d)
       /\ Contains(queue'["listener"], Message("closed", d)) =>
            \/ Contains(queue["listener"], Message("closed", d))
            \/ Contains(queue["monitor"], Message("detached", d))
       /\ pc'["monitor"] = At("post", "detach", d) => Contains(queue["monitor"], Message("detached", d))
       /\ Contains(queue["monitor"], Message("granted", d)) =>
            \/ Contains(queue'["monitor"], Message("granted", d))
            \/ /\ pc'["monitor"].at = "post" /\ pc'["monitor"].dev = d
               /\ pc'["monitor"].task \in {"opened", "failed"}
       /\ Contains(queue["monitor"], Message("denied", d)) =>
            \/ Contains(queue'["monitor"], Message("denied", d))
            \/ Contains(queue'["listener"], Message("cancel", d)) \/ quit # {}
  /\ pc["monitor"].at = "post" /\ pc["monitor"].task \in {"opened", "failed"} =>
       Contains(queue'["listener"], Message(pc["monitor"].task, pc["monitor"].dev)) \/ quit # {}

\* Every step of the monitor sends so.
LEMMA MonitorQueues == Typed /\ Monitor => MonitorSends
<1> SUFFICES ASSUME Typed, Monitor PROVE MonitorSends
  OBVIOUS
<1>1. /\ queue \in Queues /\ quit' = quit /\ PlaceTypes /\ MonitorPlaces
      /\ mOpenedCtrlBlocks \subseteq Devices
  BY DEF Typed, QueueTypes, PlaceTypes, TableTypes, Monitor, CheckDevices, MonitorPosts,
         PermissionGranted, PermissionDenied, DeviceDetached, monitorFrame
<1>2. CASE CheckDevices
  <2> DEFINE news == {d \in Here : \/ d \notin mDetectedDeviceKeys
                                   \/ d \in permitted \ mHasPermissionDeviceKeys}
  <2>1. PICK s \in SetToSeqs({Message("attach", d) : d \in news}) :
          queue' = [queue EXCEPT !["listener"] = @ \o s]
    BY <1>2 DEF CheckDevices
  <2>2. pc' = pc /\ pc["monitor"] = Idle /\ news \in SUBSET Devices /\ "attach" \in Whats
    BY <1>2 DEF CheckDevices, Here, Whats
  <2> HIDE DEF news
  <2>3. queue["listener"] \in Seq(Msgs)
    BY <1>1, MessageFacts DEF Queues
  <2>4. /\ queue["listener"] \o s \in Seq(Msgs)
        /\ \A x : /\ Contains(queue["listener"], x) => Contains(queue["listener"] \o s, x)
                  /\ Contains(queue["listener"] \o s, x) =>
                       Contains(queue["listener"], x) \/ \E d \in news : x = Message("attach", d)
    BY <2>2, <2>3, SeveralFacts
  <2>5. /\ queue' \in Queues /\ queue'["listener"] = queue["listener"] \o s
        /\ \A u \in Threads : u # "listener" => queue'[u] = queue[u]
    BY <1>1, <2>1, <2>4, MessageFacts DEF Queues
  <2>6. \A d : /\ Contains(queue'["listener"], Message("detach", d)) =>
                    Contains(queue["listener"], Message("detach", d))
               /\ Contains(queue'["listener"], Message("closed", d)) =>
                    Contains(queue["listener"], Message("closed", d))
    BY <2>4, <2>5, RecordFacts
  <2>7. /\ pc'["monitor"].at = "idle" /\ pc["monitor"].at = "idle"
        /\ \A d : pc'["monitor"] # At("post", "detach", d)
    BY <2>2, RecordFacts
  <2> QED  BY <1>1, <2>4, <2>5, <2>6, <2>7, MessageFacts DEF MonitorSends
<1>3. CASE MonitorPosts
  <2>1. pc["monitor"].task \in {"opened", "failed", "detach"} /\ pc["monitor"].dev \in Devices
    BY <1>1, <1>3 DEF MonitorPosts, MonitorPlaces
  <2>2. PICK w \in {"opened", "failed", "detach"}, d \in Devices :
          w = pc["monitor"].task /\ d = pc["monitor"].dev
    BY <2>1
  <2>3. /\ queue' = queue \/ queue' = Posted(queue, "listener", Message(w, d))
        /\ w # "detach" => queue' = Posted(queue, "listener", Message(w, d))
        /\ pc'["monitor"].at = "idle"
    BY <1>1, <1>3, <2>2, MoveFacts, MessageFacts DEF MonitorPosts
  <2>4. Message(w, d) \in Msgs
    BY MessageFacts
  <2>5. /\ queue' \in Queues /\ \A u \in Threads : u # "listener" => queue'[u] = queue[u]
        /\ \A x : /\ Contains(queue["listener"], x) => Contains(queue'["listener"], x)
                  /\ Contains(queue'["listener"], x) => Contains(queue["listener"], x) \/ x = Message(w, d)
        /\ w # "detach" => Contains(queue'["listener"], Message(w, d)) \/ quit # {}
    <3> DEFINE p == Posted(queue, "listener", Message(w, d))
    <3>1. /\ p \in Queues /\ \A u \in Threads : u # "listener" => p[u] = queue[u]
          /\ \A x : Contains(p["listener"], x) <=>
               Contains(queue["listener"], x) \/ ("listener" \notin quit /\ x = Message(w, d))
      BY <1>1, <2>4, ToListener
    <3>2. queue' = p \/ (queue' = queue /\ w = "detach")
      BY <2>3
    <3> HIDE DEF p
    <3> QED  BY <1>1, <3>1, <3>2
  <2>6. w = "detach" => pc["monitor"] = At("post", "detach", d)
    <3>1. pc["monitor"] \in Posts /\ pc["monitor"].at = "post"
      BY <1>1, <1>3, MessageFacts DEF PlaceTypes, MonitorPosts
    <3> QED  BY <2>2, <3>1 DEF Posts, At
  <2>7. \A e : /\ Message(w, d) = Message("detach", e) => w = "detach" /\ d = e
               /\ Message(w, d) # Message("closed", e)
    BY RecordFacts
  <2>8. \A e : pc'["monitor"] # At("post", "detach", e)
    BY <2>3, RecordFacts
  <2> QED  BY <1>1, <2>2, <2>5, <2>6, <2>7, <2>8, MessageFacts DEF MonitorSends
<1>4. \A w \in {"granted", "denied", "detached"}, d \in Devices : Handles("monitor", w, d) =>
        /\ Rest("monitor") \in Queues /\ Contains(queue["monitor"], Message(w, d))
        /\ \A u \in Threads : u # "monitor" => Rest("monitor")[u] = queue[u]
        /\ \A x : /\ Contains(Rest("monitor")["monitor"], x) => Contains(queue["monitor"], x)
                  /\ Contains(queue["monitor"], x) =>
                       Contains(Rest("monitor")["monitor"], x) \/ x = Message(w, d)
        /\ pc["monitor"].at = "idle"
  BY <1>1, RestFacts, RecordFacts, MessageFacts
<1>5. ASSUME NEW d \in Devices, PermissionGranted(d) PROVE MonitorSends
  <2>1. Handles("monitor", "granted", d) /\ queue' = Rest("monitor")
    BY <1>5 DEF PermissionGranted
  <2>2. Goto("monitor", "post", "opened", d) \/ Goto("monitor", "post", "failed", d)
    BY <1>5 DEF PermissionGranted, processOpenDevice
  <2>3. pc'["monitor"].at = "post" /\ pc'["monitor"].dev = d /\ pc'["monitor"].task \in {"opened", "failed"}
    BY <1>1, <2>2, MoveFacts
  <2>4. /\ \A e : pc'["monitor"] # At("post", "detach", e)
        /\ \A e : Message("granted", d) = Message("granted", e) => e = d
        /\ \A e : Message("granted", d) # Message("denied", e)
    BY <2>3, RecordFacts
  <2> QED  BY <1>1, <1>4, <2>1, <2>3, <2>4, MessageFacts DEF MonitorSends
<1>6. ASSUME NEW d \in Devices, PermissionDenied(d) PROVE MonitorSends
  <2>1. /\ Handles("monitor", "denied", d) /\ pc' = pc
        /\ queue' = Posted(Rest("monitor"), "listener", Message("cancel", d))
    BY <1>6 DEF PermissionDenied, processCancel
  <2>2. Message("cancel", d) \in Msgs
    BY MessageFacts
  <2>3. Handles("monitor", "denied", d) /\ Rest("monitor") \in Queues
    BY <1>4, <2>1
  <2>4. /\ queue' \in Queues /\ \A u \in Threads : u # "listener" => queue'[u] = Rest("monitor")[u]
        /\ \A x : Contains(queue'["listener"], x) <=>
             Contains(Rest("monitor")["listener"], x) \/ ("listener" \notin quit /\ x = Message("cancel", d))
    BY <2>1, <2>2, <2>3, ToListener
  <2>5. /\ pc'["monitor"].at = "idle" /\ pc["monitor"].at = "idle"
        /\ \A e : pc'["monitor"] # At("post", "detach", e)
    BY <1>4, <2>1, RecordFacts
  <2>6. \A e : /\ Message("cancel", d) # Message("detach", e) /\ Message("cancel", d) # Message("closed", e)
               /\ Message("denied", d) = Message("denied", e) => e = d
               /\ Message("denied", d) # Message("granted", e)
    BY RecordFacts
  <2> QED  BY <1>1, <1>4, <2>1, <2>4, <2>5, <2>6, MessageFacts DEF MonitorSends
<1>7. ASSUME NEW d \in Devices, DeviceDetached(d) PROVE MonitorSends
  <2>1. /\ Handles("monitor", "detached", d) /\ Goto("monitor", "post", "detach", d)
        /\ \/ queue' = Posted(Rest("monitor"), "listener", Message("closed", d))
           \/ queue' = Rest("monitor")
    BY <1>7 DEF DeviceDetached
  <2>2. Message("closed", d) \in Msgs
    BY MessageFacts
  <2>3. Handles("monitor", "detached", d) /\ Rest("monitor") \in Queues
    BY <1>4, <2>1
  <2>4. /\ queue' \in Queues /\ \A u \in Threads : u # "listener" => queue'[u] = Rest("monitor")[u]
        /\ \A x : /\ Contains(Rest("monitor")["listener"], x) => Contains(queue'["listener"], x)
                  /\ Contains(queue'["listener"], x) =>
                       Contains(Rest("monitor")["listener"], x) \/ x = Message("closed", d)
    BY <2>1, <2>2, <2>3, ToListener
  <2>5. /\ pc["monitor"].at = "idle" /\ pc'["monitor"].at = "post" /\ pc'["monitor"].dev = d
        /\ \A e : pc'["monitor"] = At("post", "detach", e) => e = d
    BY <1>1, <1>4, <2>1, MoveFacts, RecordFacts
  <2>6. \A e : /\ Message("closed", d) # Message("detach", e)
               /\ Message("closed", d) = Message("closed", e) => e = d
               /\ Message("detached", d) # Message("granted", e)
               /\ Message("detached", d) # Message("denied", e)
    BY RecordFacts
  <2> QED  BY <1>1, <1>4, <2>1, <2>4, <2>5, <2>6, MessageFacts DEF MonitorSends
<1> QED  BY <1>2, <1>3, <1>5, <1>6, <1>7 DEF Monitor

\* The listener tells the client, and its queue only of the camera it closes; what it
\* takes from its queue wakes the helper's threads or goes on.
ListenerSends ==
  /\ queue' \in Queues /\ quit' = quit
  /\ queue'["monitor"] = queue["monitor"] /\ queue'["async"] = queue["async"]
  /\ \A x : Contains(queue["main"], x) => Contains(queue'["main"], x)
  /\ \A d \in Devices :
       /\ Contains(queue'["main"], Message("detached", d)) => Contains(queue["main"], Message("detached", d))
       /\ Contains(queue'["listener"], Message("detach", d)) =>
            Contains(queue["listener"], Message("detach", d))
       /\ Contains(queue'["listener"], Message("closed", d)) =>
            \/ Contains(queue["listener"], Message("closed", d))
            \/ pc["listener"].at = "release" /\ pc["listener"].dev = d
       /\ Contains(queue["listener"], Message("opened", d)) =>
            Contains(queue'["listener"], Message("opened", d)) \/ waiting' = {}
       /\ Contains(queue["listener"], Message("failed", d)) =>
            Contains(queue'["listener"], Message("failed", d)) \/ waiting' = {}
       /\ Contains(queue["listener"], Message("cancel", d)) =>
            \/ Contains(queue'["listener"], Message("cancel", d)) \/ waiting' = {}
            \/ pc'["listener"] = At("notify", "cancel", d)
       /\ pc["listener"] = At("notify", "cancel", d) =>
            pc'["listener"] = At("notify", "cancel", d) \/ waiting' = {}
  /\ pc'["listener"].at \in {"remove", "release"} =>
       \/ pc["listener"].at \in {"remove", "release"} /\ pc["listener"].dev = pc'["listener"].dev
       \/ \E what \in {"detach", "closed"} :
            Contains(queue["listener"], Message(what, pc'["listener"].dev))

\* Every step of the listener sends so.
LEMMA ListenerQueues == Typed /\ Listener => ListenerSends
<1> SUFFICES ASSUME Typed, Listener PROVE ListenerSends
  OBVIOUS
<1>1. /\ queue \in Queues /\ quit' = quit /\ QueueTypes /\ PlaceTypes /\ ListenerPlaces /\ CameraTypes
  BY DEF Typed, QueueTypes, PlaceTypes, Listener, OnAttach, AddCamera, RegisterCallback, OnDetach,
         RemoveCamera, FinishRemove, OnCancel, Notify, listenerFrame
<1>2. \A w \in {"attach", "opened", "failed", "closed", "detach", "cancel"}, d \in Devices :
        Handles("listener", w, d) =>
          /\ Rest("listener") \in Queues /\ Contains(queue["listener"], Message(w, d))
          /\ \A u \in Threads : u # "listener" => Rest("listener")[u] = queue[u]
          /\ \A x : /\ Contains(Rest("listener")["listener"], x) => Contains(queue["listener"], x)
                    /\ Contains(queue["listener"], x) =>
                         Contains(Rest("listener")["listener"], x) \/ x = Message(w, d)
          /\ pc["listener"].at = "idle" /\ \A e : pc["listener"] # At("notify", "cancel", e)
  BY <1>1, RestFacts, RecordFacts, MessageFacts
<1>3. \A q \in Queues : \A w \in {"attach", "opened", "detach", "cancel"}, d \in Devices :
        queue' = ToClient(q, Message(w, d)) =>
          /\ queue' \in Queues /\ \A u \in Threads : u # "main" => queue'[u] = q[u]
          /\ \A x : Contains(q["main"], x) => Contains(queue'["main"], x)
          /\ \A e : Contains(queue'["main"], Message("detached", e)) => Contains(q["main"], Message("detached", e))
  <2> SUFFICES ASSUME NEW q \in Queues, NEW w \in {"attach", "opened", "detach", "cancel"},
                      NEW d \in Devices, queue' = ToClient(q, Message(w, d))
      PROVE  /\ queue' \in Queues /\ \A u \in Threads : u # "main" => queue'[u] = q[u]
             /\ \A x : Contains(q["main"], x) => Contains(queue'["main"], x)
             /\ \A e : Contains(queue'["main"], Message("detached", e)) =>
                  Contains(q["main"], Message("detached", e))
    OBVIOUS
  <2>1. Message(w, d) \in Msgs /\ \A e : Message(w, d) # Message("detached", e)
    BY RecordFacts, MessageFacts
  <2>2. /\ queue' \in Queues /\ \A u \in Threads : u # "main" => queue'[u] = q[u]
        /\ \A x : /\ Contains(q["main"], x) => Contains(queue'["main"], x)
                  /\ Contains(queue'["main"], x) => Contains(q["main"], x) \/ x = Message(w, d)
    BY <1>1, <2>1, ToClientFacts
  <2> QED  BY <2>1, <2>2
<1>4. ASSUME NEW d \in Devices, OnAttach(d) PROVE ListenerSends
  <2>1. /\ Handles("listener", "attach", d) /\ queue' = ToClient(Rest("listener"), Message("attach", d))
        /\ pc' = pc
    BY <1>4 DEF OnAttach
  <2>2. \A e : /\ Message("attach", d) # Message("opened", e) /\ Message("attach", d) # Message("failed", e)
               /\ Message("attach", d) # Message("cancel", e)
    BY RecordFacts
  <2> QED  BY <1>1, <1>2, <1>3, <2>1, <2>2, MessageFacts DEF ListenerSends
<1>5. ASSUME NEW d \in Devices, AddCamera(d) PROVE ListenerSends
  <2>1. /\ Handles("listener", "opened", d) /\ queue' = Rest("listener") /\ waiting' = {}
        /\ pc'["listener"].at = "register"
    BY <1>1, <1>5, MoveFacts DEF AddCamera, NotifyAll
  <2> QED  BY <1>1, <1>2, <2>1, MessageFacts DEF ListenerSends
<1>6. CASE RegisterCallback
  <2>1. /\ pc["listener"].at = "register" /\ pc["listener"].dev \in Devices
        /\ queue' = ToClient(queue, Message("opened", pc["listener"].dev))
        /\ pc'["listener"].at = "idle"
    BY <1>1, <1>6, MoveFacts, MessageFacts DEF RegisterCallback, ListenerPlaces
  <2>2. \A e : pc["listener"] # At("notify", "cancel", e)
    BY <2>1, RecordFacts
  <2> QED  BY <1>1, <1>3, <2>1, <2>2, MessageFacts DEF ListenerSends
<1>7. ASSUME NEW d \in Devices, OnDetach(d) PROVE ListenerSends
  <2>1. /\ Handles("listener", "detach", d) /\ queue' = ToClient(Rest("listener"), Message("detach", d))
        /\ pc'["listener"].at = "remove" /\ pc'["listener"].dev = d
    BY <1>1, <1>7, MoveFacts DEF OnDetach
  <2>2. \A e : /\ Message("detach", d) # Message("opened", e) /\ Message("detach", d) # Message("failed", e)
               /\ Message("detach", d) # Message("cancel", e)
    BY RecordFacts
  <2> QED  BY <1>1, <1>2, <1>3, <2>1, <2>2, MessageFacts DEF ListenerSends
<1>8. ASSUME NEW d \in Devices, RemoveCamera(d) PROVE ListenerSends
  <2>1. pc'["listener"].at = "release" /\ pc'["listener"].dev = d
    BY <1>1, <1>8, MoveFacts DEF RemoveCamera
  <2>2. CASE Handles("listener", "closed", d) /\ queue' = Rest("listener")
    <3>1. \A e : /\ Message("closed", d) # Message("opened", e) /\ Message("closed", d) # Message("failed", e)
                 /\ Message("closed", d) # Message("cancel", e)
      BY RecordFacts
    <3> QED  BY <1>1, <1>2, <2>1, <2>2, <3>1, MessageFacts DEF ListenerSends
  <2>3. CASE pc["listener"] = At("remove", "detach", d) /\ queue' = queue
    <3>1. /\ pc["listener"].at = "remove" /\ pc["listener"].dev = d
          /\ \A e : pc["listener"] # At("notify", "cancel", e)
      BY <2>3, RecordFacts
    <3> QED  BY <1>1, <2>1, <2>3, <3>1 DEF ListenerSends
  <2> QED  BY <1>8, <2>2, <2>3 DEF RemoveCamera
<1>9. CASE FinishRemove
  <2>1. /\ pc["listener"].at = "release" /\ pc["listener"].dev \in Devices /\ waiting' = {}
        /\ pc'["listener"].at = "idle"
    BY <1>1, <1>9, MoveFacts, MessageFacts DEF FinishRemove, ListenerPlaces, NotifyAll
  <2>2. CASE queue' = queue
    BY <1>1, <2>1, <2>2 DEF ListenerSends
  <2>3. CASE releaseCameraInternal(pc["listener"].dev, pc["listener"].task = "close", queue)
    <3> DEFINE d == pc["listener"].dev
               o == pc["listener"].task = "close"
    <3>1. d \in Devices /\ o \in BOOLEAN /\ releaseCameraInternal(d, o, queue)
      BY <2>1, <2>3
    <3> HIDE DEF o
    <3>2. /\ queue' \in Queues /\ \A u \in Threads : u \notin {"main", "listener"} => queue'[u] = queue[u]
          /\ \A x : /\ Contains(queue["listener"], x) => Contains(queue'["listener"], x)
                    /\ Contains(queue'["listener"], x) =>
                         Contains(queue["listener"], x) \/ x = Message("closed", d)
          /\ \A x : /\ Contains(queue["main"], x) => Contains(queue'["main"], x)
                    /\ Contains(queue'["main"], x) => Contains(queue["main"], x) \/ x = Message("cameraClose", d)
      BY <1>1, <3>1, ReleaseFacts
    <3>3. \A e : /\ Message("cameraClose", d) # Message("detached", e)
                 /\ Message("closed", d) # Message("detach", e)
                 /\ Message("closed", d) = Message("closed", e) => e = d
      BY RecordFacts
    <3> QED  BY <1>1, <2>1, <3>2, <3>3, MessageFacts DEF ListenerSends
  <2> QED  BY <1>9, <2>2, <2>3 DEF FinishRemove, NothingReleased
<1>10. ASSUME NEW d \in Devices, OnCancel(d) PROVE ListenerSends
  <2>1. /\ Handles("listener", "cancel", d) /\ queue' = ToClient(Rest("listener"), Message("cancel", d))
        /\ Goto("listener", "notify", "cancel", d)
    BY <1>10 DEF OnCancel
  <2>2. pc'["listener"] = At("notify", "cancel", d) /\ pc'["listener"].at = "notify"
    <3>1. "listener" \in Threads /\ "notify" \in Places /\ "cancel" \in Tasks /\ d \in Devs
      BY DEF Threads, Places, Tasks, Whats, Devs
    <3>2. pc \in [Threads -> Posts]
      BY <1>1 DEF PlaceTypes
    <3> QED  BY <2>1, <3>1, <3>2, GotoFacts, RecordFacts
  <2>3. \A e : /\ Message("cancel", d) # Message("opened", e) /\ Message("cancel", d) # Message("failed", e)
               /\ Message("cancel", d) = Message("cancel", e) => e = d
    BY RecordFacts
  <2> QED  BY <1>1, <1>2, <1>3, <2>1, <2>2, <2>3, MessageFacts DEF ListenerSends
<1>11. ASSUME NEW d \in Devices, Notify(d) PROVE ListenerSends
  <2>1. waiting' = {} /\ pc'["listener"].at = "idle"
    BY <1>1, <1>11, MoveFacts, MessageFacts DEF Notify, NotifyAll
  <2>2. CASE queue' = queue
    BY <1>1, <2>1, <2>2 DEF ListenerSends
  <2>3. CASE Handles("listener", "failed", d) /\ queue' = Rest("listener")
    BY <1>1, <1>2, <2>1, <2>3, MessageFacts DEF ListenerSends
  <2> QED  BY <1>11, <2>2, <2>3 DEF Notify
<1> QED  BY <1>4, <1>5, <1>6, <1>7, <1>8, <1>9, <1>10, <1>11 DEF Listener

\* The helper's thread removes a camera only in release; it asks for none.
AsyncSends ==
  /\ queue' \in Queues /\ quit' \subseteq {"async", "listener", "monitor"}
  /\ \A d \in Devices :
       /\ Contains(queue'["main"], Message("detached", d)) => Contains(queue["main"], Message("detached", d))
       /\ Contains(queue'["monitor"], Message("detached", d)) => Contains(queue["monitor"], Message("detached", d))
       /\ Contains(queue'["listener"], Message("detach", d)) =>
            Contains(queue["listener"], Message("detach", d)) \/ pc'["async"].at \in {"destroy", "quit"}
       /\ Contains(queue'["listener"], Message("closed", d)) =>
            Contains(queue["listener"], Message("closed", d)) \/ pc'["async"].at \in {"destroy", "quit"}

\* Every step of the helper's thread sends so.
LEMMA AsyncQueues == Typed /\ Async => AsyncSends
<1> SUFFICES ASSUME Typed, Async PROVE AsyncSends
  OBVIOUS
<1>1. /\ queue \in Queues /\ QueueTypes /\ PlaceTypes /\ AsyncPlaces /\ CameraTypes
      /\ helperDevice \in Devs /\ NoDevice \notin Devices /\ mCameras \subseteq Devices
  BY ConnectionAssumption DEF Typed, QueueTypes, PlaceTypes, ClientTypes, CameraTypes
<1>2. \A w \in {"select", "open", "start", "picture", "release"}, d \in Devs : Handles("async", w, d) =>
        Rest("async") \in Queues /\ \A u \in Threads : u # "async" => Rest("async")[u] = queue[u]
  BY <1>1, RestFacts, MessageFacts
<1>3. quit' \subseteq {"async", "listener", "monitor"}
  BY <1>1 DEF QueueTypes, Async, SelectTask, OpenSelected, PostSelected, AskForSelected, CameraTask,
              getCamera, Awaited, ResetUVCCamera, OpenUVCCamera, ProcessOnCameraOpen, ReleaseTask,
              DestroyMonitor, QuitSafely, asyncFrame, openFrame, getCameraFrame
<1>4. CASE queue' = queue
  BY <1>1, <1>3, <1>4 DEF AsyncSends
<1>5. ASSUME NEW d \in Devices, SelectTask(d) PROVE AsyncSends
  <2>1. Handles("async", "select", d) /\ queue' = Rest("async")
    BY <1>5 DEF SelectTask
  <2> QED  BY <1>2, <1>3, <2>1, MessageFacts DEF AsyncSends
<1>6. ASSUME NEW task \in {"open", "start", "picture"}, CameraTask(task) PROVE AsyncSends
  <2>1. Handles("async", task, NoDevice) /\ queue' = Rest("async")
    BY <1>6 DEF CameraTask
  <2> QED  BY <1>2, <1>3, <2>1, MessageFacts DEF AsyncSends
<1>7. ASSUME NEW w \in {"opened", "failed", "cancel"}, NEW d \in Devices,
             queue' = Posted(queue, "listener", Message(w, d))
      PROVE  AsyncSends
  <2>1. Message(w, d) \in Msgs
    BY MessageFacts
  <2>2. /\ queue' \in Queues /\ \A u \in Threads : u # "listener" => queue'[u] = queue[u]
        /\ \A x : Contains(queue'["listener"], x) => Contains(queue["listener"], x) \/ x = Message(w, d)
    BY <1>1, <1>7, <2>1, ToListener
  <2>3. \A e : Message(w, d) # Message("detach", e) /\ Message(w, d) # Message("closed", e)
    BY RecordFacts
  <2> QED  BY <1>3, <2>2, <2>3, MessageFacts DEF AsyncSends
<1>8. CASE PostSelected \/ AskForSelected
  <2>1. pc["async"].dev \in Devices /\ (PostSelected => pc["async"].task \in {"opened", "failed"})
    BY <1>1, <1>8 DEF PostSelected, AskForSelected, AsyncPlaces
  <2> QED  BY <1>4, <1>7, <1>8, <2>1 DEF PostSelected, AskForSelected, processCancel
<1>9. CASE ProcessOnCameraOpen
  <2>1. pc["async"].dev \in Devices
    BY <1>1, <1>9 DEF ProcessOnCameraOpen, AsyncPlaces
  <2>2. CASE queue' = ToClient(queue, Message("cameraOpen", pc["async"].dev))
    <3> DEFINE m == Message("cameraOpen", pc["async"].dev)
    <3>1. m \in Msgs /\ \A e : m # Message("detached", e)
      BY <2>1, RecordFacts, MessageFacts
    <3>2. queue' = ToClient(queue, m)
      BY <2>2
    <3> HIDE DEF m
    <3>3. /\ queue' \in Queues /\ \A u \in Threads : u # "main" => queue'[u] = queue[u]
          /\ \A x : Contains(queue'["main"], x) => Contains(queue["main"], x) \/ x = m
      BY <1>1, <3>1, <3>2, ToClientFacts
    <3> QED  BY <1>3, <3>1, <3>3, MessageFacts DEF AsyncSends
  <2> QED  BY <1>4, <1>9, <2>2 DEF ProcessOnCameraOpen
<1>10. CASE ReleaseTask
  <2>1. /\ Handles("async", "release", NoDevice) /\ pc'["async"].at = "destroy"
        /\ \/ queue' = Rest("async")
           \/ /\ helperDevice \in Devices
              /\ releaseCameraInternal(helperDevice, helperDevice \in mUVCCamera, Rest("async"))
    BY <1>1, <1>10, MoveFacts, MessageFacts DEF ReleaseTask, NothingReleased
  <2>2. CASE queue' = Rest("async")
    BY <1>2, <1>3, <2>1, <2>2, MessageFacts DEF AsyncSends
  <2>3. CASE /\ helperDevice \in Devices
             /\ releaseCameraInternal(helperDevice, helperDevice \in mUVCCamera, Rest("async"))
    <3> DEFINE o == helperDevice \in mUVCCamera
               q == Rest("async")
    <3>1. /\ o \in BOOLEAN /\ releaseCameraInternal(helperDevice, o, q) /\ helperDevice \in Devices
          /\ q \in Queues /\ \A u \in Threads : u # "async" => q[u] = queue[u]
      BY <1>2, <2>1, <2>3, MessageFacts
    <3> HIDE DEF o, q
    <3>2. /\ queue' \in Queues /\ queue'["monitor"] = q["monitor"]
          /\ \A x : Contains(queue'["main"], x) =>
               Contains(q["main"], x) \/ x = Message("cameraClose", helperDevice)
      BY <1>1, <3>1, ReleaseFacts, MessageFacts
    <3>3. \A e : Message("cameraClose", helperDevice) # Message("detached", e)
      BY RecordFacts
    <3> QED  BY <1>3, <2>1, <3>1, <3>2, <3>3, MessageFacts DEF AsyncSends
  <2> QED  BY <2>1, <2>2, <2>3
<1>11. CASE DestroyMonitor
  <2>1. PICK closed \in SUBSET mOpenedCtrlBlocks :
          \E s \in SetToSeqs({Message("closed", d) : d \in closed}) :
            queue' = [queue EXCEPT !["listener"] = @ \o s, !["monitor"] = <<>>]
    BY <1>11 DEF DestroyMonitor
  <2>2. PICK s \in SetToSeqs({Message("closed", d) : d \in closed}) :
          queue' = [queue EXCEPT !["listener"] = @ \o s, !["monitor"] = <<>>]
    BY <2>1
  <2>3. closed \in SUBSET Devices /\ "closed" \in Whats /\ queue["listener"] \in Seq(Msgs)
    BY <1>1, MessageFacts DEF Typed, TableTypes, Whats, Queues
  <2>4. queue["listener"] \o s \in Seq(Msgs)
    BY <2>3, SeveralFacts
  <2>5. <<>> \in Seq(Msgs) /\ \A x : ~Contains(<<>>, x)
    BY DEF Contains
  <2>6. /\ queue' \in Queues /\ queue'["main"] = queue["main"] /\ queue'["monitor"] = <<>>
    BY <1>1, <2>2, <2>4, <2>5, MessageFacts DEF Queues
  <2>7. pc'["async"].at = "quit"
    BY <1>1, <1>11, MoveFacts, MessageFacts DEF DestroyMonitor
  <2> QED  BY <1>3, <2>5, <2>6, <2>7 DEF AsyncSends
<1> QED  BY <1>4, <1>5, <1>6, <1>8, <1>9, <1>10, <1>11
         DEF Async, OpenSelected, getCamera, Awaited, getCameraFrame, ResetUVCCamera, OpenUVCCamera,
             QuitSafely

-----------------------------------------------------------------------------
(* The invariant's steps. *)

\* Queues hold messages.
LEMMA QueueStep == Typed /\ Next => QueueTypes'
<1> SUFFICES ASSUME Typed, Next PROVE queue' \in Queues /\ quit' \subseteq {"async", "listener", "monitor"}
  BY DEF QueueTypes
<1>1. quit \subseteq {"async", "listener", "monitor"}
  BY DEF Typed, QueueTypes
<1> QED  BY <1>1, SystemQueues, MainQueues, UserQueues, MonitorQueues, ListenerQueues, AsyncQueues
         DEF Next, MonitorSends, ListenerSends, AsyncSends

\* All types.
LEMMA TypedStep == Typed /\ Next => Typed'
BY SystemStep, QueueStep, PlaceStep, TableStep, SyncStep, CameraStep, ClientStep DEF Typed

\* A release, once begun, goes on to its end, and comes after all else.
LEMMA LifeStep == Typed /\ Life /\ Next => Life' /\ (Over => Over')
<1> SUFFICES ASSUME Typed, Life, Next PROVE Life' /\ (Over => Over')
  OBVIOUS
<1>1. PlaceTypes
  BY DEF Typed
<1>2. CASE System \/ User \/ Main \/ Listener \/ Monitor
  <2>1. UNCHANGED <<mService, mDestroyed, quit>>
    BY <1>2 DEF looperVars, helperVars, Broadcast, System, Plug, GrantBySystem, Unplug, Answer,
                User, TakeUsbPicture, ClearCameraHelper, mainFrame, Main, AttachNewDevice,
                OpenOnDeviceOpen, StartOnCameraOpen, OnCameraClose, ForgetDevice, ReceiveBroadcast,
                getCamera, Awaited, getCameraFrame, Listener, OnAttach, AddCamera, RegisterCallback,
                OnDetach, RemoveCamera, FinishRemove, OnCancel, Notify, listenerFrame, Monitor,
                CheckDevices, MonitorPosts, PermissionGranted, PermissionDenied, DeviceDetached,
                monitorFrame
  <2>2. pc'["async"] = pc["async"]
    BY <1>2, Alone, MessageFacts DEF Moved
  <2> QED  BY <2>1, <2>2 DEF Life, Over
<1>3. \A w, d : Handles("async", w, d) => pc["async"].at = "idle"
  BY RecordFacts DEF Handles
<1>4. CASE Async
  <2>1. CASE ReleaseTask
    <3>1. helperDevice \in Devs
      BY DEF Typed, ClientTypes
    <3>2. pc["async"].at = "idle" /\ pc'["async"].at = "destroy"
      BY <1>1, <1>3, <2>1, <3>1, MoveFacts DEF ReleaseTask
    <3>3. UNCHANGED <<mService, mDestroyed, quit>>
      BY <2>1 DEF ReleaseTask, helperVars
    <3> QED  BY <3>2, <3>3 DEF Life, Over
  <2>2. CASE DestroyMonitor
    <3>1. UNCHANGED mService /\ pc'["async"].at = "quit"
      BY <1>1, <2>2, MoveFacts DEF DestroyMonitor, helperVars
    <3> QED  BY <3>1 DEF Life, Over
  <2>3. CASE QuitSafely
    <3>1. ~mService' /\ pc'["async"].at = "idle"
      BY <1>1, <2>3, MoveFacts DEF QuitSafely
    <3> QED  BY <3>1 DEF Life, Over
  <2>4. CASE ~(ReleaseTask \/ DestroyMonitor \/ QuitSafely)
    <3>1. UNCHANGED <<mService, mDestroyed, quit>>
      BY <1>4, <2>4 DEF helperVars, Async, SelectTask, OpenSelected, PostSelected, AskForSelected,
                        CameraTask, getCamera, Awaited, ResetUVCCamera, OpenUVCCamera,
                        ProcessOnCameraOpen, ReleaseTask, DestroyMonitor, QuitSafely, asyncFrame,
                        openFrame, getCameraFrame
    <3>2. pc["async"].at \notin {"destroy", "quit"}
      BY <1>4, <1>3, <2>4 DEF Async, SelectTask, OpenSelected, PostSelected, AskForSelected,
                              CameraTask, getCamera, Awaited, ResetUVCCamera, OpenUVCCamera,
                              ProcessOnCameraOpen, ReleaseTask, DestroyMonitor, QuitSafely,
                              asyncFrame, openFrame, getCameraFrame
    <3>3. ~mService => pc["async"].at = "idle" /\ pc' = pc
      BY <1>4, <2>4, <3>2 DEF Life, Async, SelectTask, OpenSelected, PostSelected, AskForSelected,
                              CameraTask, getCamera, Awaited, ResetUVCCamera, OpenUVCCamera,
                              ProcessOnCameraOpen, ReleaseTask, DestroyMonitor, QuitSafely,
                              asyncFrame, openFrame, getCameraFrame
    <3>4. mDestroyed \/ quit # {} => ~mService
      BY <3>2 DEF Life
    <3> QED  BY <3>1, <3>2, <3>3, <3>4 DEF Life, Over
  <2> QED  BY <2>1, <2>2, <2>3, <2>4
<1> QED  BY <1>2, <1>4 DEF Next

\* A device that is gone does not come back.
LEMMA GoneStep == Typed /\ Next => \A d \in Devices : plugged[d] = "gone" => plugged'[d] = "gone"
<1> SUFFICES ASSUME Typed, Next PROVE \A d \in Devices : plugged[d] = "gone" => plugged'[d] = "gone"
  OBVIOUS
<1>1. plugged \in [Devices -> {"absent", "here", "gone"}]
  BY DEF Typed, SystemTypes
<1>2. CASE System
  BY <1>1, <1>2 DEF Here, System, Plug, GrantBySystem, Unplug, Answer
<1>3. CASE User \/ Main \/ Listener \/ Monitor \/ Async
  BY <1>3 DEF systemVars, User, TakeUsbPicture, ClearCameraHelper, mainFrame, Main, AttachNewDevice,
              OpenOnDeviceOpen, StartOnCameraOpen, OnCameraClose, ForgetDevice, ReceiveBroadcast,
              getCamera, Awaited, getCameraFrame, Listener, OnAttach, AddCamera, RegisterCallback,
              OnDetach, RemoveCamera, FinishRemove, OnCancel, Notify, listenerFrame, Monitor,
              CheckDevices, MonitorPosts, PermissionGranted, PermissionDenied, DeviceDetached,
              monitorFrame, Async, SelectTask, OpenSelected, PostSelected, AskForSelected,
              CameraTask, ResetUVCCamera, OpenUVCCamera, ProcessOnCameraOpen, ReleaseTask,
              DestroyMonitor, QuitSafely, asyncFrame, openFrame
<1> QED  BY <1>2, <1>3 DEF Next

\* Whoever is to remove a camera was sent by the device's end, or by a release.
LEMMA LeavesStep == Typed /\ Life /\ Leaves /\ Next => Leaves'
<1> SUFFICES ASSUME Typed, Life, Leaves, Next, NEW d \in Devices, Leaving(d)'
    PROVE  plugged'[d] = "gone" \/ Over'
  BY DEF Leaves
<1>1. PlaceTypes
  BY DEF Typed
<1>2. SUFFICES Leaving(d) \/ plugged'[d] = "gone" \/ Over'
  BY LifeStep, GoneStep DEF Leaves
<1>3. CASE System
  <2>1. pc' = pc
    BY <1>3, Alone
  <2> QED  BY <1>3, <2>1, SystemQueues, MessageFacts DEF Leaving
<1>4. CASE Main
  <2>1. pc'["monitor"] = pc["monitor"] /\ pc'["listener"] = pc["listener"]
    BY <1>4, Alone, MessageFacts DEF Moved
  <2> QED  BY <1>4, <2>1, MainQueues, MessageFacts DEF Leaving
<1>5. CASE User
  <2>1. pc' = pc
    BY <1>5, Alone
  <2> QED  BY <1>5, <2>1, UserQueues, MessageFacts DEF Leaving
<1>6. CASE Monitor
  <2>1. pc'["listener"] = pc["listener"]
    BY <1>6, Alone, MessageFacts DEF Moved
  <2>2. MonitorSends
    BY <1>6, MonitorQueues
  <2> QED  BY <2>1, <2>2 DEF Leaving, MonitorSends
<1>7. CASE Listener
  <2>1. pc'["monitor"] = pc["monitor"]
    BY <1>7, Alone, MessageFacts DEF Moved
  <2>2. ListenerSends
    BY <1>7, ListenerQueues
  <2> QED  BY <2>1, <2>2 DEF Leaving, ListenerSends
<1>8. CASE Async
  <2>1. pc'["monitor"] = pc["monitor"] /\ pc'["listener"] = pc["listener"]
    BY <1>8, Alone, MessageFacts DEF Moved
  <2>2. AsyncSends
    BY <1>8, AsyncQueues
  <2> QED  BY <2>1, <2>2 DEF Leaving, AsyncSends, Over
<1> QED  BY <1>3, <1>4, <1>5, <1>6, <1>7, <1>8 DEF Next

\* A removal leaves the camera closed.
LEMMA RemovalCloses ==
  ASSUME Typed, Known, FinishRemove
  PROVE  /\ pc["listener"].dev \in Devices /\ mCameras' = mCameras \ {pc["listener"].dev}
         /\ connected' \subseteq connected /\ pc["listener"].dev \notin connected'
<1> DEFINE d == pc["listener"].dev
<1>1. /\ PlaceTypes /\ CameraTypes /\ QueueTypes
      /\ d \in Devices /\ pc["listener"].at = "release" /\ pc["listener"].task \in {"close", "drop"}
  BY DEF Typed, FinishRemove, PlaceTypes, ListenerPlaces
<1>2. mCameras' = mCameras \ {d}
  BY DEF FinishRemove
<1>3. CASE d \notin mCameras
  BY <1>1, <1>2, <1>3 DEF FinishRemove, NothingReleased, cameraVars, Known
<1>4. CASE d \in mCameras
  <2> DEFINE o == pc["listener"].task = "close"
  <2>1. o \in BOOLEAN /\ releaseCameraInternal(d, o, queue) /\ queue \in Queues
    BY <1>1, <1>4 DEF FinishRemove, QueueTypes
  <2>2. ~o => d \notin connected
    BY <1>1 DEF Known
  <2> HIDE DEF o
  <2>3. connected' = (IF o THEN connected \ {d} ELSE connected)
    BY <1>1, <2>1, ReleaseFacts
  <2> QED  BY <1>1, <1>2, <2>2, <2>3
<1> QED  BY <1>3, <1>4

\* So does a release.
LEMMA ReleaseCloses ==
  ASSUME Typed, Known, ReleaseTask
  PROVE  connected' \subseteq connected /\ helperDevice \notin connected'
<1>1. /\ CameraTypes /\ QueueTypes /\ queue \in Queues /\ "async" \in Threads
      /\ mCameras \subseteq Devices /\ connected \subseteq mUVCCamera
  BY MessageFacts DEF Typed, QueueTypes, CameraTypes
<1>2. CASE helperDevice \notin mCameras
  BY <1>2 DEF ReleaseTask, NothingReleased, cameraVars, Known
<1>3. CASE helperDevice \in mCameras
  <2> DEFINE o == helperDevice \in mUVCCamera
             q == Rest("async")
  <2>1. o \in BOOLEAN /\ releaseCameraInternal(helperDevice, o, q) /\ helperDevice \in Devices
    BY <1>1, <1>3 DEF ReleaseTask
  <2>2. q \in Queues
    BY <1>1, RestFacts DEF ReleaseTask
  <2>3. ~o => helperDevice \notin connected
    BY <1>1
  <2> HIDE DEF o, q
  <2>4. connected' = (IF o THEN connected \ {helperDevice} ELSE connected)
    BY <1>1, <2>1, <2>2, ReleaseFacts
  <2> QED  BY <2>3, <2>4
<1> QED  BY <1>2, <1>3

\* An opening finds its camera in mCameras, and a removal that closes nothing has
\* nothing to close.
LEMMA KnownStep == Typed /\ Life /\ Leaves /\ Known /\ Next => Known'
<1> SUFFICES ASSUME Typed, Life, Leaves, Known, Next PROVE Known'
  OBVIOUS
<1>1. /\ PlaceTypes /\ AsyncPlaces /\ ListenerPlaces /\ CameraTypes /\ QueueTypes /\ helperDevice \in Devs
      /\ connected \subseteq mUVCCamera /\ mCameras \subseteq Devices
  BY DEF Typed, PlaceTypes, ClientTypes, CameraTypes
<1>2. \A d \in Devices : plugged[d] = "gone" => plugged'[d] = "gone"
  BY GoneStep
<1> DEFINE opening == pc["async"].at \in {"reset", "connect"}
\* While an opening is under way, no release is.
<1>3. opening => pc["async"].dev \in Devices /\ \A d \in Devices : Leaving(d) => plugged[d] = "gone"
  BY <1>1 DEF Life, Leaves, Over, AsyncPlaces
<1>4. CASE System \/ User \/ Main \/ Monitor
  <2>1. pc'["async"] = pc["async"] /\ pc'["listener"] = pc["listener"]
    BY <1>4, Alone, MessageFacts DEF Moved
  <2>2. UNCHANGED <<connected, mCameras>>
    BY <1>4 DEF registryVars, cameraVars, System, Plug, GrantBySystem, Unplug, Answer, User,
                TakeUsbPicture, ClearCameraHelper, mainFrame, Main, AttachNewDevice,
                OpenOnDeviceOpen, StartOnCameraOpen, OnCameraClose, ForgetDevice, ReceiveBroadcast,
                getCamera, Awaited, getCameraFrame, Monitor, CheckDevices, MonitorPosts,
                PermissionGranted, PermissionDenied, DeviceDetached, monitorFrame
  <2> QED  BY <1>2, <1>3, <2>1, <2>2 DEF Known
<1>5. CASE Listener
  <2>1. pc'["async"] = pc["async"]
    BY <1>5, Alone, MessageFacts DEF Moved
  <2>2. CASE FinishRemove
    <3> DEFINE d == pc["listener"].dev
    <3>1. /\ d \in Devices /\ pc["listener"].at = "release" /\ pc["listener"].task \in {"close", "drop"}
          /\ pc'["listener"].at = "idle" /\ mCameras' = mCameras \ {d}
      BY <1>1, <2>2, MoveFacts, MessageFacts DEF FinishRemove, ListenerPlaces
    <3>2. connected' \subseteq connected /\ d \notin connected'
      BY <2>2, RemovalCloses
    <3>3. opening => pc["async"].dev \in mCameras' \/ plugged[pc["async"].dev] = "gone"
      <4>1. Leaving(d)
        BY <3>1 DEF Leaving
      <4> QED  BY <1>3, <3>1, <4>1 DEF Known
    <3> QED  BY <1>2, <1>3, <2>1, <3>1, <3>2, <3>3 DEF Known
  <2>3. ASSUME NEW d \in Devices, RemoveCamera(d) PROVE Known'
    <3>1. UNCHANGED <<connected, mCameras>>
      BY <2>3 DEF RemoveCamera, registryVars, cameraVars
    <3>2. \/ Goto("listener", "release", "close", d)
          \/ Goto("listener", "release", "drop", d) /\ d \notin mCameras \cap mUVCCamera
      BY <2>3 DEF RemoveCamera
    <3>3. pc'["listener"].task = "drop" => pc'["listener"].dev \notin connected
      BY <1>1, <3>2, MoveFacts DEF Known
    <3> QED  BY <1>2, <1>3, <2>1, <3>1, <3>3 DEF Known
  <2>4. CASE \/ RegisterCallback
             \/ \E d \in Devices : OnAttach(d) \/ AddCamera(d) \/ OnDetach(d) \/ OnCancel(d) \/ Notify(d)
    <3>1. connected' = connected /\ mCameras \subseteq mCameras'
      BY <2>4 DEF RegisterCallback, OnAttach, AddCamera, OnDetach, OnCancel, Notify, registryVars,
                  cameraVars
    <3>2. pc'["listener"] = pc["listener"] \/ pc'["listener"].at # "release"
      BY <1>1, <2>4, MoveFacts, MessageFacts DEF RegisterCallback, OnAttach, AddCamera, OnDetach,
                                                 OnCancel, Notify
    <3> QED  BY <1>2, <1>3, <2>1, <3>1, <3>2 DEF Known
  <2> QED  BY <1>5, <2>2, <2>3, <2>4 DEF Listener
<1>6. CASE Async
  <2>1. pc'["listener"] = pc["listener"]
    BY <1>6, Alone, MessageFacts DEF Moved
  <2>2. CASE OpenUVCCamera
    <3> DEFINE d == pc["async"].dev
    <3>1. /\ pc["async"].at = "connect" /\ pc'["async"].at \in {"tell", "idle"}
          /\ mCameras' = mCameras /\ plugged' = plugged
      BY <1>1, <1>3, <2>2, MoveFacts, MessageFacts DEF OpenUVCCamera, openFrame, registryVars,
                                                       systemVars
    <3>2. connected' = connected \/ (connected' = connected \cup {d} /\ plugged[d] # "gone")
      BY <2>2 DEF OpenUVCCamera, MayOpen, Here
    <3>3. CASE connected' = connected
      BY <2>1, <3>1, <3>3 DEF Known
    <3>4. CASE connected' = connected \cup {d} /\ plugged[d] # "gone"
      <4>1. d \in mCameras /\ ~Leaving(d)
        BY <1>3, <3>1, <3>4 DEF Known
      <4>2. ~(pc["listener"].at = "release" /\ pc["listener"].dev = d)
        BY <4>1 DEF Leaving
      <4> QED  BY <2>1, <3>1, <3>4, <4>1, <4>2 DEF Known
    <3> QED  BY <3>2, <3>3, <3>4
  <2>3. CASE ReleaseTask
    <3>1. pc'["async"].at = "destroy" /\ mCameras' = mCameras \ {helperDevice}
      BY <1>1, <2>3, MoveFacts, MessageFacts DEF ReleaseTask
    <3>2. connected' \subseteq connected /\ helperDevice \notin connected'
      BY <2>3, ReleaseCloses
    <3> QED  BY <2>1, <3>1, <3>2 DEF Known
  <2>4. CASE getCamera("async") \/ Awaited("async")
    <3>1. UNCHANGED <<connected, mCameras>> /\ pc["async"].dev \in Devices
      BY <1>1, <2>4 DEF getCamera, Awaited, getCameraFrame, registryVars, cameraVars, AsyncPlaces
    <3>2. \/ Return("async") \/ Goto("async", "wait", pc["async"].task, pc["async"].dev)
          \/ Goto("async", "reset", pc["async"].task, pc["async"].dev) /\ pc["async"].dev \in mCameras
      BY <2>4 DEF getCamera, Awaited, Continue
    <3>3. pc'["async"].at \in {"reset", "connect"} => pc'["async"].dev \in mCameras
      BY <1>1, <3>1, <3>2, MoveFacts, MessageFacts
    <3> QED  BY <2>1, <3>1, <3>3 DEF Known
  <2>5. CASE ResetUVCCamera
    <3>1. UNCHANGED <<connected, mCameras, plugged>> /\ opening /\ pc["async"].dev \in Devices
      BY <1>3, <2>5 DEF ResetUVCCamera, openFrame, registryVars, systemVars
    <3>2. pc'["async"].at \in {"reset", "connect"} => pc'["async"].dev = pc["async"].dev
      BY <1>1, <2>5, <3>1, MoveFacts, MessageFacts DEF ResetUVCCamera
    <3> QED  BY <2>1, <3>1, <3>2 DEF Known
  <2>6. CASE ~(OpenUVCCamera \/ ReleaseTask \/ getCamera("async") \/ Awaited("async") \/ ResetUVCCamera)
    <3>1. UNCHANGED <<connected, mCameras>>
      BY <1>6, <2>6 DEF registryVars, cameraVars, Async, SelectTask, OpenSelected, PostSelected,
                        AskForSelected, CameraTask, getCamera, Awaited, ResetUVCCamera,
                        OpenUVCCamera, ProcessOnCameraOpen, ReleaseTask, DestroyMonitor, QuitSafely,
                        asyncFrame, openFrame, getCameraFrame
    <3>2. pc'["async"].at \notin {"reset", "connect"}
      <4>1. ASSUME NEW d \in Devices, SelectTask(d) PROVE pc'["async"].at \in {"idle", "select"}
        <5>1. pc["async"].at = "idle"
          BY <4>1, RecordFacts DEF SelectTask, Handles
        <5>2. pc' = pc \/ Goto("async", "select", "select", d)
          BY <4>1 DEF SelectTask
        <5> QED  BY <1>1, <5>1, <5>2, MoveFacts
      <4>2. CASE OpenSelected \/ PostSelected \/ AskForSelected
        <5>1. pc["async"].dev \in Devs
          BY <1>1, MoveFacts, MessageFacts
        <5> QED  BY <1>1, <4>2, <5>1, MoveFacts, MessageFacts
                 DEF OpenSelected, PostSelected, AskForSelected, AwaitSelected, processOpenDevice
      <4>3. ASSUME NEW task \in {"open", "start", "picture"}, CameraTask(task)
            PROVE  pc'["async"].at \in {"idle", "get"}
        <5>1. pc["async"].at = "idle"
          BY <4>3, RecordFacts DEF CameraTask, Handles
        <5>2. pc' = pc \/ Goto("async", "get", task, helperDevice)
          BY <4>3 DEF CameraTask
        <5> QED  BY <1>1, <5>1, <5>2, MoveFacts
      <4>4. CASE ProcessOnCameraOpen \/ DestroyMonitor \/ QuitSafely
        BY <1>1, <4>4, MoveFacts, MessageFacts DEF ProcessOnCameraOpen, DestroyMonitor, QuitSafely
      <4> QED  BY <1>6, <2>6, <4>1, <4>2, <4>3, <4>4 DEF Async
    <3> QED  BY <2>1, <3>1, <3>2 DEF Known
  <2> QED  BY <2>2, <2>3, <2>4, <2>5, <2>6
<1> QED  BY <1>4, <1>5, <1>6 DEF Next

\* The answer a waiting selectDevice is owed is kept, passed on or delivered.
LEMMA AskedStep == Typed /\ Life /\ Asked /\ Next => Asked'
<1> SUFFICES ASSUME Typed, Life, Asked, Next, "async" \in waiting', pc'["async"].task = "select"
    PROVE  Answering(pc["async"].dev)'
  BY DEF Asked
<1>1. /\ PlaceTypes /\ SyncTypes /\ AsyncPlaces /\ MonitorPlaces /\ QueueTypes /\ queue \in Queues
      /\ "main" \notin quit
  BY DEF Typed, PlaceTypes, QueueTypes
<1>2. "async" \in waiting => pc["async"].at = "wait"
  BY <1>1 DEF SyncTypes
\* While the helper waits or posts, nothing has been released.
<1>3. pc["async"].at \in {"wait", "select", "post"} =>
        pc["async"].dev \in Devices /\ ~mDestroyed /\ quit = {}
  BY <1>1 DEF Life, AsyncPlaces
<1> DEFINE d == pc["async"].dev
<1>4. ASSUME pc'["async"] = pc["async"], waiting' \subseteq waiting \cup {"main"}
      PROVE  d \in Devices /\ ~mDestroyed /\ quit = {} /\ Answering(d) /\ pc'["async"].dev = d
  BY <1>2, <1>3, <1>4 DEF Asked
<1>5. CASE System
  <2>1. pc' = pc /\ waiting' = waiting
    BY <1>5, Alone DEF syncVars, System, Plug, GrantBySystem, Unplug, Answer
  <2>2. d \in Devices /\ ~mDestroyed /\ Answering(d) /\ pc'["async"].dev = d
    BY <1>4, <2>1
  <2>3. CASE Answer(d)
    <3>1. \E w \in {"granted", "denied"} : queue' = Posted(queue, "main", Message(w, d))
      BY <2>2, <2>3 DEF Answer, Broadcast
    <3>2. PICK w \in {"granted", "denied"} : queue' = Posted(queue, "main", Message(w, d))
      BY <3>1
    <3>3. Message(w, d) \in Msgs
      BY <2>2, MessageFacts
    <3>4. Contains(queue'["main"], Message(w, d))
      BY <1>1, <3>2, <3>3, ToMain
    <3> QED  BY <2>2, <3>4 DEF Answering
  <2>4. CASE ~Answer(d)
    <3>1. d \in dialogs => d \in dialogs'
      BY <1>5, <2>4 DEF System, Plug, GrantBySystem, Unplug, Answer
    <3> QED  BY <1>5, <2>1, <2>2, <3>1, SystemQueues, MessageFacts DEF Answering
  <2> QED  BY <2>3, <2>4
<1>6. CASE Main
  <2>1. /\ pc'["async"] = pc["async"] /\ pc'["monitor"] = pc["monitor"]
        /\ pc'["listener"] = pc["listener"]
        /\ dialogs' = dialogs
    BY <1>6, Alone, MessageFacts DEF Moved, systemVars, Main, AttachNewDevice, OpenOnDeviceOpen,
                                     StartOnCameraOpen, OnCameraClose, ForgetDevice,
                                     ReceiveBroadcast, getCamera, Awaited, mainFrame, getCameraFrame
  <2>2. waiting' \subseteq waiting \cup {"main"}
    BY <1>6 DEF syncVars, Main, AttachNewDevice, OpenOnDeviceOpen, StartOnCameraOpen, OnCameraClose,
                ForgetDevice, ReceiveBroadcast, getCamera, Awaited, mainFrame, getCameraFrame
  <2>3. d \in Devices /\ quit = {} /\ Answering(d) /\ pc'["async"].dev = d
    BY <1>4, <2>1, <2>2
  <2> QED  BY <1>6, <2>1, <2>3, MainQueues DEF Answering
<1>7. CASE User
  <2>1. pc' = pc /\ waiting' = waiting /\ dialogs' = dialogs
    BY <1>7, Alone DEF syncVars, systemVars, User, TakeUsbPicture, ClearCameraHelper, mainFrame
  <2>2. Answering(d) /\ pc'["async"].dev = d
    BY <1>4, <2>1
  <2> QED  BY <1>7, <2>1, <2>2, UserQueues, MessageFacts DEF Answering
<1>8. CASE Monitor
  <2>1. /\ pc'["async"] = pc["async"] /\ pc'["listener"] = pc["listener"]
        /\ dialogs' = dialogs /\ waiting' = waiting
    BY <1>8, Alone, MessageFacts DEF Moved, systemVars, syncVars, Monitor, CheckDevices,
                                     MonitorPosts, PermissionGranted, PermissionDenied,
                                     DeviceDetached, monitorFrame
  <2>2. d \in Devices /\ quit = {} /\ Answering(d) /\ pc'["async"].dev = d
    BY <1>4, <2>1
  <2>3. MonitorSends
    BY <1>8, MonitorQueues
  <2> QED  BY <2>1, <2>2, <2>3 DEF Answering, MonitorSends
<1>9. CASE Listener
  <2>1. pc'["async"] = pc["async"] /\ pc'["monitor"] = pc["monitor"] /\ dialogs' = dialogs
    BY <1>9, Alone, MessageFacts DEF Moved, systemVars, Listener, OnAttach, AddCamera,
                                     RegisterCallback, OnDetach, RemoveCamera, FinishRemove,
                                     OnCancel, Notify, listenerFrame
  <2>2. waiting' \subseteq waiting
    BY <1>9 DEF syncVars, NotifyAll, Listener, OnAttach, AddCamera, RegisterCallback, OnDetach,
                RemoveCamera, FinishRemove, OnCancel, Notify, listenerFrame
  <2>3. d \in Devices /\ Answering(d) /\ pc'["async"].dev = d
    BY <1>4, <2>1, <2>2
  <2>4. ListenerSends /\ waiting' # {}
    BY <1>9, ListenerQueues
  <2> QED  BY <2>1, <2>3, <2>4 DEF Answering, ListenerSends
<1>10. CASE Async
  <2>1. CASE PostSelected
    <3>1. pc["async"].at = "post" /\ d \in Devices /\ quit = {} /\ pc["async"].task \in {"opened", "failed"}
      BY <1>1, <1>3, <2>1 DEF PostSelected, AsyncPlaces
    <3>2. Goto("async", "wait", "select", d) /\ queue' = Posted(queue, "listener", Message(pc["async"].task, d))
      BY <1>2, <2>1, <3>1 DEF PostSelected, AwaitSelected
    <3>3. pc'["async"].dev = d
      BY <1>1, <3>1, <3>2, MoveFacts
    <3>4. PICK w \in {"opened", "failed"} : w = pc["async"].task
      BY <3>1
    <3>5. Message(w, d) \in Msgs
      BY <3>1, MessageFacts
    <3>6. Contains(queue'["listener"], Message(w, d))
      BY <1>1, <3>1, <3>2, <3>4, <3>5, ToListener
    <3> QED  BY <3>3, <3>6 DEF Answering
  <2>2. CASE AskForSelected
    <3>1. pc["async"].at = "select" /\ d \in Devices /\ quit = {}
      BY <1>3, <2>2 DEF AskForSelected
    <3>2. /\ Goto("async", "wait", "select", d)
          /\ \/ d \in dialogs'
             \/ queue' = Posted(queue, "listener", Message("cancel", d))
      BY <1>2, <2>2, <3>1 DEF AskForSelected, AwaitSelected, processCancel
    <3>3. pc'["async"].dev = d
      BY <1>1, <3>1, <3>2, MoveFacts
    <3>4. Message("cancel", d) \in Msgs
      BY <3>1, MessageFacts
    <3>5. d \in dialogs' \/ Contains(queue'["listener"], Message("cancel", d))
      BY <1>1, <3>1, <3>2, <3>4, ToListener
    <3> QED  BY <3>3, <3>5 DEF Answering
  <2>3. CASE getCamera("async")
    <3>1. pc["async"].at = "get" /\ pc["async"].task # "select"
      BY <1>1, <2>3 DEF getCamera, AsyncPlaces
    <3>2. Goto("async", "wait", pc["async"].task, d)
      BY <1>2, <2>3, <3>1 DEF getCamera
    <3>3. pc'["async"].task = pc["async"].task
      BY <1>1, <3>2, MoveFacts, MessageFacts
    <3> QED  BY <3>1, <3>3
  <2>4. ~(PostSelected \/ AskForSelected \/ getCamera("async")) => "async" \in waiting
    BY <1>10 DEF syncVars, Async, SelectTask, OpenSelected, PostSelected, AskForSelected,
                 CameraTask, getCamera, Awaited, ResetUVCCamera, OpenUVCCamera, ProcessOnCameraOpen,
                 ReleaseTask, DestroyMonitor, QuitSafely, asyncFrame, openFrame, getCameraFrame
  <2>5. \A w, e : Handles("async", w, e) => pc["async"].at = "idle"
    BY RecordFacts DEF Handles
  <2>6. CASE "async" \in waiting
    BY <1>2, <1>10, <2>5, <2>6 DEF Async, SelectTask, OpenSelected, PostSelected, AskForSelected,
                                   CameraTask, getCamera, Awaited, ResetUVCCamera, OpenUVCCamera,
                                   ProcessOnCameraOpen, ReleaseTask, DestroyMonitor, QuitSafely,
                                   asyncFrame, openFrame, getCameraFrame
  <2> QED  BY <2>1, <2>2, <2>3, <2>4, <2>6
<1> QED  BY <1>5, <1>6, <1>7, <1>8, <1>9, <1>10 DEF Next

-----------------------------------------------------------------------------
(* What a thread's queue undergoes. *)

Same(t)         == queue'[t] = queue[t]
Takes(t, w, d)  == /\ queue[t] # <<>> /\ Head(queue[t]) = Message(w, d)
                   /\ queue'[t] = Tail(queue[t]) /\ pc[t] = Idle
Gets(t, w, d)   == queue'[t] = Append(queue[t], Message(w, d))

\* No new message carries e's selection.
Quiet(t, e) ==
  /\ Reached(t, e)' => Reached(t, e)
  /\ Once(queue[t], Kinds(t), e) => Once(queue'[t], Kinds(t), e)
  /\ t = "async" => /\ Selects(queue'[t]) => Selects(queue[t])
                    /\ IsLast(queue[t], e) => IsLast(queue'[t], e)

\* Appending.
LEMMA AppendCarries ==
  ASSUME NEW s \in Seq(Msgs), NEW w \in Whats, NEW d \in Devs, NEW K, NEW e
  PROVE  LET z == Append(s, Message(w, d)) IN
         /\ Carries(z, K, e) <=> Carries(s, K, e) \/ (w \in K /\ d = e)
         /\ Once(s, K, e) /\ ~(Carries(s, K, e) /\ w \in K /\ d = e) => Once(z, K, e)
         /\ Selects(z) <=> Selects(s) \/ w = "select"
         /\ w # "select" /\ IsLast(s, e) => IsLast(z, e)
         /\ ~Carries(s, {"select"}, e) => IsLast(z, e)
<1> DEFINE m == Message(w, d)
           z == Append(s, m)
<1>1. m \in Msgs /\ m.what = w /\ m.dev = d
  BY RecordFacts DEF Message
<1>2. /\ Len(s) \in Nat /\ Len(z) = Len(s) + 1
      /\ \A i \in 1..Len(s) : z[i] = s[i]
      /\ z[Len(s) + 1] = m
  BY <1>1, AppendProperties, LenProperties
<1> HIDE DEF m, z
<1>3. Carries(z, K, e) <=> Carries(s, K, e) \/ (w \in K /\ d = e)
  <2>1. ASSUME w \in K, d = e PROVE Carries(z, K, e)
    <3>1. Len(s) + 1 \in 1..Len(z)
      BY <1>2
    <3> QED  BY <1>1, <1>2, <2>1, <3>1 DEF Carries
  <2> QED  BY <1>1, <1>2, <2>1 DEF Carries
<1>4. Once(s, K, e) /\ ~(Carries(s, K, e) /\ w \in K /\ d = e) => Once(z, K, e)
  BY <1>1, <1>2 DEF Once, Carries
<1>5. Selects(z) <=> Selects(s) \/ w = "select"
  <2>1. ASSUME w = "select" PROVE Selects(z)
    <3>1. Len(s) + 1 \in 1..Len(z)
      BY <1>2
    <3> QED  BY <1>1, <1>2, <2>1, <3>1 DEF Selects
  <2> QED  BY <1>1, <1>2, <2>1 DEF Selects
<1>6. w # "select" /\ IsLast(s, e) => IsLast(z, e)
  BY <1>1, <1>2 DEF IsLast
<1>7. ~Carries(s, {"select"}, e) => IsLast(z, e)
  BY <1>1, <1>2 DEF IsLast, Carries
<1> QED  BY <1>3, <1>4, <1>5, <1>6, <1>7 DEF m, z

\* Taking the first.
LEMMA TailCarries ==
  ASSUME NEW s \in Seq(Msgs), s # <<>>, NEW w, NEW d, Head(s) = Message(w, d), NEW K, NEW e
  PROVE  /\ Carries(Tail(s), K, e) => Carries(s, K, e)
         /\ Once(s, K, e) => Once(Tail(s), K, e)
         /\ w \in K /\ d = e => Carries(s, K, e) /\ (Once(s, K, e) => ~Carries(Tail(s), K, e))
         /\ Selects(Tail(s)) => Selects(s)
         /\ w = "select" => Selects(s)
         /\ IsLast(s, e) => IsLast(Tail(s), e)
         /\ w = "select" /\ d = e /\ IsLast(s, e) => ~Selects(Tail(s))
<1> DEFINE z == Tail(s)
<1>1. /\ Len(s) \in Nat \ {0} /\ Len(z) = Len(s) - 1
      /\ s[1] = Message(w, d) /\ \A i \in 1..Len(z) : z[i] = s[i + 1]
  OBVIOUS
<1>2. s[1].what = w /\ s[1].dev = d /\ 1 \in 1..Len(s)
  BY <1>1 DEF Message
<1>3. \A i \in 1..Len(z) : i + 1 \in 1..Len(s) /\ i + 1 # 1 /\ z[i] = s[i + 1] /\ i \in Nat
  BY <1>1
<1> HIDE DEF z
<1>4. Carries(z, K, e) => Carries(s, K, e)
  BY <1>3 DEF Carries
<1>5. Once(s, K, e) => Once(z, K, e)
  BY <1>3 DEF Once
<1>6. w \in K /\ d = e => Carries(s, K, e) /\ (Once(s, K, e) => ~Carries(z, K, e))
  BY <1>2, <1>3 DEF Carries, Once
<1>7. (Selects(z) => Selects(s)) /\ (w = "select" => Selects(s))
  BY <1>2, <1>3 DEF Selects
<1>8. IsLast(s, e) => IsLast(z, e)
  <2> SUFFICES ASSUME IsLast(s, e), NEW i \in 1..Len(z), NEW j \in 1..Len(z),
                      z[i].what = "select", z[i].dev = e, z[j].what = "select"
      PROVE  j <= i
    BY DEF IsLast
  <2>1. j + 1 <= i + 1
    BY <1>3 DEF IsLast
  <2> QED  BY <1>3, <2>1
<1>9. w = "select" /\ d = e /\ IsLast(s, e) => ~Selects(z)
  BY <1>1, <1>2, <1>3 DEF IsLast, Selects
<1> QED  BY <1>4, <1>5, <1>6, <1>7, <1>8, <1>9 DEF z

\* The kinds, thread by thread.
LEMMA KindFacts ==
  /\ Kinds("main") = {"granted", "denied", "cancel"} /\ Kinds("monitor") = {"granted", "denied"}
  /\ Kinds("listener") = {"opened", "failed", "cancel"} /\ Kinds("async") = {"select"}
BY DEF Kinds

\* Leaving a queue alone, taking its first message, and putting one that does not carry e's
\* selection, are quiet.
LEMMA QuietFacts ==
  ASSUME queue \in Queues, NEW e
  PROVE  /\ \A t \in Threads : Same(t) => Quiet(t, e)
         /\ \A t \in Threads : \A w, d : Takes(t, w, d) =>
              /\ Quiet(t, e)
              /\ w \in Kinds(t) /\ d = e =>
                   Reached(t, e) /\ (Once(queue[t], Kinds(t), e) => ~Reached(t, e)')
              /\ t = "async" /\ w = "select" =>
                   /\ Selects(queue[t])
                   /\ d = e /\ IsLast(queue[t], e) => ~Selects(queue'[t])
         /\ \A t \in Threads, w \in Whats, d \in Devs : Gets(t, w, d) =>
              /\ w \notin Kinds(t) \/ (d # e /\ t # "async") => Quiet(t, e)
              /\ ~Reached(t, e) => Once(queue'[t], Kinds(t), e)
              /\ t = "async" /\ ~Reached(t, e) => IsLast(queue'[t], e)
              /\ t = "async" /\ d # e => ~Reached(t, e)' \/ Reached(t, e)
<1>1. \A t \in Threads : queue[t] \in Seq(Msgs)
  BY DEF Queues
<1>2. \A t \in Threads : /\ Reached(t, e) <=> Carries(queue[t], Kinds(t), e)
                         /\ Reached(t, e)' <=> Carries(queue'[t], Kinds(t), e)
  BY DEF Reached, Threads
<1>3. ASSUME NEW t \in Threads, Same(t) PROVE Quiet(t, e)
  BY <1>2, <1>3 DEF Same, Quiet
<1>4. ASSUME NEW t \in Threads, NEW w, NEW d, Takes(t, w, d)
      PROVE  /\ Quiet(t, e)
             /\ w \in Kinds(t) /\ d = e =>
                  Reached(t, e) /\ (Once(queue[t], Kinds(t), e) => ~Reached(t, e)')
             /\ t = "async" /\ w = "select" =>
                  /\ Selects(queue[t])
                  /\ d = e /\ IsLast(queue[t], e) => ~Selects(queue'[t])
  <2> DEFINE s == queue[t]
             K == Kinds(t)
  <2>1. s \in Seq(Msgs) /\ s # <<>> /\ Head(s) = Message(w, d) /\ queue'[t] = Tail(s)
    BY <1>1, <1>4 DEF Takes
  <2> HIDE DEF s, K
  <2>2. /\ Carries(Tail(s), K, e) => Carries(s, K, e)
        /\ Once(s, K, e) => Once(Tail(s), K, e)
        /\ w \in K /\ d = e => Carries(s, K, e) /\ (Once(s, K, e) => ~Carries(Tail(s), K, e))
        /\ Selects(Tail(s)) => Selects(s)
        /\ w = "select" => Selects(s)
        /\ IsLast(s, e) => IsLast(Tail(s), e)
        /\ w = "select" /\ d = e /\ IsLast(s, e) => ~Selects(Tail(s))
    BY <2>1, TailCarries
  <2> QED  BY <1>2, <2>1, <2>2 DEF s, K, Quiet
<1>5. ASSUME NEW t \in Threads, NEW w \in Whats, NEW d \in Devs, Gets(t, w, d)
      PROVE  /\ w \notin Kinds(t) \/ (d # e /\ t # "async") => Quiet(t, e)
             /\ ~Reached(t, e) => Once(queue'[t], Kinds(t), e)
             /\ t = "async" /\ ~Reached(t, e) => IsLast(queue'[t], e)
             /\ t = "async" /\ d # e => ~Reached(t, e)' \/ Reached(t, e)
  <2> DEFINE s == queue[t]
             K == Kinds(t)
             z == Append(s, Message(w, d))
  <2>1. s \in Seq(Msgs) /\ queue'[t] = z
    BY <1>1, <1>5 DEF Gets
  <2>2. t = "async" => K = {"select"}
    BY KindFacts
  <2> HIDE DEF s, K
  <2>3. /\ Carries(z, K, e) <=> Carries(s, K, e) \/ (w \in K /\ d = e)
        /\ Once(s, K, e) /\ ~(Carries(s, K, e) /\ w \in K /\ d = e) => Once(z, K, e)
        /\ Selects(z) <=> Selects(s) \/ w = "select"
        /\ w # "select" /\ IsLast(s, e) => IsLast(z, e)
        /\ ~Carries(s, {"select"}, e) => IsLast(z, e)
    BY <2>1, AppendCarries
  <2>4. ~Carries(s, K, e) => Once(s, K, e)
    BY DEF Once, Carries
  <2> HIDE DEF z
  <2>5. Reached(t, e) <=> Carries(s, K, e)
    BY <1>2 DEF s, K
  <2>6. Reached(t, e)' <=> Carries(z, K, e)
    BY <1>2, <2>1 DEF K
  <2> QED  BY <2>1, <2>2, <2>3, <2>4, <2>5, <2>6 DEF s, K, Quiet
<1> QED  BY <1>3, <1>4, <1>5

-----------------------------------------------------------------------------
(* The selection's steps. *)

Others == {"selecting", "asking", "posting", "added"}

\* A step in which e's selection gets no further.
LEMMA Rests ==
  ASSUME NEW e, Selected(e), \A t \in Threads : Quiet(t, e),
         \A s \in Others : Reached(s, e)' => Reached(s, e),
         clientDevice' = clientDevice \/ \A s \in Stages : ~Reached(s, e)'
  PROVE  Selected(e)'
<1>1. \A s \in Stages : Reached(s, e)' => Reached(s, e)
  BY DEF Stages, Others, Quiet
<1>2. "async" \in Threads
  BY DEF Threads
<1>3. /\ \A t \in Threads : Once(queue'[t], Kinds(t), e)
      /\ IsLast(queue'["async"], e) /\ (Selects(queue'["async"]) => Selects(queue["async"]))
  BY <1>2 DEF Quiet, Selected
<1> QED  BY <1>1, <1>3 DEF Selected

\* A step that takes e's selection from one stage to another.
LEMMA Passes ==
  ASSUME NEW e, Selected(e), NEW s \in Stages, NEW r \in Stages \ {"async"}, r # s,
         Reached(s, e), ~Reached(s, e)',
         \A t \in Threads \ {r, s} : Quiet(t, e),
         s \in Threads => Once(queue'[s], Kinds(s), e),
         r \in Threads => Once(queue'[r], Kinds(r), e),
         s = "async" => ~Selects(queue'["async"]) /\ IsLast(queue'["async"], e),
         \A x \in Others \ {r} : Reached(x, e)' => Reached(x, e),
         clientDevice' = clientDevice
  PROVE  Selected(e)'
<1>1. "async" \in Threads
  BY DEF Threads
<1>2. \A x \in Stages \ {r, s} : ~Reached(x, e)
  BY DEF Selected
<1>3. \A x \in Stages \ {r} : ~Reached(x, e)'
  BY <1>2 DEF Stages, Others, Quiet
<1>4. \A t \in Threads : Once(queue'[t], Kinds(t), e)
  BY DEF Quiet, Selected
<1>5. IsLast(queue'["async"], e) /\ ~Selects(queue'["async"])
  BY <1>1 DEF Quiet, Selected
<1> QED  BY <1>3, <1>4, <1>5 DEF Selected

\* What the other stages are.
LEMMA StageFacts ==
  \A e : /\ Reached("selecting", e) <=> pc["async"].at \in {"select", "post"} /\ pc["async"].dev = e
         /\ Reached("asking", e) <=> e \in dialogs
         /\ Reached("posting", e) <=> /\ pc["monitor"].at = "post" /\ pc["monitor"].dev = e
                                      /\ pc["monitor"].task \in {"opened", "failed"}
         /\ Reached("added", e) <=> e \in mCameras
         /\ Reached("selecting", e)' <=> pc'["async"].at \in {"select", "post"} /\ pc'["async"].dev = e
         /\ Reached("asking", e)' <=> e \in dialogs'
         /\ Reached("posting", e)' <=> /\ pc'["monitor"].at = "post" /\ pc'["monitor"].dev = e
                                       /\ pc'["monitor"].task \in {"opened", "failed"}
         /\ Reached("added", e)' <=> e \in mCameras'
BY DEF Reached, Threads

\* What sending and receiving do to the queues while no looper has quit.
LEMMA EffectFacts ==
  ASSUME queue \in Queues, quit = {}
  PROVE  /\ queue' = queue => \A u \in Threads : Same(u)
         /\ \A t \in Threads : \A w, d : queue' = Posted(queue, t, Message(w, d)) =>
              Gets(t, w, d) /\ \A u \in Threads \ {t} : Same(u)
         /\ \A t \in Threads : \A w, d : Handles(t, w, d) /\ queue' = Rest(t) =>
              Takes(t, w, d) /\ \A u \in Threads \ {t} : Same(u)
         /\ \A t, r \in Threads : \A w, d, v, c :
              r # t /\ Handles(t, w, d) /\ queue' = Posted(Rest(t), r, Message(v, c)) =>
                Takes(t, w, d) /\ Gets(r, v, c) /\ \A u \in Threads \ {t, r} : Same(u)
         /\ \A q, m : ToClient(q, m) = Posted(q, "main", m)
<1>1. queue' = queue => \A u \in Threads : Same(u)
  BY DEF Same
<1>2. ASSUME NEW t \in Threads, NEW w, NEW d, queue' = Posted(queue, t, Message(w, d))
      PROVE  Gets(t, w, d) /\ \A u \in Threads \ {t} : Same(u)
  BY <1>2 DEF Posted, Queues, Gets, Same
<1>3. ASSUME NEW t \in Threads, NEW w, NEW d, Handles(t, w, d)
      PROVE  /\ queue[t] # <<>> /\ Head(queue[t]) = Message(w, d) /\ pc[t] = Idle
             /\ Rest(t)[t] = Tail(queue[t]) /\ \A u \in Threads \ {t} : Rest(t)[u] = queue[u]
             /\ DOMAIN Rest(t) = Threads /\ Rest(t) = [u \in Threads |-> Rest(t)[u]]
  BY <1>3 DEF Handles, Rest, Queues
<1>4. ASSUME NEW t \in Threads, NEW w, NEW d, Handles(t, w, d), queue' = Rest(t)
      PROVE  Takes(t, w, d) /\ \A u \in Threads \ {t} : Same(u)
  BY <1>3, <1>4 DEF Takes, Same
<1>5. ASSUME NEW t \in Threads, NEW r \in Threads, NEW w, NEW d, NEW v, NEW c, r # t,
             Handles(t, w, d), queue' = Posted(Rest(t), r, Message(v, c))
      PROVE  Takes(t, w, d) /\ Gets(r, v, c) /\ \A u \in Threads \ {t, r} : Same(u)
  <2>1. queue' = [Rest(t) EXCEPT ![r] = Append(Rest(t)[r], Message(v, c))]
    BY <1>5 DEF Posted
  <2> QED  BY <1>3, <1>5, <2>1 DEF Takes, Gets, Same
<1>6. \A q, m : ToClient(q, m) = Posted(q, "main", m)
  BY DEF ToClient
<1> QED  BY <1>1, <1>2, <1>4, <1>5, <1>6

\* While no release has begun, loopers run.
LEMMA NotOver == Life /\ ~Over => quit = {} /\ mDestroyed # TRUE /\ mService
BY DEF Life, Over

\* Android's steps: an answer goes on as a broadcast.
LEMMA SystemSelected ==
  ASSUME Typed, Life, ~Over, System, NEW e \in Devices, Selected(e)
  PROVE  Selected(e)'
<1>1. queue \in Queues /\ quit = {} /\ mDestroyed # TRUE
  BY NotOver DEF Typed, QueueTypes
<1>2. pc' = pc /\ mCameras' = mCameras /\ clientDevice' = clientDevice
  BY Alone DEF System, Plug, GrantBySystem, Unplug, Answer, registryVars, clientVars
<1>3. ASSUME dialogs' \subseteq dialogs, \A t \in Threads : Quiet(t, e) PROVE Selected(e)'
  <2>1. \A s \in Others : Reached(s, e)' => Reached(s, e)
    BY <1>2, <1>3, StageFacts DEF Others
  <2> QED  BY <1>2, <1>3, <2>1, Rests
<1>4. ASSUME NEW d \in Devices, Plug(d) \/ GrantBySystem(d) PROVE Selected(e)'
  <2>1. queue' = queue /\ dialogs' = dialogs
    BY <1>4 DEF Plug, GrantBySystem, looperVars
  <2> QED  BY <1>1, <1>3, <2>1, EffectFacts, QuietFacts
<1>5. ASSUME NEW d \in Devices, Unplug(d) PROVE Selected(e)'
  <2>1. queue' = Posted(queue, "main", Message("detached", d)) /\ dialogs' = dialogs
    BY <1>1, <1>5 DEF Unplug, Broadcast
  <2>2. Gets("main", "detached", d) /\ \A u \in Threads \ {"main"} : Same(u)
    BY <1>1, <2>1, EffectFacts, MessageFacts
  <2>3. "detached" \in Whats /\ "detached" \notin Kinds("main") /\ d \in Devs
    BY KindFacts DEF Whats, Devs
  <2>4. \A t \in Threads : Quiet(t, e)
    BY <1>1, <2>2, <2>3, QuietFacts, MessageFacts
  <2> QED  BY <1>3, <2>1, <2>4
<1>6. ASSUME NEW d \in Devices, Answer(d) PROVE Selected(e)'
  <2>1. /\ d \in dialogs /\ dialogs' = dialogs \ {d}
        /\ \E w \in {"granted", "denied"} : queue' = Posted(queue, "main", Message(w, d))
    BY <1>1, <1>6 DEF Answer, Broadcast
  <2>2. PICK w \in {"granted", "denied"} : queue' = Posted(queue, "main", Message(w, d))
    BY <2>1
  <2>3. Gets("main", w, d) /\ \A u \in Threads \ {"main"} : Same(u)
    BY <1>1, <2>2, EffectFacts, MessageFacts
  <2>4. w \in Whats /\ d \in Devs /\ "main" \in Threads /\ "main" # "async"
    BY DEF Whats, Devs, Threads
  <2>5. \A t \in Threads \ {"main"} : Quiet(t, e)
    BY <1>1, <2>3, QuietFacts
  <2>6. CASE d # e
    BY <1>1, <1>3, <2>1, <2>3, <2>4, <2>5, <2>6, QuietFacts
  <2>7. CASE d = e
    <3>1. Reached("asking", e) /\ ~Reached("asking", e)'
      BY <2>1, <2>7, StageFacts
    <3>2. ~Reached("main", e)
      BY <3>1, <2>4 DEF Selected, Stages
    <3>3. Once(queue'["main"], Kinds("main"), e)
      BY <1>1, <2>3, <2>4, <3>2, QuietFacts
    <3>4. \A x \in Others \ {"main"} : Reached(x, e)' => Reached(x, e)
      BY <1>2, <2>1, StageFacts DEF Others
    <3>5. "asking" \in Stages /\ "asking" \notin Threads /\ "main" \in Stages \ {"async"}
      BY DEF Stages, Threads
    <3> QED  BY <1>2, <2>5, <3>1, <3>3, <3>4, <3>5, Passes
  <2> QED  BY <2>6, <2>7
<1> QED  BY <1>4, <1>5, <1>6 DEF System

\* The fragment's steps: it selects when it has no device, and forgets the one it has when
\* the selection was cancelled or the device is no longer live.
LEMMA MainSelected ==
  ASSUME Typed, Life, ~Over, Notices, Main, NEW e \in Devices, Live(e), Selected(e)
  PROVE  Selected(e)'
<1>1. /\ queue \in Queues /\ quit = {} /\ NoDevice \notin Devices
      /\ Threads = {"main", "async", "listener", "monitor"} /\ Devices \subseteq Devs /\ NoDevice \in Devs
  BY NotOver, MessageFacts, ConnectionAssumption DEF Typed, QueueTypes
<1>2. /\ pc'["async"] = pc["async"] /\ pc'["monitor"] = pc["monitor"]
      /\ mCameras' = mCameras /\ dialogs' = dialogs
  BY <1>1, Alone DEF Moved, systemVars, registryVars, Main, AttachNewDevice, OpenOnDeviceOpen,
                     StartOnCameraOpen, OnCameraClose, ForgetDevice, ReceiveBroadcast, getCamera,
                     Awaited, mainFrame, getCameraFrame
<1>3. \A s \in Others : Reached(s, e)' => Reached(s, e)
  BY <1>2, StageFacts DEF Others
<1>4. ASSUME \A t \in Threads : Quiet(t, e), clientDevice' = clientDevice PROVE Selected(e)'
  BY <1>3, <1>4, Rests
<1>5. ASSUME NEW d \in Devices, NEW w \in {"attach", "opened", "cameraOpen", "cameraClose", "detach", "cancel"},
             Handles("main", w, d), queue' = Rest("main")
      PROVE  Takes("main", w, d) /\ (\A t \in Threads \ {"main"} : Same(t)) /\ \A t \in Threads : Quiet(t, e)
  <2>1. Takes("main", w, d) /\ \A u \in Threads \ {"main"} : Same(u)
    BY <1>1, <1>5, EffectFacts
  <2> QED  BY <1>1, <2>1, QuietFacts
<1>6. ASSUME NEW d \in Devices, NEW w \in {"attach", "opened", "cameraOpen"},
             NEW v \in {"select", "open", "start"}, NEW c \in Devs,
             Handles("main", w, d), queue' = Posted(Rest("main"), "async", Message(v, c))
      PROVE  /\ Takes("main", w, d) /\ Gets("async", v, c)
             /\ \A t \in Threads \ {"async"} : Quiet(t, e)
             /\ v # "select" => Quiet("async", e)
  <2>1. /\ Takes("main", w, d) /\ Gets("async", v, c)
        /\ \A u \in Threads \ {"main", "async"} : Same(u)
    BY <1>1, <1>6, EffectFacts
  <2>2. v \in Whats
    BY DEF Whats
  <2> QED  BY <1>1, <2>1, <2>2, QuietFacts, KindFacts
<1>7. ASSUME NEW d \in Devices, AttachNewDevice(d) PROVE Selected(e)'
  <2>1. Handles("main", "attach", d)
    BY <1>7 DEF AttachNewDevice
  <2>2. CASE clientDevice # NoDevice
    BY <1>4, <1>5, <1>7, <2>1, <2>2 DEF AttachNewDevice
  <2>3. CASE clientDevice = NoDevice
    <3>1. \A s \in Stages : ~Reached(s, e)
      BY <1>1, <2>3 DEF Selected
    <3>2. CASE queue' = Rest("main")
      <4>1. \A t \in Threads : Quiet(t, e)
        BY <1>5, <2>1, <3>2
      <4>2. \A s \in Stages : ~Reached(s, e)'
        BY <1>3, <3>1, <4>1 DEF Quiet, Stages, Others
      <4> QED  BY <1>3, <4>1, <4>2, Rests
    <3>3. CASE queue' = Posted(Rest("main"), "async", Message("select", d))
      <4>1. /\ clientDevice' = d /\ Gets("async", "select", d)
            /\ \A t \in Threads \ {"async"} : Quiet(t, e)
        BY <1>1, <1>6, <1>7, <2>1, <2>3, <3>3 DEF AttachNewDevice
      <4>2. \A s \in Stages \ {"async"} : ~Reached(s, e)'
        BY <1>3, <3>1, <4>1 DEF Quiet, Stages, Others
      <4>3. "select" \in Whats /\ ~Reached("async", e)
        BY <1>1, <3>1 DEF Whats, Stages
      <4>4. /\ Once(queue'["async"], Kinds("async"), e) /\ IsLast(queue'["async"], e)
            /\ d # e => ~Reached("async", e)'
        BY <1>1, <4>1, <4>3, QuietFacts
      <4>5. \A t \in Threads : Once(queue'[t], Kinds(t), e)
        BY <4>1, <4>4 DEF Quiet, Selected
      <4> QED  BY <4>1, <4>2, <4>4, <4>5 DEF Selected
    <3> QED  BY <1>7, <2>3, <3>2, <3>3 DEF AttachNewDevice, Call
  <2> QED  BY <2>2, <2>3
<1>8. ASSUME NEW d \in Devices, OpenOnDeviceOpen(d) PROVE Selected(e)'
  <2>1. /\ Handles("main", "opened", d) /\ clientDevice' = clientDevice
        /\ \/ queue' = Rest("main")
           \/ queue' = Posted(Rest("main"), "async", Message("open", NoDevice))
    BY <1>8 DEF OpenOnDeviceOpen, Call, clientVars
  <2> QED  BY <1>1, <1>4, <1>5, <1>6, <2>1
<1>9. ASSUME NEW d \in Devices, StartOnCameraOpen(d) PROVE Selected(e)'
  <2>1. /\ Handles("main", "cameraOpen", d) /\ clientDevice' = clientDevice
        /\ \/ queue' = Rest("main")
           \/ queue' = Posted(Rest("main"), "async", Message("start", NoDevice))
    BY <1>9 DEF StartOnCameraOpen, Call
  <2> QED  BY <1>1, <1>4, <1>5, <1>6, <2>1
<1>10. ASSUME NEW d \in Devices, OnCameraClose(d) PROVE Selected(e)'
  <2>1. Handles("main", "cameraClose", d) /\ clientDevice' = clientDevice /\ queue' = Rest("main")
    BY <1>10 DEF OnCameraClose
  <2> QED  BY <1>4, <1>5, <2>1
<1>11. ASSUME NEW d \in Devices, ForgetDevice(d) PROVE Selected(e)'
  <2>1. PICK w \in {"detach", "cancel"} : Handles("main", w, d)
    BY <1>11 DEF ForgetDevice
  <2>2. /\ queue' = Rest("main")
        /\ clientDevice' = IF clientDevice = d THEN NoDevice ELSE clientDevice
    BY <1>11 DEF ForgetDevice
  <2>3. Takes("main", w, d) /\ \A t \in Threads : Quiet(t, e)
    BY <1>5, <2>1, <2>2
  <2>4. CASE clientDevice # d
    BY <1>4, <2>2, <2>3, <2>4
  <2>5. CASE clientDevice = d /\ d # e
    <3>1. \A s \in Stages : ~Reached(s, e)'
      BY <1>3, <2>3, <2>5 DEF Selected, Quiet, Stages, Others
    <3> QED  BY <1>3, <2>3, <3>1, Rests
  <2>6. CASE d = e
    <3>1. Contains(queue["main"], Message(w, e))
      BY <1>1, <2>1, <2>6, RestFacts
    <3>2. w = "cancel"
      BY <2>1, <3>1 DEF Notices
    <3>3. w \in Kinds("main") /\ "main" \in Threads
      BY <1>1, <3>2, KindFacts
    <3>4. Reached("main", e) /\ ~Reached("main", e)'
      BY <1>1, <2>3, <2>6, <3>3, QuietFacts DEF Selected
    <3>5. \A s \in Stages : Reached(s, e) => s = "main"
      BY <3>3, <3>4 DEF Selected, Stages
    <3>6. \A s \in Stages : ~Reached(s, e)'
      BY <1>3, <2>3, <3>4, <3>5 DEF Quiet, Stages, Others
    <3> QED  BY <1>3, <2>3, <3>6, Rests
  <2> QED  BY <2>4, <2>5, <2>6
<1>12. ASSUME NEW d \in Devices, NEW w \in {"granted", "denied", "detached"}, ReceiveBroadcast(w, d)
       PROVE  Selected(e)'
  <2>1. /\ Handles("main", w, d) /\ clientDevice' = clientDevice
        /\ queue' = Posted(Rest("main"), "monitor", Message(w, d))
    BY <1>12 DEF ReceiveBroadcast, clientVars
  <2>2. /\ Takes("main", w, d) /\ Gets("monitor", w, d)
        /\ \A u \in Threads \ {"main", "monitor"} : Same(u)
    BY <1>1, <2>1, EffectFacts
  <2>3. w \in Whats
    BY DEF Whats
  <2>4. \A t \in Threads \ {"monitor"} : Quiet(t, e)
    BY <1>1, <2>2, QuietFacts
  <2>5. CASE d # e \/ w = "detached"
    <3>1. Quiet("monitor", e)
      BY <1>1, <2>2, <2>3, <2>5, QuietFacts, KindFacts
    <3> QED  BY <1>4, <2>1, <2>4, <3>1
  <2>6. CASE d = e /\ w # "detached"
    <3>1. Reached("main", e) /\ ~Reached("main", e)'
      BY <1>1, <2>2, <2>6, QuietFacts, KindFacts DEF Selected
    <3>2. ~Reached("monitor", e)
      BY <1>1, <3>1 DEF Selected, Stages
    <3>3. Once(queue'["monitor"], Kinds("monitor"), e) /\ Once(queue'["main"], Kinds("main"), e)
      BY <1>1, <2>2, <2>3, <2>4, <3>2, QuietFacts DEF Selected, Quiet
    <3>4. "main" \in Stages /\ "monitor" \in Stages \ {"async"}
      BY <1>1 DEF Stages
    <3> QED  BY <1>3, <2>1, <2>4, <3>1, <3>3, <3>4, Passes
  <2> QED  BY <2>5, <2>6
<1>13. CASE getCamera("main") \/ Awaited("main")
  <2>1. queue' = queue /\ clientDevice' = clientDevice
    BY <1>13 DEF getCamera, Awaited, getCameraFrame
  <2> QED  BY <1>1, <1>4, <2>1, EffectFacts, QuietFacts
<1> QED  BY <1>7, <1>8, <1>9, <1>10, <1>11, <1>12, <1>13 DEF Main

\* The user's tasks select nothing.
LEMMA UserSelected ==
  ASSUME Typed, Life, ~Over, User, NEW e \in Devices, Selected(e)
  PROVE  Selected(e)'
<1>1. queue \in Queues /\ quit = {} /\ "async" \in Threads /\ NoDevice \in Devs
  BY NotOver, MessageFacts DEF Typed, QueueTypes
<1>2. pc' = pc /\ mCameras' = mCameras /\ dialogs' = dialogs /\ clientDevice' = clientDevice
  BY <1>1, Alone DEF systemVars, registryVars, User, TakeUsbPicture, ClearCameraHelper, mainFrame
<1>3. \A s \in Others : Reached(s, e)' => Reached(s, e)
  BY <1>2, StageFacts DEF Others
<1>4. queue' = queue \/ \E v \in {"picture", "release"} : queue' = Posted(queue, "async", Message(v, NoDevice))
  BY DEF Call, User, TakeUsbPicture, ClearCameraHelper, mainFrame
<1>5. CASE queue' = queue
  BY <1>1, <1>2, <1>3, <1>5, EffectFacts, QuietFacts, Rests
<1>6. ASSUME NEW v \in {"picture", "release"}, queue' = Posted(queue, "async", Message(v, NoDevice))
      PROVE  Selected(e)'
  <2>1. Gets("async", v, NoDevice) /\ \A u \in Threads \ {"async"} : Same(u)
    BY <1>1, <1>6, EffectFacts
  <2>2. v \in Whats /\ v \notin Kinds("async")
    BY KindFacts DEF Whats
  <2>3. \A t \in Threads : Quiet(t, e)
    BY <1>1, <2>1, <2>2, QuietFacts
  <2> QED  BY <1>2, <1>3, <2>3, Rests
<1> QED  BY <1>4, <1>5, <1>6

\* New devices, in any order, are no selection.
LEMMA SeveralQuiet ==
  ASSUME NEW D \in SUBSET Devices, NEW q \in Seq(Msgs),
         NEW s \in SetToSeqs({Message("attach", d) : d \in D}), NEW K, "attach" \notin K, NEW e
  PROVE  /\ Carries(q \o s, K, e) => Carries(q, K, e)
         /\ Once(q, K, e) => Once(q \o s, K, e)
<1> DEFINE M == {Message("attach", d) : d \in D}
<1>1. IsFiniteSet(M)
  <2>1. IsFiniteSet(D)
    BY FS_Subset, ConnectionAssumption
  <2>2. [d \in D |-> Message("attach", d)] \in Surjection(D, M)
    BY DEF Surjection
  <2> QED  BY <2>1, <2>2, FS_Surjection DEF ExistsSurjection
<1>2. Cardinality(M) \in Nat /\ s \in [1..Cardinality(M) -> M]
  BY <1>1, FS_CardinalityType DEF SetToSeqs
<1>3. M \subseteq Msgs
  BY RecordFacts DEF Whats, Devs
<1>4. \A m \in M : m.what = "attach"
  BY DEF Message
<1> DEFINE n == Cardinality(M)
<1> HIDE DEF M
<1>5. s \in Seq(M) /\ Len(s) = n /\ \A i \in 1..n : s[i].what = "attach"
  BY <1>2, <1>4
<1>6. s \in Seq(Msgs)
  BY <1>3, <1>5, SeqMonotonic
<1>7. /\ Len(q) \in Nat /\ n \in Nat /\ Len(q \o s) = Len(q) + n
      /\ \A i \in 1..Len(q) + n : (q \o s)[i] = IF i <= Len(q) THEN q[i] ELSE s[i - Len(q)]
  BY <1>2, <1>5, <1>6, ConcatProperties, LenProperties
<1> DEFINE z == q \o s
<1> HIDE DEF z, n
<1>8. \A i \in 1..Len(z) : z[i].what \in K => i \in 1..Len(q) /\ z[i] = q[i]
  BY <1>5, <1>7 DEF z
<1> QED  BY <1>8 DEF z, Carries, Once

\* The monitor's steps: what a broadcast, or a waiting selectDevice, starts goes on to
\* the listener.
LEMMA MonitorSelected ==
  ASSUME Typed, Life, ~Over, Monitor, NEW e \in Devices, Selected(e)
  PROVE  Selected(e)'
<1>1. /\ queue \in Queues /\ quit = {} /\ mDestroyed # TRUE /\ PlaceTypes
      /\ Threads = {"main", "async", "listener", "monitor"} /\ Devices \subseteq Devs /\ NoDevice \in Devs
  BY NotOver, MessageFacts DEF Typed, QueueTypes
<1>2. pc'["async"] = pc["async"]
  BY <1>1, Alone DEF Moved
<1>3. mCameras' = mCameras /\ dialogs' = dialogs /\ clientDevice' = clientDevice
  BY DEF Monitor, CheckDevices, MonitorPosts, PermissionGranted, PermissionDenied, DeviceDetached,
         monitorFrame, systemVars, registryVars, clientVars
<1>4. \A s \in Others \ {"posting"} : Reached(s, e)' => Reached(s, e)
  BY <1>2, <1>3, StageFacts DEF Others
<1>5. ASSUME \A t \in Threads : Quiet(t, e), Reached("posting", e)' => Reached("posting", e)
      PROVE  Selected(e)'
  <2>1. \A s \in Others : Reached(s, e)' => Reached(s, e)
    BY <1>4, <1>5
  <2> QED  BY <1>3, <1>5, <2>1, Rests
<1>6. \A t \in Threads : Once(queue[t], Kinds(t), e)
  BY DEF Selected
<1>7. CASE CheckDevices
  <2> DEFINE news == {d \in Here : \/ d \notin mDetectedDeviceKeys
                                   \/ d \in permitted \ mHasPermissionDeviceKeys}
  <2>1. PICK s \in SetToSeqs({Message("attach", d) : d \in news}) :
          queue' = [queue EXCEPT !["listener"] = @ \o s]
    BY <1>7 DEF CheckDevices
  <2>2. news \in SUBSET Devices /\ pc' = pc
    BY <1>7 DEF CheckDevices, Here
  <2> HIDE DEF news
  <2>3. /\ queue["listener"] \in Seq(Msgs) /\ queue'["listener"] = queue["listener"] \o s
        /\ \A u \in Threads \ {"listener"} : Same(u)
    BY <1>1, <2>1 DEF Queues, Same
  <2>4. "attach" \notin Kinds("listener")
    BY KindFacts
  <2>5. /\ Carries(queue'["listener"], Kinds("listener"), e) =>
             Carries(queue["listener"], Kinds("listener"), e)
        /\ Once(queue["listener"], Kinds("listener"), e) =>
             Once(queue'["listener"], Kinds("listener"), e)
    BY <2>2, <2>3, <2>4, SeveralQuiet
  <2>6. Quiet("listener", e)
    BY <2>5 DEF Quiet, Reached
  <2>7. \A t \in Threads : Quiet(t, e)
    BY <1>1, <2>3, <2>6, QuietFacts
  <2> QED  BY <1>5, <2>2, <2>7, StageFacts
<1>8. \A w, d : Takes("monitor", w, d) => ~Reached("posting", e)
  BY RecordFacts, StageFacts DEF Takes
<1>9. ASSUME NEW d \in Devices, PermissionGranted(d) PROVE Selected(e)'
  <2>1. /\ Handles("monitor", "granted", d) /\ queue' = Rest("monitor")
        /\ Goto("monitor", "post", "opened", d) \/ Goto("monitor", "post", "failed", d)
    BY <1>9 DEF PermissionGranted, processOpenDevice
  <2>2. Takes("monitor", "granted", d) /\ \A u \in Threads \ {"monitor"} : Same(u)
    BY <1>1, <2>1, EffectFacts
  <2>3. \A t \in Threads : Quiet(t, e)
    BY <1>1, <2>2, QuietFacts
  <2>4. pc'["monitor"].dev = d
    BY <1>1, <2>1, MoveFacts
  <2>5. CASE d # e
    BY <1>5, <2>3, <2>4, <2>5, StageFacts
  <2>6. CASE d = e
    <3>1. Reached("monitor", e) /\ ~Reached("monitor", e)'
      BY <1>1, <1>6, <2>2, <2>6, QuietFacts, KindFacts
    <3>2. /\ "monitor" \in Stages /\ "posting" \in Stages \ {"async"} /\ "posting" \notin Threads
          /\ Once(queue'["monitor"], Kinds("monitor"), e)
      BY <1>1, <1>6, <2>3 DEF Stages, Quiet
    <3> QED  BY <1>3, <1>4, <2>3, <3>1, <3>2, Passes
  <2> QED  BY <2>5, <2>6
<1>10. ASSUME NEW d \in Devices, PermissionDenied(d) PROVE Selected(e)'
  <2>1. /\ Handles("monitor", "denied", d) /\ pc' = pc
        /\ queue' = Posted(Rest("monitor"), "listener", Message("cancel", d))
    BY <1>10 DEF PermissionDenied, processCancel
  <2>2. /\ Takes("monitor", "denied", d) /\ Gets("listener", "cancel", d)
        /\ \A u \in Threads \ {"monitor", "listener"} : Same(u)
    BY <1>1, <2>1, EffectFacts
  <2>3. "cancel" \in Whats
    BY DEF Whats
  <2>4. \A t \in Threads \ {"listener"} : Quiet(t, e)
    BY <1>1, <2>2, QuietFacts
  <2>5. Reached("posting", e)' => Reached("posting", e)
    BY <2>1, StageFacts
  <2>6. CASE d # e
    <3>1. Quiet("listener", e)
      BY <1>1, <2>2, <2>3, <2>6, QuietFacts
    <3> QED  BY <1>5, <2>4, <2>5, <3>1
  <2>7. CASE d = e
    <3>1. Reached("monitor", e) /\ ~Reached("monitor", e)'
      BY <1>1, <1>6, <2>2, <2>7, QuietFacts, KindFacts
    <3>2. "monitor" \in Stages /\ "listener" \in Stages \ {"async"}
      BY <1>1 DEF Stages
    <3>3. ~Reached("listener", e)
      BY <3>1, <3>2 DEF Selected
    <3>4. /\ Once(queue'["listener"], Kinds("listener"), e)
          /\ Once(queue'["monitor"], Kinds("monitor"), e)
      BY <1>1, <1>6, <2>2, <2>3, <2>4, <3>3, QuietFacts DEF Quiet
    <3> QED  BY <1>3, <1>4, <2>4, <2>5, <3>1, <3>2, <3>4, Passes
  <2> QED  BY <2>6, <2>7
<1>11. ASSUME NEW d \in Devices, DeviceDetached(d) PROVE Selected(e)'
  <2>1. /\ Handles("monitor", "detached", d) /\ Goto("monitor", "post", "detach", d)
        /\ \/ queue' = Posted(Rest("monitor"), "listener", Message("closed", d))
           \/ queue' = Rest("monitor")
    BY <1>11 DEF DeviceDetached
  <2>2. /\ Takes("monitor", "detached", d) /\ \A u \in Threads \ {"monitor", "listener"} : Same(u)
        /\ Same("listener") \/ Gets("listener", "closed", d)
    BY <1>1, <2>1, EffectFacts
  <2>3. "closed" \in Whats /\ "closed" \notin Kinds("listener")
    BY KindFacts DEF Whats
  <2>4. \A t \in Threads : Quiet(t, e)
    BY <1>1, <2>2, <2>3, QuietFacts
  <2>5. ~Reached("posting", e)'
    BY <1>1, <2>1, MoveFacts, StageFacts
  <2> QED  BY <1>5, <2>4, <2>5
<1>12. CASE MonitorPosts
  <2>1. pc["monitor"].task \in {"opened", "failed", "detach"} /\ pc["monitor"].dev \in Devices
    BY <1>1, <1>12 DEF MonitorPosts, PlaceTypes, MonitorPlaces
  <2>2. PICK w \in {"opened", "failed", "detach"}, d \in Devices :
          w = pc["monitor"].task /\ d = pc["monitor"].dev
    BY <2>1
  <2>3. queue' = Posted(queue, "listener", Message(w, d)) /\ pc'["monitor"].at = "idle"
    BY <1>1, <1>12, <2>2, MoveFacts DEF MonitorPosts
  <2>4. Gets("listener", w, d) /\ \A u \in Threads \ {"listener"} : Same(u)
    BY <1>1, <2>3, EffectFacts
  <2>5. w \in Whats
    BY DEF Whats
  <2>6. \A t \in Threads \ {"listener"} : Quiet(t, e)
    BY <1>1, <2>4, QuietFacts
  <2>7. ~Reached("posting", e)'
    BY <2>3, StageFacts
  <2>8. CASE d # e \/ w = "detach"
    <3>1. Quiet("listener", e)
      BY <1>1, <2>4, <2>5, <2>8, QuietFacts, KindFacts
    <3> QED  BY <1>5, <2>6, <2>7, <3>1
  <2>9. CASE d = e /\ w # "detach"
    <3>1. Reached("posting", e)
      BY <1>12, <2>2, <2>9, StageFacts DEF MonitorPosts
    <3>2. "posting" \in Stages /\ "posting" \notin Threads /\ "listener" \in Stages \ {"async"}
      BY <1>1 DEF Stages
    <3>3. ~Reached("listener", e)
      BY <3>1, <3>2 DEF Selected
    <3>4. Once(queue'["listener"], Kinds("listener"), e)
      BY <1>1, <2>4, <2>5, <3>3, QuietFacts
    <3> QED  BY <1>3, <1>4, <2>6, <2>7, <3>1, <3>2, <3>4, Passes
  <2> QED  BY <2>8, <2>9
<1> QED  BY <1>7, <1>9, <1>10, <1>11, <1>12 DEF Monitor

\* The release of a camera is told, to the listener and to the client.
LEMMA ReleaseEffects ==
  ASSUME queue \in Queues, quit = {}, NEW d, NEW o, releaseCameraInternal(d, o, queue)
  PROVE  /\ Same("async") /\ Same("monitor")
         /\ Same("listener") \/ Gets("listener", "closed", d)
         /\ Same("main") \/ Gets("main", "cameraClose", d)
<1>1. PICK a \in BOOLEAN, b \in BOOLEAN :
        LET q1 == IF a THEN Posted(queue, "listener", Message("closed", d)) ELSE queue
        IN  queue' = IF b THEN ToClient(q1, Message("cameraClose", d)) ELSE q1
  <2> DEFINE shut == IF o THEN {d} \cap mUVCCamera ELSE {}
             a == shut \cap connected # {}
             b == shut \cap told # {}
             q1 == IF a THEN Posted(queue, "listener", Message("closed", d)) ELSE queue
  <2>1. queue' = IF b THEN ToClient(q1, Message("cameraClose", d)) ELSE q1
    BY DEF releaseCameraInternal
  <2>2. a \in BOOLEAN /\ b \in BOOLEAN
    OBVIOUS
  <2> HIDE DEF shut
  <2> QED  BY <2>1, <2>2
<1> DEFINE q1 == IF a THEN Posted(queue, "listener", Message("closed", d)) ELSE queue
<1>2. "listener" \in Threads /\ "main" \in Threads /\ "async" \in Threads /\ "monitor" \in Threads
  BY DEF Threads
<1>3. /\ q1 = queue \/ q1 = [queue EXCEPT !["listener"] = Append(@, Message("closed", d))]
      /\ queue' = q1 \/ queue' = [q1 EXCEPT !["main"] = Append(@, Message("cameraClose", d))]
  BY <1>1 DEF Posted, ToClient
<1> HIDE DEF q1
<1>4. \/ q1 = queue
      \/ /\ q1["listener"] = Append(queue["listener"], Message("closed", d))
         /\ DOMAIN q1 = Threads /\ \A u \in Threads \ {"listener"} : q1[u] = queue[u]
  BY <1>2, <1>3 DEF Queues
<1>5. DOMAIN q1 = Threads
  BY <1>4 DEF Queues
<1>6. \/ queue' = q1
      \/ /\ queue'["main"] = Append(q1["main"], Message("cameraClose", d))
         /\ \A u \in Threads \ {"main"} : queue'[u] = q1[u]
  BY <1>2, <1>3, <1>5
<1> QED  BY <1>2, <1>4, <1>6 DEF Same, Gets

\* The listener's steps: an opened device gets its camera, a failure ends the selection,
\* a cancellation goes on to the client.
LEMMA ListenerSelected ==
  ASSUME Typed, Life, ~Over, Listener, NEW e \in Devices, Selected(e)
  PROVE  Selected(e)'
<1>1. /\ queue \in Queues /\ quit = {} /\ PlaceTypes
      /\ Threads = {"main", "async", "listener", "monitor"} /\ Devices \subseteq Devs /\ NoDevice \in Devs
  BY NotOver, MessageFacts DEF Typed, QueueTypes
<1>2. pc'["async"] = pc["async"] /\ pc'["monitor"] = pc["monitor"]
  BY <1>1, Alone DEF Moved
<1>3. dialogs' = dialogs /\ clientDevice' = clientDevice
  BY DEF Listener, OnAttach, AddCamera, RegisterCallback, OnDetach, RemoveCamera, FinishRemove,
         OnCancel, Notify, listenerFrame, systemVars, clientVars
<1>4. \A s \in Others \ {"added"} : Reached(s, e)' => Reached(s, e)
  BY <1>2, <1>3, StageFacts DEF Others
<1>5. ASSUME \A t \in Threads : Quiet(t, e), e \in mCameras' => e \in mCameras PROVE Selected(e)'
  <2>1. \A s \in Others : Reached(s, e)' => Reached(s, e)
    BY <1>4, <1>5, StageFacts
  <2> QED  BY <1>3, <1>5, <2>1, Rests
<1>6. \A t \in Threads : Once(queue[t], Kinds(t), e)
  BY DEF Selected
<1>7. ASSUME NEW d \in Devices, NEW w \in {"attach", "detach"},
             Handles("listener", w, d), queue' = ToClient(Rest("listener"), Message(w, d)),
             mCameras' = mCameras
      PROVE  Selected(e)'
  <2>1. /\ Takes("listener", w, d) /\ Gets("main", w, d)
        /\ \A u \in Threads \ {"listener", "main"} : Same(u)
    BY <1>1, <1>7, EffectFacts
  <2>2. w \in Whats /\ w \notin Kinds("main")
    BY KindFacts DEF Whats
  <2>3. \A t \in Threads : Quiet(t, e)
    BY <1>1, <2>1, <2>2, QuietFacts
  <2> QED  BY <1>5, <1>7, <2>3
<1>8. ASSUME NEW d \in Devices, OnAttach(d) \/ OnDetach(d) PROVE Selected(e)'
  BY <1>7, <1>8 DEF OnAttach, OnDetach, registryVars
<1>9. ASSUME NEW d \in Devices, AddCamera(d) PROVE Selected(e)'
  <2>1. /\ Handles("listener", "opened", d) /\ queue' = Rest("listener")
        /\ mCameras' = mCameras \cup {d}
    BY <1>9 DEF AddCamera
  <2>2. Takes("listener", "opened", d) /\ \A u \in Threads \ {"listener"} : Same(u)
    BY <1>1, <2>1, EffectFacts
  <2>3. \A t \in Threads : Quiet(t, e)
    BY <1>1, <2>2, QuietFacts
  <2>4. CASE d # e
    BY <1>5, <2>1, <2>3, <2>4
  <2>5. CASE d = e
    <3>1. Reached("listener", e) /\ ~Reached("listener", e)'
      BY <1>1, <1>6, <2>2, <2>5, QuietFacts, KindFacts
    <3>2. /\ "listener" \in Stages /\ "added" \in Stages \ {"async"} /\ "added" \notin Threads
          /\ Once(queue'["listener"], Kinds("listener"), e)
      BY <1>1, <1>6, <2>3 DEF Stages, Quiet
    <3> QED  BY <1>3, <1>4, <2>3, <3>1, <3>2, Passes
  <2> QED  BY <2>4, <2>5
<1>10. CASE RegisterCallback
  <2>1. /\ queue' = ToClient(queue, Message("opened", pc["listener"].dev)) /\ mCameras' = mCameras
        /\ pc["listener"].dev \in Devs
    BY <1>1, <1>10, MoveFacts DEF RegisterCallback, registryVars
  <2>2. Gets("main", "opened", pc["listener"].dev) /\ \A u \in Threads \ {"main"} : Same(u)
    BY <1>1, <2>1, EffectFacts
  <2>3. "opened" \in Whats /\ "opened" \notin Kinds("main")
    BY KindFacts DEF Whats
  <2>4. \A t \in Threads : Quiet(t, e)
    BY <1>1, <2>1, <2>2, <2>3, QuietFacts
  <2> QED  BY <1>5, <2>1, <2>4
<1>11. ASSUME NEW d \in Devices, RemoveCamera(d) \/ Notify(d) PROVE Selected(e)'
  <2>1. /\ mCameras' = mCameras
        /\ \/ queue' = queue
           \/ \E w \in {"closed", "failed"} : Handles("listener", w, d) /\ queue' = Rest("listener")
    BY <1>11 DEF RemoveCamera, Notify, registryVars
  <2>2. CASE queue' = queue
    BY <1>1, <1>5, <2>1, <2>2, EffectFacts, QuietFacts
  <2>3. ASSUME NEW w \in {"closed", "failed"}, Handles("listener", w, d), queue' = Rest("listener")
        PROVE  Selected(e)'
    <3>1. Takes("listener", w, d) /\ \A u \in Threads \ {"listener"} : Same(u)
      BY <1>1, <2>3, EffectFacts
    <3>2. \A t \in Threads : Quiet(t, e)
      BY <1>1, <3>1, QuietFacts
    <3> QED  BY <1>5, <2>1, <3>2
  <2> QED  BY <2>1, <2>2, <2>3
<1>12. CASE FinishRemove
  <2> DEFINE d == pc["listener"].dev
  <2>1. /\ mCameras' = mCameras \ {d} /\ d \in Devs
        /\ queue' = queue \/ \E o : releaseCameraInternal(d, o, queue)
    BY <1>1, <1>12, MoveFacts DEF FinishRemove, NothingReleased
  <2> HIDE DEF d
  <2>2. /\ Same("async") /\ Same("monitor")
        /\ Same("listener") \/ Gets("listener", "closed", d)
        /\ Same("main") \/ Gets("main", "cameraClose", d)
    <3>1. CASE queue' = queue
      BY <3>1 DEF Same
    <3> QED  BY <1>1, <2>1, <3>1, ReleaseEffects
  <2>3. /\ "closed" \in Whats /\ "closed" \notin Kinds("listener")
        /\ "cameraClose" \in Whats /\ "cameraClose" \notin Kinds("main")
    BY KindFacts DEF Whats
  <2>4. \A t \in Threads : Quiet(t, e)
    BY <1>1, <2>1, <2>2, <2>3, QuietFacts
  <2> QED  BY <1>5, <2>1, <2>4
<1>13. ASSUME NEW d \in Devices, OnCancel(d) PROVE Selected(e)'
  <2>1. /\ Handles("listener", "cancel", d) /\ mCameras' = mCameras
        /\ queue' = ToClient(Rest("listener"), Message("cancel", d))
    BY <1>13 DEF OnCancel, registryVars
  <2>2. /\ Takes("listener", "cancel", d) /\ Gets("main", "cancel", d)
        /\ \A u \in Threads \ {"listener", "main"} : Same(u)
    BY <1>1, <2>1, EffectFacts
  <2>3. "cancel" \in Whats
    BY DEF Whats
  <2>4. \A t \in Threads \ {"main"} : Quiet(t, e)
    BY <1>1, <2>2, QuietFacts
  <2>5. CASE d # e
    <3>1. Quiet("main", e)
      BY <1>1, <2>2, <2>3, <2>5, QuietFacts
    <3> QED  BY <1>5, <2>1, <2>4, <3>1
  <2>6. CASE d = e
    <3>1. Reached("listener", e) /\ ~Reached("listener", e)'
      BY <1>1, <1>6, <2>2, <2>6, QuietFacts, KindFacts
    <3>2. "listener" \in Stages /\ "main" \in Stages \ {"async"}
      BY <1>1 DEF Stages
    <3>3. ~Reached("main", e)
      BY <3>1, <3>2 DEF Selected
    <3>4. /\ Once(queue'["main"], Kinds("main"), e)
          /\ Once(queue'["listener"], Kinds("listener"), e)
      BY <1>1, <1>6, <2>2, <2>3, <2>4, <3>3, QuietFacts DEF Quiet
    <3>5. Reached("added", e)' => Reached("added", e)
      BY <2>1, StageFacts
    <3> QED  BY <1>3, <1>4, <2>4, <3>1, <3>2, <3>4, <3>5, Passes
  <2> QED  BY <2>5, <2>6
<1> QED  BY <1>8, <1>9, <1>10, <1>11, <1>12, <1>13 DEF Listener

\* The helper's steps: the task of selection, then the question, the failure or the opening.
LEMMA AsyncSelected ==
  ASSUME Typed, Life, ~Over, ~Over', Async, NEW e \in Devices, Selected(e)
  PROVE  Selected(e)'
<1>1. /\ queue \in Queues /\ quit = {} /\ PlaceTypes /\ helperDevice \in Devs
      /\ Threads = {"main", "async", "listener", "monitor"} /\ Devices \subseteq Devs /\ NoDevice \in Devs
  BY NotOver, MessageFacts DEF Typed, QueueTypes, ClientTypes
<1>2. pc'["monitor"] = pc["monitor"]
  BY <1>1, Alone DEF Moved
<1>3. ~ReleaseTask /\ ~DestroyMonitor /\ ~QuitSafely
  BY <1>1, MoveFacts DEF Over, ReleaseTask, DestroyMonitor, QuitSafely
<1>4. mCameras' = mCameras /\ clientDevice' = clientDevice
  BY <1>3 DEF Async, SelectTask, OpenSelected, PostSelected, AskForSelected, CameraTask, getCamera,
              Awaited, ResetUVCCamera, OpenUVCCamera, ProcessOnCameraOpen, asyncFrame, openFrame,
              getCameraFrame, registryVars, clientVars
<1>5. \A s \in Others \ {"selecting", "asking"} : Reached(s, e)' => Reached(s, e)
  BY <1>2, <1>4, StageFacts DEF Others
<1>6. ~AskForSelected => dialogs' = dialogs
  BY <1>3 DEF Async, SelectTask, OpenSelected, PostSelected, CameraTask, getCamera,
              Awaited, ResetUVCCamera, OpenUVCCamera, ProcessOnCameraOpen, asyncFrame, openFrame,
              getCameraFrame, systemVars
<1>7. ASSUME \A t \in Threads : Quiet(t, e), Reached("selecting", e)' => Reached("selecting", e),
             e \in dialogs' => e \in dialogs
      PROVE  Selected(e)'
  <2>1. \A s \in Others : Reached(s, e)' => Reached(s, e)
    BY <1>5, <1>7, StageFacts
  <2> QED  BY <1>4, <1>7, <2>1, Rests
<1>8. \A t \in Threads : Once(queue[t], Kinds(t), e)
  BY DEF Selected
<1>9. ASSUME NEW d \in Devices, SelectTask(d) PROVE Selected(e)'
  <2>1. /\ Handles("async", "select", d) /\ queue' = Rest("async") /\ ~AskForSelected
        /\ pc' = pc \/ Goto("async", "select", "select", d)
    BY <1>9, RecordFacts DEF SelectTask, Handles, AskForSelected
  <2>2. Takes("async", "select", d) /\ \A u \in Threads \ {"async"} : Same(u)
    BY <1>1, <2>1, EffectFacts
  <2>3. \A t \in Threads : Quiet(t, e)
    BY <1>1, <2>2, QuietFacts
  <2>4. ~Reached("selecting", e)
    BY <2>2, RecordFacts, StageFacts DEF Takes
  <2>5. CASE d # e \/ pc' = pc
    <3>1. ~Reached("selecting", e)'
      BY <1>1, <2>1, <2>4, <2>5, MoveFacts, StageFacts
    <3> QED  BY <1>6, <1>7, <2>1, <2>3, <3>1
  <2>6. CASE d = e
    <3>1. Reached("async", e) /\ ~Reached("async", e)'
      BY <1>1, <1>8, <2>2, <2>6, QuietFacts, KindFacts
    <3>2. /\ "async" \in Stages /\ "selecting" \in Stages \ {"async"} /\ "selecting" \notin Threads
          /\ Once(queue'["async"], Kinds("async"), e) /\ IsLast(queue'["async"], e)
      BY <1>1, <1>8, <2>3 DEF Stages, Quiet, Selected
    <3>3. ~Selects(queue'["async"])
      BY <1>1, <2>2, <2>6, QuietFacts DEF Selected
    <3>4. \A x \in Others \ {"selecting"} : Reached(x, e)' => Reached(x, e)
      BY <1>5, <1>6, <2>1, StageFacts
    <3> QED  BY <1>4, <2>3, <3>1, <3>2, <3>3, <3>4, Passes
  <2> QED  BY <2>5, <2>6
<1>10. CASE OpenSelected
  <2>1. queue' = queue /\ ~AskForSelected /\ pc["async"].at = "select"
    BY <1>10 DEF OpenSelected, AskForSelected
  <2>2. pc'["async"].dev = pc["async"].dev
    BY <1>1, <1>10, MoveFacts DEF OpenSelected, processOpenDevice
  <2>3. Reached("selecting", e)' => Reached("selecting", e)
    BY <2>1, <2>2, StageFacts
  <2> QED  BY <1>1, <1>6, <1>7, <2>1, <2>3, EffectFacts, QuietFacts
\* selectDevice ends its section by telling the listener.
<1>11. ASSUME NEW w \in {"opened", "failed", "cancel"}, pc["async"].at \in {"select", "post"},
              queue' = Posted(queue, "listener", Message(w, pc["async"].dev)),
              pc'["async"].at \in {"idle", "wait"}, dialogs' = dialogs
       PROVE  Selected(e)'
  <2> DEFINE d == pc["async"].dev
  <2>1. Gets("listener", w, d) /\ \A u \in Threads \ {"listener"} : Same(u)
    BY <1>1, <1>11, EffectFacts
  <2>2. w \in Whats /\ d \in Devs
    BY <1>1, MoveFacts DEF Whats
  <2>3. \A t \in Threads \ {"listener"} : Quiet(t, e)
    BY <1>1, <2>1, QuietFacts
  <2>4. ~Reached("selecting", e)'
    BY <1>11, StageFacts
  <2>5. CASE d # e
    <3>1. Quiet("listener", e)
      BY <1>1, <2>1, <2>2, <2>5, QuietFacts
    <3> QED  BY <1>7, <1>11, <2>3, <2>4, <3>1
  <2>6. CASE d = e
    <3>1. Reached("selecting", e)
      BY <1>11, <2>6, StageFacts
    <3>2. "selecting" \in Stages /\ "selecting" \notin Threads /\ "listener" \in Stages \ {"async"}
      BY <1>1 DEF Stages
    <3>3. ~Reached("listener", e)
      BY <3>1, <3>2 DEF Selected
    <3>4. Once(queue'["listener"], Kinds("listener"), e)
      BY <1>1, <2>1, <2>2, <3>3, QuietFacts
    <3>5. \A x \in Others \ {"listener"} : Reached(x, e)' => Reached(x, e)
      BY <1>5, <1>11, <2>4, StageFacts
    <3> QED  BY <1>4, <2>3, <2>4, <3>1, <3>2, <3>4, <3>5, Passes
  <2> QED  BY <2>5, <2>6
<1>12. CASE PostSelected
  <2>1. pc["async"].at = "post" /\ pc["async"].task \in {"opened", "failed"} /\ pc["async"].dev \in Devices
    BY <1>1, <1>12 DEF PostSelected, PlaceTypes, AsyncPlaces
  <2>2. /\ queue' = Posted(queue, "listener", Message(pc["async"].task, pc["async"].dev))
        /\ Return("async") \/ Goto("async", "wait", "select", pc["async"].dev)
        /\ ~AskForSelected
    BY <1>12, <2>1 DEF PostSelected, AwaitSelected, AskForSelected
  <2>3. pc'["async"].at \in {"idle", "wait"}
    BY <1>1, <2>1, <2>2, MoveFacts
  <2> QED  BY <1>6, <1>11, <2>1, <2>2, <2>3
<1>13. CASE AskForSelected
  <2>1. pc["async"].at = "select" /\ pc["async"].dev \in Devices
    BY <1>1, <1>13 DEF AskForSelected, PlaceTypes, AsyncPlaces
  <2>2. Return("async") \/ Goto("async", "wait", "select", pc["async"].dev)
    BY <1>13 DEF AskForSelected, AwaitSelected
  <2>3. pc'["async"].at \in {"idle", "wait"}
    BY <1>1, <2>1, <2>2, MoveFacts
  <2>4. CASE queue' = Posted(queue, "listener", Message("cancel", pc["async"].dev)) /\ dialogs' = dialogs
    BY <1>11, <2>1, <2>3, <2>4
  <2>5. CASE dialogs' = dialogs \cup {pc["async"].dev} /\ queue' = queue
    <3>1. \A t \in Threads : Quiet(t, e)
      BY <1>1, <2>5, EffectFacts, QuietFacts
    <3>2. ~Reached("selecting", e)'
      BY <2>3, StageFacts
    <3>3. CASE pc["async"].dev # e
      BY <1>7, <2>5, <3>1, <3>2, <3>3
    <3>4. CASE pc["async"].dev = e
      <4>1. Reached("selecting", e)
        BY <2>1, <3>4, StageFacts
      <4>2. /\ "selecting" \in Stages /\ "asking" \in Stages \ {"async"}
            /\ "selecting" \notin Threads /\ "asking" \notin Threads
        BY <1>1 DEF Stages
      <4>3. \A x \in Others \ {"asking"} : Reached(x, e)' => Reached(x, e)
        BY <1>5, <3>2
      <4> QED  BY <1>4, <3>1, <3>2, <4>1, <4>2, <4>3, Passes
    <3> QED  BY <3>3, <3>4
  <2> QED  BY <1>13, <2>4, <2>5 DEF AskForSelected, processCancel
<1>14. ASSUME NEW task \in {"open", "start", "picture"}, CameraTask(task) PROVE Selected(e)'
  <2>1. /\ Handles("async", task, NoDevice) /\ queue' = Rest("async") /\ ~AskForSelected
        /\ pc' = pc \/ Goto("async", "get", task, helperDevice)
    BY <1>14, RecordFacts DEF CameraTask, Handles, AskForSelected
  <2>2. Takes("async", task, NoDevice) /\ \A u \in Threads \ {"async"} : Same(u)
    BY <1>1, <2>1, EffectFacts
  <2>3. \A t \in Threads : Quiet(t, e)
    BY <1>1, <2>2, QuietFacts
  <2>4. Reached("selecting", e)' => Reached("selecting", e)
    BY <1>1, <2>1, MoveFacts, StageFacts
  <2> QED  BY <1>6, <1>7, <2>1, <2>3, <2>4
<1>15. CASE getCamera("async") \/ Awaited("async") \/ ResetUVCCamera \/ OpenUVCCamera \/ ProcessOnCameraOpen
  <2>1. /\ pc["async"].at \in {"get", "wait", "reset", "connect", "tell"} /\ ~AskForSelected
        /\ queue' = queue \/ queue' = ToClient(queue, Message("cameraOpen", pc["async"].dev))
        /\ \/ Return("async") \/ Goto("async", "wait", pc["async"].task, pc["async"].dev)
           \/ Goto("async", "reset", pc["async"].task, pc["async"].dev)
           \/ Goto("async", "tell", "open", pc["async"].dev)
           \/ Goto("async", "connect", "open", pc["async"].dev)
    BY <1>15 DEF getCamera, Awaited, Continue, getCameraFrame, ResetUVCCamera, OpenUVCCamera,
                 ProcessOnCameraOpen, AskForSelected
  <2>2. pc["async"].dev \in Devs /\ pc["async"].task \in Tasks
    BY <1>1, MoveFacts
  <2>3. pc'["async"].at \in {"idle", "wait", "reset", "tell", "connect"}
    BY <1>1, <2>1, <2>2, MoveFacts
  <2>4. "cameraOpen" \in Whats /\ "cameraOpen" \notin Kinds("main")
    BY KindFacts DEF Whats
  <2>5. /\ \A u \in Threads \ {"main"} : Same(u)
        /\ Same("main") \/ Gets("main", "cameraOpen", pc["async"].dev)
    BY <1>1, <2>1, EffectFacts
  <2>6. \A t \in Threads : Quiet(t, e)
    BY <1>1, <2>2, <2>4, <2>5, QuietFacts
  <2>7. ~Reached("selecting", e)'
    BY <2>3, StageFacts
  <2> QED  BY <1>6, <1>7, <2>1, <2>6, <2>7
<1> QED  BY <1>3, <1>9, <1>10, <1>12, <1>13, <1>14, <1>15 DEF Async

\* Only openUVCCamera opens, and only a device that is there.
LEMMA OpensOnly ==
  ASSUME Typed, Known, Next
  PROVE  \/ connected' \subseteq connected
         \/ /\ OpenUVCCamera /\ connected' = connected \cup {pc["async"].dev}
            /\ plugged[pc["async"].dev] # "gone"
<1>1. CASE System \/ User \/ Main \/ Monitor
  BY <1>1 DEF cameraVars, System, Plug, GrantBySystem, Unplug, Answer, User,
              TakeUsbPicture, ClearCameraHelper, mainFrame, Main, AttachNewDevice,
              OpenOnDeviceOpen, StartOnCameraOpen, OnCameraClose, ForgetDevice, ReceiveBroadcast,
              getCamera, Awaited, getCameraFrame, Monitor, CheckDevices, MonitorPosts,
              PermissionGranted, PermissionDenied, DeviceDetached, monitorFrame
<1>2. CASE Listener
  BY <1>2, RemovalCloses DEF cameraVars, Listener, OnAttach, AddCamera, RegisterCallback, OnDetach,
                             RemoveCamera, OnCancel, Notify
<1>3. CASE Async
  <2>1. CASE OpenUVCCamera
    BY <2>1 DEF OpenUVCCamera, MayOpen, Here
  <2>2. CASE ~OpenUVCCamera
    BY <1>3, <2>2, ReleaseCloses
       DEF cameraVars, Async, SelectTask, OpenSelected, PostSelected, AskForSelected, CameraTask,
           getCamera, Awaited, getCameraFrame, ResetUVCCamera, ProcessOnCameraOpen, DestroyMonitor,
           QuitSafely, openFrame
  <2> QED  BY <2>1, <2>2
<1> QED  BY <1>1, <1>2, <1>3 DEF Next

\* Once begun, a removal goes on until the camera is closed.
LEMMA RemovingStep ==
  ASSUME Typed, Known, Next, NEW e, Removing(e), e \in connected'
  PROVE  Removing(e)'
<1>1. PlaceTypes /\ pc["listener"].at \in {"remove", "release"} /\ pc["listener"].dev = e
  BY DEF Typed, Removing
<1>2. CASE System \/ User \/ Main \/ Monitor \/ Async
  <2>1. pc'["listener"] = pc["listener"]
    BY <1>2, Alone, MessageFacts DEF Moved
  <2> QED  BY <2>1 DEF Removing
<1>3. CASE Listener
  <2>1. ~FinishRemove
    BY <1>1, RemovalCloses
  <2>2. \A t, w, d : Handles("listener", w, d) => FALSE
    BY <1>1, RecordFacts DEF Handles
  <2>3. PICK d \in Devices : RemoveCamera(d)
    BY <1>1, <1>3, <2>1, <2>2, RecordFacts DEF Listener, RegisterCallback, OnAttach, AddCamera,
                                               OnDetach, OnCancel, Notify
  <2>4. d = e
    BY <1>1, <2>2, <2>3, RecordFacts DEF RemoveCamera
  <2>5. Goto("listener", "release", "close", d) \/ Goto("listener", "release", "drop", d)
    BY <2>3 DEF RemoveCamera
  <2>6. pc'["listener"].at = "release" /\ pc'["listener"].dev = d
    BY <1>1, <2>5, MoveFacts
  <2> QED  BY <2>4, <2>6 DEF Removing
<1> QED  BY <1>2, <1>3 DEF Next

\* What is no longer live stays so.
LEMMA LiveStep ==
  ASSUME Typed, Known, Next, NEW e \in Devices, Live(e)'
  PROVE  Live(e)
<1>1. plugged[e] = "gone" => plugged'[e] = "gone"
  BY GoneStep
<1>2. CASE plugged'[e] # "gone"
  BY <1>1, <1>2 DEF Live
<1>3. CASE e \in connected' /\ ~Removing(e)'
  <2>1. ~Removing(e)
    BY <1>3, RemovingStep
  <2> QED  BY <1>3, <2>1, OpensOnly DEF Live
<1> QED  BY <1>2, <1>3 DEF Live

\* The selection of every live device goes on as it should.
LEMMA SelectionStep == Typed /\ Life /\ Known /\ Notices /\ Selection /\ Next => Selection'
<1> SUFFICES ASSUME Typed, Life, Known, Notices, Selection, Next, ~Over', NEW e \in Devices, Live(e)'
    PROVE  Selected(e)'
  BY DEF Selection
<1>1. ~Over /\ Live(e)
  BY LifeStep, LiveStep
<1>2. Selected(e)
  BY <1>1 DEF Selection
<1> QED  BY <1>1, <1>2, SystemSelected, UserSelected, MainSelected, AsyncSelected,
            ListenerSelected, MonitorSelected DEF Next

\* The client hears of a detachment when the removal is under way.
LEMMA NoticesStep == Typed /\ Life /\ Leaves /\ Known /\ Notices /\ Next => Notices'
<1> SUFFICES ASSUME Typed, Life, Leaves, Known, Notices, Next, ~Over', NEW e \in Devices,
                    Contains(queue'["main"], Message("detach", e))
    PROVE  ~Live(e)'
  BY DEF Notices
<1>1. ~Over
  BY LifeStep
<1>2. CASE Contains(queue["main"], Message("detach", e))
  BY <1>1, <1>2, LiveStep DEF Notices
<1>3. CASE ~Contains(queue["main"], Message("detach", e))
  <2>1. /\ queue \in Queues /\ quit = {} /\ mDestroyed # TRUE /\ PlaceTypes
        /\ Threads = {"main", "async", "listener", "monitor"} /\ Devices \subseteq Devs
    BY <1>1, NotOver, MessageFacts DEF Typed, QueueTypes
  <2>2. ASSUME NEW w \in Whats, w # "detach", NEW d \in Devs PROVE ~Gets("main", w, d)
    <3>1. queue["main"] \in Seq(Msgs) /\ Message(w, d) \in Msgs
      BY <2>1, <2>2, RecordFacts DEF Queues
    <3>2. Message(w, d) # Message("detach", e)
      BY <2>2, RecordFacts
    <3> DEFINE s == queue["main"]
               m == Message(w, d)
    <3>3. \A x : Contains(Append(s, m), x) <=> Contains(s, x) \/ x = m
      <4> HIDE DEF s, m
      <4> QED  BY <3>1, AppendFacts DEF s, m
    <3> QED  BY <1>3, <3>2, <3>3 DEF Gets
  <2>3. ~Same("main")
    BY <1>3 DEF Same
  <2>4. {"granted", "denied", "detached", "attach", "opened", "cancel", "cameraOpen",
         "cameraClose"} \subseteq Whats
    BY DEF Whats
  <2>5. ~System
    <3>1. ASSUME System
          PROVE  \/ queue' = queue
                 \/ \E d \in Devices, w \in {"granted", "denied", "detached"} :
                      queue' = Posted(queue, "main", Message(w, d))
      BY <2>1, <3>1 DEF System, Plug, GrantBySystem, Unplug, Answer, Broadcast, looperVars
    <3>2. ASSUME NEW d \in Devices, NEW w \in {"granted", "denied", "detached"}
          PROVE  queue' # Posted(queue, "main", Message(w, d))
      <4>1. d \in Devs /\ w \in Whats /\ w # "detach"
        BY <2>1, <2>4
      <4> QED  BY <2>1, <2>2, <4>1, EffectFacts
    <3> QED  BY <2>3, <3>1, <3>2 DEF Same
  <2>6. ~User /\ ~Main /\ ~Monitor
    BY <1>3, UserQueues, MainQueues, MonitorQueues, <2>1 DEF MonitorSends
  <2>7. ~Async
    <3>1. ASSUME Async PROVE ~ReleaseTask /\ ~DestroyMonitor /\ ~QuitSafely
      <4>1. helperDevice \in Devs /\ NoDevice \in Devs
        BY MessageFacts DEF Typed, ClientTypes
      <4> QED  BY <1>1, <2>1, <4>1, MoveFacts DEF Over, ReleaseTask, DestroyMonitor, QuitSafely
    <3>2. \A w, d : Handles("async", w, d) /\ queue' = Rest("async") => Same("main")
      BY <2>1, EffectFacts
    <3>3. \A w, d : queue' = Posted(queue, "listener", Message(w, d)) => Same("main")
      BY <2>1, EffectFacts
    <3>4. \A d \in Devs : queue' # ToClient(queue, Message("cameraOpen", d))
      BY <2>1, <2>2, <2>4, EffectFacts
    <3>5. pc["async"].dev \in Devs
      BY <2>1, MoveFacts
    <3> QED  BY <2>3, <3>1, <3>2, <3>3, <3>4, <3>5
             DEF Same, Async, SelectTask, OpenSelected, PostSelected, AskForSelected, processCancel,
                 CameraTask, getCamera, Awaited, getCameraFrame, ResetUVCCamera, OpenUVCCamera,
                 ProcessOnCameraOpen
  <2>8. ASSUME Listener PROVE OnDetach(e)
    <3>1. \A w, d : Handles("listener", w, d) /\ queue' = Rest("listener") => Same("main")
      BY <2>1, EffectFacts
    <3>2. \A w \in {"attach", "cancel"}, d \in Devices :
            ~(Handles("listener", w, d) /\ queue' = ToClient(Rest("listener"), Message(w, d)))
      BY <2>1, <2>2, <2>4, EffectFacts
    <3>3. ~FinishRemove
      <4>1. ASSUME FinishRemove PROVE Same("main") \/ Gets("main", "cameraClose", pc["listener"].dev)
        BY <2>1, <4>1, ReleaseEffects DEF FinishRemove, NothingReleased, Same
      <4>2. pc["listener"].dev \in Devs
        BY <2>1, MoveFacts
      <4> QED  BY <2>2, <2>3, <2>4, <4>1, <4>2
    <3>4. ~RegisterCallback
      <4>1. pc["listener"].dev \in Devs
        BY <2>1, MoveFacts
      <4> QED  BY <2>1, <2>2, <2>4, <4>1, EffectFacts DEF RegisterCallback
    <3>5. PICK d \in Devices : OnDetach(d)
      BY <2>3, <2>8, <3>1, <3>2, <3>3, <3>4 DEF Same, Listener, OnAttach, AddCamera, RemoveCamera,
                                                 OnCancel, Notify
    <3>6. /\ Handles("listener", "detach", d)
          /\ queue' = ToClient(Rest("listener"), Message("detach", d))
      BY <3>5 DEF OnDetach
    <3>7. Gets("main", "detach", d)
      BY <2>1, <3>6, EffectFacts
    <3>8. queue["main"] \in Seq(Msgs) /\ Message("detach", d) \in Msgs
      BY <2>1, MessageFacts DEF Queues
    <3>9. Message("detach", d) = Message("detach", e)
      BY <1>3, <3>7, <3>8, AppendFacts DEF Gets
    <3>10. d = e
      BY <3>9, RecordFacts
    <3> QED  BY <3>5, <3>10
  <2>9. OnDetach(e)
    BY <2>5, <2>6, <2>7, <2>8 DEF Next
  <2>10. Handles("listener", "detach", e) /\ Goto("listener", "remove", "detach", e)
    BY <2>9 DEF OnDetach
  <2>11. Leaving(e)
    BY <2>1, <2>10, RestFacts DEF Leaving
  <2>12. plugged'[e] = "gone"
    BY <1>1, <2>11, GoneStep DEF Leaves
  <2>13. Removing(e)'
    BY <2>1, <2>10, MoveFacts DEF Removing
  <2> QED  BY <2>12, <2>13 DEF Live
<1> QED  BY <1>2, <1>3

\* The helper's task stays with the device it was begun for, until a release.
LEMMA HelperGoes ==
  ASSUME Typed, Async, ~ReleaseTask, ~DestroyMonitor, ~QuitSafely
  PROVE  /\ mService' = mService
         /\ \/ pc' = pc /\ helperDevice' = helperDevice
            \/ pc'["async"].at = "idle"
            \/ /\ pc["async"].at \notin {"idle", "destroy", "quit"} /\ helperDevice' = helperDevice
               /\ pc'["async"].at \notin {"destroy", "quit"}
               /\ pc'["async"].dev = pc["async"].dev
            \/ /\ pc'["async"].at \notin {"destroy", "quit"}
               /\ pc'["async"].dev = helperDevice'
<1>1. PlaceTypes /\ AsyncPlaces /\ "async" \in Threads /\ helperDevice \in Devs
  BY MessageFacts DEF Typed, PlaceTypes, ClientTypes
<1>2. ASSUME NEW d \in Devices, SelectTask(d)
      PROVE  /\ mService' = mService
             /\ \/ pc' = pc /\ helperDevice' = helperDevice
                \/ pc'["async"].at = "select" /\ pc'["async"].dev = helperDevice'
  BY <1>1, <1>2, MoveFacts DEF SelectTask
<1>3. ASSUME NEW task \in {"open", "start", "picture"}, CameraTask(task)
      PROVE  /\ mService' = mService /\ helperDevice' = helperDevice
             /\ pc' = pc \/ (pc'["async"].at = "get" /\ pc'["async"].dev = helperDevice')
  <2>1. mService' = mService /\ helperDevice' = helperDevice
    BY <1>3 DEF CameraTask, helperVars
  <2>2. pc' = pc \/ Goto("async", "get", task, helperDevice)
    BY <1>3 DEF CameraTask
  <2> QED  BY <1>1, <2>1, <2>2, MoveFacts
<1>4. CASE OpenSelected \/ PostSelected \/ AskForSelected \/ getCamera("async")
           \/ Awaited("async") \/ ResetUVCCamera \/ OpenUVCCamera \/ ProcessOnCameraOpen
  <2> DEFINE d == pc["async"].dev
  <2>1. mService' = mService /\ helperDevice' = helperDevice
    BY <1>4 DEF helperVars, OpenSelected, PostSelected, AskForSelected, getCamera, Awaited,
                getCameraFrame, ResetUVCCamera, OpenUVCCamera, ProcessOnCameraOpen, openFrame
  <2>2. pc["async"].at \in {"select", "post", "get", "wait", "reset", "connect", "tell"}
    BY <1>4 DEF OpenSelected, PostSelected, AskForSelected, getCamera, Awaited,
                ResetUVCCamera, OpenUVCCamera, ProcessOnCameraOpen
  <2>3. \/ Return("async") \/ Goto("async", "post", "opened", d) \/ Goto("async", "post", "failed", d)
        \/ Goto("async", "wait", "select", d) \/ Goto("async", "wait", pc["async"].task, d)
        \/ Goto("async", "reset", pc["async"].task, d) \/ Goto("async", "tell", "open", d)
        \/ Goto("async", "connect", "open", d)
    BY <1>4 DEF OpenSelected, processOpenDevice, PostSelected, AskForSelected, AwaitSelected,
                getCamera, Awaited, Continue, ResetUVCCamera, OpenUVCCamera, ProcessOnCameraOpen
  <2>4. d \in Devs /\ pc["async"].task \in Tasks
    BY <1>1, MoveFacts
  <2> HIDE DEF d
  <2>5. \/ pc'["async"].at = "idle"
        \/ pc'["async"].at \in {"post", "wait", "reset", "tell", "connect"} /\ pc'["async"].dev = d
    BY <1>1, <2>3, <2>4, MoveFacts
  <2> QED  BY <2>1, <2>2, <2>5 DEF d
<1> QED  BY <1>2, <1>3, <1>4 DEF Async

\* The other threads leave the helper's alone.
LEMMA HelperAlone ==
  Typed /\ (System \/ User \/ Main \/ Listener \/ Monitor) =>
    pc'["async"] = pc["async"] /\ mService' = mService /\ helperDevice' = helperDevice
<1> SUFFICES ASSUME Typed, System \/ User \/ Main \/ Listener \/ Monitor
    PROVE  pc'["async"] = pc["async"] /\ mService' = mService /\ helperDevice' = helperDevice
  OBVIOUS
<1>1. pc'["async"] = pc["async"]
  BY Alone, MessageFacts DEF Moved
<1>2. mService' = mService /\ helperDevice' = helperDevice
  BY DEF helperVars, System, Plug, GrantBySystem, Unplug, Answer, User, TakeUsbPicture,
         ClearCameraHelper, mainFrame, Main, AttachNewDevice, OpenOnDeviceOpen,
         StartOnCameraOpen, OnCameraClose, ForgetDevice, ReceiveBroadcast, getCamera, Awaited,
         getCameraFrame, Listener, OnAttach, AddCamera, RegisterCallback, OnDetach,
         RemoveCamera, FinishRemove, OnCancel, Notify, listenerFrame, Monitor, CheckDevices,
         MonitorPosts, PermissionGranted, PermissionDenied, DeviceDetached, monitorFrame
<1> QED  BY <1>1, <1>2

\* A release begins with its task.
LEMMA OverBegins == Typed /\ Next /\ ~Over /\ ~ReleaseTask => ~Over'
<1> SUFFICES ASSUME Typed, Next, ~Over, ~ReleaseTask PROVE ~Over'
  OBVIOUS
<1>1. ~DestroyMonitor /\ ~QuitSafely
  BY DEF Over, DestroyMonitor, QuitSafely
<1> QED  BY <1>1, HelperAlone, HelperGoes DEF Next, Over

\* Whatever is open is the helper's device or about to be removed: selecting another one
\* while a live camera is open is ruled out by Selection.
LEMMA HoldingStep ==
  ASSUME Typed, Life, Known, Selection, Holding, Next
  PROVE  Holding'
<1>1. /\ PlaceTypes /\ AsyncPlaces /\ "async" \in Threads /\ helperDevice \in Devs
      /\ queue \in Queues /\ Devices \subseteq Devs /\ NoDevice \in Devs
      /\ connected \subseteq mCameras /\ mCameras \subseteq Devices
  BY MessageFacts DEF Typed, PlaceTypes, ClientTypes, QueueTypes, CameraTypes, Known
\* The helper changes its device only in selectDevice, which no live open camera sees.
<1>2. ASSUME NEW d \in Devices, SelectTask(d), ~Over, NEW e \in connected PROVE e = d \/ Removing(e)
  <2> SUFFICES ASSUME ~Removing(e) PROVE FALSE
    OBVIOUS
  <2>1. e \in Devices /\ Live(e)
    BY <1>1, <1>2 DEF Live
  <2>2. Selected(e) /\ Reached("added", e) /\ "added" \in Stages \ {"async"}
    BY <1>1, <1>2, <2>1, StageFacts DEF Selection, Stages
  <2>3. ~Selects(queue["async"])
    BY <2>2 DEF Selected
  <2>4. Takes("async", "select", d)
    BY <1>1, <1>2, EffectFacts, NotOver DEF SelectTask
  <2>5. Selects(queue["async"])
    BY <1>1, <2>4, QuietFacts
  <2> QED  BY <2>3, <2>5
<1>3. ASSUME ~Over, ~Over', NEW e \in connected, e = helperDevice
      PROVE  Removing(e) \/ e = helperDevice'
  <2>1. \/ helperDevice' = helperDevice
        \/ \E d \in Devices : SelectTask(d) /\ helperDevice' = d
        \/ QuitSafely
    BY DEF Next, helperVars, System, Plug, GrantBySystem, Unplug, Answer, User, TakeUsbPicture,
           ClearCameraHelper, mainFrame, Main, AttachNewDevice, OpenOnDeviceOpen, StartOnCameraOpen,
           OnCameraClose, ForgetDevice, ReceiveBroadcast, getCamera, Awaited, getCameraFrame,
           Listener, OnAttach, AddCamera, RegisterCallback, OnDetach, RemoveCamera, FinishRemove,
           OnCancel, Notify, listenerFrame, Monitor, CheckDevices, MonitorPosts, PermissionGranted,
           PermissionDenied, DeviceDetached, monitorFrame, Async, SelectTask, OpenSelected,
           PostSelected, AskForSelected, CameraTask, ResetUVCCamera, OpenUVCCamera,
           ProcessOnCameraOpen, ReleaseTask, DestroyMonitor, openFrame
  <2>2. ~QuitSafely
    BY <1>3 DEF QuitSafely, Over
  <2> QED  BY <1>2, <1>3, <2>1, <2>2
<1>4. ASSUME NEW e \in connected' PROVE Removing(e)' \/ (~Over' /\ e = helperDevice')
  <2>1. CASE OpenUVCCamera /\ e = pc["async"].dev
    <3>1. ~Over /\ e = helperDevice /\ helperDevice' = helperDevice /\ mService' = mService
      BY <1>1, <2>1 DEF OpenUVCCamera, openFrame, helperVars, Holding, Over, Life
    <3>2. pc'["async"].at \in {"tell", "idle"}
      BY <1>1, <2>1, MoveFacts DEF OpenUVCCamera
    <3> QED  BY <3>1, <3>2 DEF Over
  <2>2. CASE e \in connected
    <3>1. CASE Removing(e)
      BY <1>4, <3>1, RemovingStep
    <3>2. CASE ~Removing(e)
      <4>1. ~Over /\ e = helperDevice
        BY <2>2, <3>2 DEF Holding
      <4>2. ~Over'
        <5>1. ~ReleaseTask
          BY <1>4, <4>1, ReleaseCloses
        <5> QED  BY <4>1, <5>1, OverBegins
      <4> QED  BY <1>4, <2>2, <3>2, <4>1, <4>2, <1>3, LiveStep
    <3> QED  BY <3>1, <3>2
  <2> QED  BY <1>4, <2>1, <2>2, OpensOnly
<1>5. ASSUME pc'["async"].at \notin {"idle", "destroy", "quit"}
      PROVE  pc'["async"].dev = helperDevice'
  <2>1. CASE Async
    <3>1. /\ ReleaseTask => pc'["async"].at = "destroy"
          /\ DestroyMonitor => pc'["async"].at = "quit"
          /\ QuitSafely => pc'["async"].at = "idle"
      BY <1>1, MoveFacts DEF ReleaseTask, DestroyMonitor, QuitSafely
    <3> QED  BY <1>5, <2>1, <3>1, HelperGoes DEF Holding
  <2>2. CASE System \/ User \/ Main \/ Listener \/ Monitor
    BY <1>5, <2>2, HelperAlone DEF Holding
  <2> QED  BY <2>1, <2>2 DEF Next
<1> QED  BY <1>4, <1>5 DEF Holding

\* A finished release leaves no camera open.
LEMMA HoldingReleases == Life /\ Holding => ReleaseClosesCamera
BY MessageFacts, RecordFacts DEF Life, Over, Holding, Removing, ReleaseClosesCamera, ReleaseDone, AtRest

\* At the start nothing is selected and no camera is open.
LEMMA SelectionInit ==
  ASSUME Init
  PROVE  Selection /\ Notices /\ Holding
<1>1. \A t \in Threads : queue[t] = <<>> /\ pc[t].at = "idle"
  BY RecordFacts DEF Init
<1>2. \A K, e : ~Carries(<<>>, K, e) /\ Once(<<>>, K, e) /\ ~Selects(<<>>) /\ IsLast(<<>>, e)
  BY DEF Carries, Once, Selects, IsLast
<1>3. \A e : ~Contains(<<>>, Message("detach", e))
  BY DEF Contains
<1>4. \A e, s : ~Reached(s, e)
  BY <1>1, <1>2, MessageFacts DEF Init, Reached
<1>5. Selection
  BY <1>1, <1>2, <1>4, MessageFacts DEF Selection, Selected
<1>6. Notices
  BY <1>1, <1>3, MessageFacts DEF Notices
<1>7. Holding
  BY <1>1, MessageFacts DEF Init, Holding
<1> QED  BY <1>5, <1>6, <1>7

\* The selection is about these variables only.
LEMMA SelectionStutter ==
  UNCHANGED vars /\ Selection /\ Notices /\ Holding => Selection' /\ Notices' /\ Holding'
<1> SUFFICES ASSUME UNCHANGED vars, Selection, Notices, Holding PROVE Selection' /\ Notices' /\ Holding'
  OBVIOUS
<1> USE DEF vars, systemVars, looperVars, registryVars, cameraVars, helperVars, clientVars
<1>1. \A e : (Live(e)' <=> Live(e)) /\ (Removing(e)' <=> Removing(e))
  BY DEF Live, Removing
<1>2. \A s, e : Reached(s, e)' <=> Reached(s, e)
  BY DEF Reached
<1>3. \A e : Selected(e)' <=> Selected(e)
  BY <1>2 DEF Selected
<1>4. Selection' /\ Notices'
  BY <1>1, <1>3 DEF Selection, Notices, Over
<1>5. Holding'
  BY <1>1 DEF Holding, Over
<1> QED  BY <1>4, <1>5

-----------------------------------------------------------------------------
(* Theorems. *)

\* The invariant holds at the start.
LEMMA InitInv == Init => IInv
<1> SUFFICES ASSUME Init PROVE IInv
  OBVIOUS
<1>1. pc = [t \in Threads |-> Idle] /\ queue = [t \in Threads |-> <<>>]
  BY DEF Init
<1>2. /\ \A t \in Threads : pc[t] = Idle /\ queue[t] = <<>>
      /\ Idle.at = "idle" /\ Idle \in Posts /\ <<>> \in Seq(Msgs) /\ \A x : ~Contains(<<>>, x)
  BY <1>1, RecordFacts DEF Contains
<1>3. Typed
  <2>1. SystemTypes /\ QueueTypes /\ TableTypes
    BY <1>1, <1>2 DEF Init, SystemTypes, QueueTypes, TableTypes, Queues, Here
  <2>2. PlaceTypes
    BY <1>1, <1>2, MessageFacts DEF PlaceTypes, MainPlaces, MonitorPlaces, ListenerPlaces,
                                    AsyncPlaces
  <2>3. SyncTypes
    <3>1. pc["async"].at = "idle" /\ pc["listener"].at = "idle"
      BY <1>2, MessageFacts
    <3> QED  BY <3>1 DEF Init, SyncTypes
  <2>4. CameraTypes
    BY DEF Init, CameraTypes, Devs
  <2>5. ClientTypes
    <3>1. 0 \in 0..MaxPictures
      BY ConnectionAssumption
    <3> QED  BY <3>1 DEF Init, ClientTypes, Devs
  <2> QED  BY <2>1, <2>2, <2>3, <2>4, <2>5 DEF Typed
<1>4. Life
  BY DEF Init, Life
<1>5. \A d \in Devices : ~Leaving(d)
  BY <1>2, RecordFacts, MessageFacts DEF Leaving
<1>6. Known /\ Asked
  BY <1>2, MessageFacts DEF Init, Known, Asked
<1>7. Selection /\ Notices /\ Holding
  BY SelectionInit
<1> QED  BY <1>3, <1>4, <1>5, <1>6, <1>7 DEF IInv, Leaves

\* The invariant is about these variables only.
LEMMA StutterInv == IInv /\ UNCHANGED vars => IInv'
<1> SUFFICES ASSUME IInv, UNCHANGED vars PROVE IInv'
  OBVIOUS
<1> USE DEF vars, systemVars, looperVars, blockVars, keyVars, syncVars, registryVars, cameraVars,
            helperVars, clientVars
<1>1. SystemTypes' /\ QueueTypes' /\ TableTypes'
  BY DEF IInv, Typed, SystemTypes, QueueTypes, TableTypes, Here
<1>2. PlaceTypes'
  BY DEF IInv, Typed, PlaceTypes, MainPlaces, MonitorPlaces, ListenerPlaces, AsyncPlaces
<1>3. SyncTypes' /\ CameraTypes' /\ ClientTypes'
  BY DEF IInv, Typed, SyncTypes, CameraTypes, ClientTypes
<1>4. Life'
  BY DEF IInv, Life
<1>5. \A d \in Devices : Leaving(d)' <=> Leaving(d)
  BY DEF Leaving
<1>6. Leaves'
  BY <1>5 DEF IInv, Leaves, Over
<1>7. Known' /\ Asked'
  BY DEF IInv, Known, Asked, Answering
<1>8. Selection' /\ Notices' /\ Holding'
  BY SelectionStutter DEF IInv
<1> QED  BY <1>1, <1>2, <1>3, <1>4, <1>6, <1>7, <1>8 DEF IInv, Typed

\* The invariant is inductive.
LEMMA NextInv == IInv /\ [Next]_vars => IInv'
BY StutterInv, TypedStep, LifeStep, LeavesStep, KnownStep, AskedStep, SelectionStep,
   NoticesStep, HoldingStep DEF IInv

\* The invariant holds in every behaviour of the four threads, the user and Android.
THEOREM Invariance == Spec => []IInv
BY InitInv, NextInv, PTL DEF Spec

\* Types, for any number of devices: only the threads in getCamera or selectDevice
\* wait, and mConnectionSync's owner is in its section (CameraConnectionService).
THEOREM TypeCorrect == Spec => []TypeOK
<1>1. IInv => TypeOK
  <2> SUFFICES ASSUME Typed PROVE TypeOK
    BY DEF IInv
  <2>1. /\ plugged \in [Devices -> {"absent", "here", "gone"}] /\ permitted \subseteq Here
        /\ dialogs \subseteq Devices
    BY DEF Typed, SystemTypes
  <2>2. queue \in [Threads -> Seq([what : Whats, dev : Devices \cup {NoDevice}])] /\ quit \subseteq Threads
    BY DEF Typed, QueueTypes, Queues, Msgs, Devs, Threads
  <2>3. pc \in [Threads -> [at : Places, task : Tasks, dev : Devices \cup {NoDevice}]]
    BY DEF Typed, PlaceTypes, Posts, Devs
  <2> QED  BY <2>1, <2>2, <2>3 DEF TypeOK, Typed, TableTypes, SyncTypes, CameraTypes, ClientTypes,
                                   Devs
<1> QED  BY <1>1, Invariance, PTL

\* An open camera is in mCameras, whatever the opening and the removal interleave.
THEOREM OpenKnown == Spec => []OpenIsRegistered
<1>1. IInv => OpenIsRegistered
  BY DEF IInv, Known, OpenIsRegistered
<1> QED  BY <1>1, Invariance, PTL

\* A waiting selectDevice has its answer on its way.
THEOREM SelectAnswered == Spec => []SelectHasAnswer
<1>1. IInv => SelectHasAnswer
  BY DEF IInv, Asked, Answering, AnswerPending, SelectHasAnswer
<1> QED  BY <1>1, Invariance, PTL

\* When the helper was released and the connection's listener is at rest, no camera
\* is open, with any number of devices (CameraHelper.release).
THEOREM ReleasedIsClosed == Spec => []ReleaseClosesCamera
<1>1. IInv => ReleaseClosesCamera
  BY HoldingReleases DEF IInv
<1> QED  BY <1>1, Invariance, PTL

\* A camera is opened for the helper's device, which is registered, permitted and there, before
\* any release, and not beside another one but for those whose removal has begun.
Opens(d) ==
  /\ d = helperDevice /\ d \in mCameras /\ d \in Here \cap permitted /\ ~Over
  /\ \A e \in connected : Removing(e)
OpensAlone == \A d \in connected' \ connected : Opens(d)

\* With any number of devices, cameras are open one at a time, and every opening is of the
\* helper's device, in its place (CameraInternal.openUVCCamera).
THEOREM OneAtATime == Spec => [][OpensAlone]_vars
<1>1. IInv /\ [Next]_vars => [OpensAlone]_vars
  <2> SUFFICES ASSUME IInv, Next, NEW d \in connected', d \notin connected PROVE Opens(d)
    BY DEF OpensAlone
  <2>1. OpenUVCCamera /\ d = pc["async"].dev
    BY OpensOnly DEF IInv
  <2>2. pc["async"].at = "connect" /\ d \in Here \cap permitted
    BY <2>1 DEF OpenUVCCamera, MayOpen
  <2>3. d = helperDevice
    BY <2>1, <2>2 DEF IInv, Holding
  <2>4. d \in mCameras
    BY <2>1, <2>2 DEF IInv, Known, Here
  <2>5. ~Over
    BY <2>2 DEF IInv, Life, Over
  <2>6. \A e \in connected : Removing(e)
    BY <2>3 DEF IInv, Holding
  <2> QED  BY <2>2, <2>3, <2>4, <2>5, <2>6 DEF Opens
<1> QED  BY <1>1, Invariance, PTL DEF Spec

=============================================================================
