------------------------ MODULE CameraPreviewProofs ------------------------
(***************************************************************************)
(* Proofs about CameraPreview, for any number of calls and of failures of  *)
(* drawing. The invariant has one part for each question the properties    *)
(* ask: who holds which lock (Held), when the camera may close (Closing),  *)
(* whether the size is known before a surface is created anew (SizeFirst:  *)
(* the GL thread, which starts the preview itself, must never await), who  *)
(* will be answered (Answered), what is left after a release (Released),   *)
(* which surfaces are drawn to (Gone), and what the camera shows (Shown).  *)
(* Each part is preserved by a lemma of its own.                           *)
(***************************************************************************)
EXTENDS CameraPreview, SequenceTheorems, TLAPS

Inside == {"lockSize", "awaitSize", "primary", "lockPrimary", "awaitPrimary",
           "read", "display", "flag"}
GlPlaces == {"loop", "create", "callback", "start", "primary", "read", "display", "flag",
             "unlock", "ended"}
SlavePlaces == {"idle", "add", "remove", "addWait", "removeWait"}
AsyncPlaces == SlavePlaces \cup Inside \cup {"start", "picture"}
ListenerPlaces == {"idle", "captures", "resource", "done"}

PlaceTypes ==
  /\ pc \in [Threads -> GlPlaces \cup AsyncPlaces \cup ListenerPlaces]
  /\ pc["gl"] \in GlPlaces /\ pc["async"] \in AsyncPlaces
  /\ pc["recorder"] \in SlavePlaces /\ pc["listener"] \in ListenerPlaces
LockTypes ==
  /\ camera \in {"async", "gl", None} /\ lock \in {"gl", None}
  /\ awaiting \subseteq {"async"} /\ waiting \subseteq Slaves
QueueTypes == queue \in Seq(Messages) /\ quit \in BOOLEAN /\ behind \in BOOLEAN
RenderTypes == /\ sizeSet \in BOOLEAN /\ made \in Nat /\ mPrimarySurface \in {0, made}
               /\ mSlaveSurfaces \subseteq Slaves
CameraTypes ==
  /\ mUVCCamera \in BOOLEAN /\ mRendererHolder \in BOOLEAN /\ mImageCapture \in BOOLEAN
  /\ mIsPreviewing \in BOOLEAN /\ streaming \in BOOLEAN
  /\ display \in 0..made /\ surface \in [Threads -> 0..made]
HistoryTypes == /\ removed \subseteq Slaves /\ picture \in {"none", "asked", "answered", "unheard"}
                /\ missed \in BOOLEAN /\ cut \in BOOLEAN
Typed == PlaceTypes /\ LockTypes /\ QueueTypes /\ RenderTypes /\ CameraTypes /\ HistoryTypes

Has(what) == \E i \in 1..Len(queue) : queue[i][1] = what

\* Locks are held where the code holds them.
Held ==
  /\ lock = "gl" <=> pc["gl"] \notin {"loop", "ended"}
  /\ camera = "async" <=> pc["async"] \in Inside
  /\ camera = "gl" <=> pc["gl"] \in Inside
  /\ awaiting # {} => pc["async"] \in {"awaitSize", "awaitPrimary"}
  /\ pc["gl"] \in {"callback", "start", "unlock"} \cup Inside => mPrimarySurface # 0 /\ mPrimarySurface = made
  /\ pc["gl"] = "create" => mPrimarySurface = 0

\* The release is sent when the camera is closed, and it is closed while nobody starts.
Closing ==
  /\ mUVCCamera <=> pc["listener"] = "idle"
  /\ camera # None => mUVCCamera
  /\ streaming => mUVCCamera
  /\ pc["listener"] # "done" => ~quit /\ ~Has("release")

Past == {"primary", "lockPrimary", "awaitPrimary", "read", "display", "flag"}
\* A start after which nobody has to ask for the size.
SizeFirst ==
  /\ \A i \in 1..Len(queue) : queue[i][1] = "init" => i = 1
  /\ pc["gl"] # "loop" => ~Has("init")
  /\ ~sizeSet =>
       /\ \A i \in 1..Len(queue) : queue[i][1] = "recreate" =>
            \E j \in 1..Len(queue) : j < i /\ queue[j][1] = "size"
       /\ pc["gl"] \notin {"loop", "ended"} \/ Has("init") =>
            ~mIsPreviewing /\ ~streaming /\ pc["async"] \notin Past
       /\ pc["async"] = "awaitSize" /\ awaiting = {} => ~Has("init")
       /\ streaming \/ mIsPreviewing \/ pc["async"] \in Past \cup {"awaitSize"} => Has("size")
  /\ pc["gl"] \in {"start"} \cup Inside => sizeSet

Answered ==
  /\ awaiting # {} => pc["gl"] = "create" \/ Has("init") \/ Has("recreate")
  /\ picture = "asked" => pc["async"] = "picture" \/ Has("picture")
  /\ pc["gl"] = "ended" => quit /\ queue = <<>>

Released ==
  ~behind =>
    /\ \A i \in 1..Len(queue) : queue[i][1] = "release" => i = Len(queue)
    /\ quit => /\ queue = <<>> /\ mPrimarySurface = 0 /\ mSlaveSurfaces = {}
               /\ pc["gl"] \in {"loop", "ended"}

Gone ==
  ~cut => \A s \in Slaves :
    /\ Contains(queue, <<"add", s>>) => pc[s] = "addWait"
    /\ Contains(queue, <<"remove", s>>) => pc[s] = "removeWait"
    /\ pc[s] = "removeWait" /\ ~Contains(queue, <<"remove", s>>) => s \notin mSlaveSurfaces
    /\ s \in removed => s \notin mSlaveSurfaces /\ pc[s] \notin {"add", "addWait", "remove", "removeWait"}

Pending == Has("init") \/ Has("recreate") \/ pc["gl"] \in {"create", "callback", "start", "primary", "read", "display"}
Shown ==
  /\ streaming => mIsPreviewing \/ pc["async"] = "flag" \/ pc["gl"] = "flag"
  /\ pc["gl"] = "display" => surface["gl"] = mPrimarySurface
  /\ pc["gl"] = "flag" => display = mPrimarySurface
  /\ ~missed /\ ~Pending =>
       /\ pc["async"] = "display" => surface["async"] = mPrimarySurface
       /\ pc["async"] = "flag" => display = mPrimarySurface
       /\ streaming /\ pc["async"] \notin {"start", "display"} \cup Inside => display = mPrimarySurface
IInv == Typed /\ Held /\ Closing /\ SizeFirst /\ Answered /\ Released /\ Gone /\ Shown

-----------------------------------------------------------------------------
(* The queue. *)

\* The kinds of messages.
LEMMA MessageKinds ==
  /\ \A m \in Messages :
       /\ m[1] \in {"init", "size", "recreate", "picture", "release", "add", "remove"}
       /\ m[1] \in {"add", "remove"} => m[2] \in Slaves /\ m = <<m[1], m[2]>>
       /\ m[1] \notin {"add", "remove"} => m = <<m[1]>>
  /\ \A k \in {"init", "size", "recreate", "picture", "release"} :
       <<k>> \in Messages /\ <<k>>[1] = k
  /\ \A k \in {"add", "remove"}, s \in Slaves :
       <<k, s>> \in Messages /\ <<k, s>>[1] = k /\ <<k, s>>[2] = s
BY DEF Messages

\* Two messages of surfaces are the same if their parts are, and no others' equal.
LEMMA SurfaceMessages ==
  \A s, u \in Slaves :
    /\ <<"add", s>> = <<"add", u>> => s = u
    /\ <<"remove", s>> = <<"remove", u>> => s = u
    /\ <<"add", s>> # <<"remove", u>>
    /\ \A k \in {"init", "size", "recreate", "picture", "release"} :
         <<k>> # <<"add", s>> /\ <<k>> # <<"remove", s>>
BY DEF Slaves

\* What handling the first message does to the queue.
LEMMA HandleFacts ==
  ASSUME QueueTypes, NEW w, Handle(w)
  PROVE  /\ queue' \in Seq(Messages) /\ Len(queue') = Len(queue) - 1 /\ Len(queue) \in Nat \ {0}
         /\ queue[1] = Head(queue) /\ queue[1] \in Messages /\ queue[1][1] = w
         /\ \A i \in 1..Len(queue') : queue'[i] = queue[i + 1]
<1>1. queue \in Seq(Messages) /\ queue # <<>> /\ Head(queue)[1] = w /\ queue' = Tail(queue)
  BY DEF QueueTypes, Handle
<1>2. \A q \in Seq(Messages) : q # <<>> =>
        /\ Tail(q) \in Seq(Messages) /\ Len(Tail(q)) = Len(q) - 1 /\ Len(q) \in Nat \ {0}
        /\ q[1] = Head(q) /\ q[1] \in Messages
        /\ \A i \in 1..Len(Tail(q)) : Tail(q)[i] = q[i + 1]
  OBVIOUS
<1> QED  BY <1>1, <1>2

\* Handling a message takes away one of its kind at most.
LEMMA HandleHas ==
  ASSUME QueueTypes, NEW w, Handle(w)
  PROVE  \A k : (Has(k)' => Has(k)) /\ (Has(k) => Has(k)' \/ k = w)
<1> SUFFICES ASSUME NEW k PROVE (Has(k)' => Has(k)) /\ (Has(k) => Has(k)' \/ k = w)
  OBVIOUS
<1>1. /\ Len(queue') = Len(queue) - 1 /\ Len(queue) \in Nat \ {0} /\ queue[1][1] = w
      /\ \A i \in 1..Len(queue') : queue'[i] = queue[i + 1]
  BY HandleFacts
<1>2. ASSUME NEW i \in 1..Len(queue'), queue'[i][1] = k PROVE Has(k)
  <2>1. i + 1 \in 1..Len(queue) /\ queue[i + 1][1] = k
    BY <1>1, <1>2
  <2> QED  BY <2>1 DEF Has
<1>3. ASSUME NEW i \in 1..Len(queue), queue[i][1] = k, k # w PROVE Has(k)'
  <2>1. i - 1 \in 1..Len(queue') /\ queue'[i - 1][1] = k
    BY <1>1, <1>3
  <2> QED  BY <2>1 DEF Has
<1> QED  BY <1>2, <1>3 DEF Has

\* Handling takes away the first message and no other.
LEMMA HandleContains ==
  ASSUME QueueTypes, NEW w, Handle(w)
  PROVE  \A m : /\ Contains(queue', m) => Contains(queue, m)
                /\ Contains(queue, m) => Contains(queue', m) \/ m = queue[1]
<1> SUFFICES ASSUME NEW m
    PROVE  /\ Contains(queue', m) => Contains(queue, m)
           /\ Contains(queue, m) => Contains(queue', m) \/ m = queue[1]
  OBVIOUS
<1>1. /\ Len(queue') = Len(queue) - 1 /\ Len(queue) \in Nat \ {0}
      /\ \A i \in 1..Len(queue') : queue'[i] = queue[i + 1]
  BY HandleFacts
<1>2. ASSUME NEW i \in 1..Len(queue'), queue'[i] = m PROVE Contains(queue, m)
  <2>1. i + 1 \in 1..Len(queue) /\ queue[i + 1] = m
    BY <1>1, <1>2
  <2> QED  BY <2>1 DEF Contains
<1>3. ASSUME NEW i \in 1..Len(queue), queue[i] = m, m # queue[1] PROVE Contains(queue', m)
  <2>1. i - 1 \in 1..Len(queue') /\ queue'[i - 1] = m
    BY <1>1, <1>3
  <2> QED  BY <2>1 DEF Contains
<1> QED  BY <1>2, <1>3 DEF Contains

\* What sending does to the queue of a looper that was not quit.
LEMMA SendFacts ==
  ASSUME QueueTypes, NEW ms \in Seq(Messages), Send(ms)
  PROVE  /\ quit' = quit /\ (quit => queue' = queue) /\ queue' \in Seq(Messages)
         /\ ~quit =>
              /\ Len(queue) \in Nat /\ Len(ms) \in Nat /\ Len(queue') = Len(queue) + Len(ms)
              /\ \A i \in 1..Len(queue) : queue'[i] = queue[i]
              /\ \A i \in 1..Len(queue') : i \in 1..Len(queue) \/
                   (i - Len(queue) \in 1..Len(ms) /\ queue'[i] = ms[i - Len(queue)])
              /\ \A i \in 1..Len(ms) : queue'[Len(queue) + i] = ms[i]
<1>1. queue \in Seq(Messages) /\ quit' = quit
      /\ queue' = IF quit THEN queue ELSE queue \o ms
  BY DEF QueueTypes, Send
<1>2. CASE quit
  BY <1>1, <1>2
<1>3. CASE ~quit
  <2>1. /\ queue \o ms \in Seq(Messages) /\ Len(queue \o ms) = Len(queue) + Len(ms)
        /\ \A i \in 1..Len(queue) + Len(ms) :
             (queue \o ms)[i] = IF i <= Len(queue) THEN queue[i] ELSE ms[i - Len(queue)]
    BY <1>1, ConcatProperties
  <2>2. Len(queue) \in Nat /\ Len(ms) \in Nat
    BY <1>1, LenProperties
  <2> QED  BY <1>1, <1>3, <2>1, <2>2
<1> QED  BY <1>2, <1>3

\* Sending one message, or the two a start with an unknown size sends.
LEMMA SendOne ==
  ASSUME QueueTypes, NEW m \in Messages, Send(<<m>>)
  PROVE  /\ quit' = quit /\ (quit => queue' = queue) /\ queue' \in Seq(Messages)
         /\ ~quit => /\ Len(queue') = Len(queue) + 1 /\ queue'[Len(queue) + 1] = m
                     /\ \A i \in 1..Len(queue) : queue'[i] = queue[i]
         /\ \A k : Has(k)' <=> Has(k) \/ (~quit /\ m[1] = k)
         /\ \A n : Contains(queue', n) <=> Contains(queue, n) \/ (~quit /\ n = m)
<1>1. <<m>> \in Seq(Messages) /\ Len(<<m>>) = 1 /\ <<m>>[1] = m
  OBVIOUS
<1>2. /\ quit' = quit /\ (quit => queue' = queue) /\ queue' \in Seq(Messages)
      /\ ~quit =>
           /\ Len(queue) \in Nat /\ Len(queue') = Len(queue) + 1
           /\ \A i \in 1..Len(queue) : queue'[i] = queue[i]
           /\ queue'[Len(queue) + 1] = m
  <2>1. /\ quit' = quit /\ (quit => queue' = queue) /\ queue' \in Seq(Messages)
        /\ ~quit =>
             /\ Len(queue) \in Nat /\ Len(queue') = Len(queue) + Len(<<m>>)
             /\ \A i \in 1..Len(queue) : queue'[i] = queue[i]
             /\ \A i \in 1..Len(<<m>>) : queue'[Len(queue) + i] = <<m>>[i]
    BY <1>1, SendFacts
  <2> QED  BY <1>1, <2>1
<1>3. \A k : Has(k)' <=> Has(k) \/ (~quit /\ m[1] = k)
  BY <1>2 DEF Has
<1>4. \A n : Contains(queue', n) <=> Contains(queue, n) \/ (~quit /\ n = m)
  BY <1>2 DEF Contains
<1> QED  BY <1>2, <1>3, <1>4

\* The two messages of updatePrimarySize are appended in their order, unless the looper was quit.
LEMMA SendTwo ==
  ASSUME QueueTypes, Send(<<<<"size">>, <<"recreate">>>>)
  PROVE  /\ quit' = quit /\ (quit => queue' = queue) /\ queue' \in Seq(Messages)
         /\ ~quit => /\ Len(queue') = Len(queue) + 2
                     /\ queue'[Len(queue) + 1] = <<"size">>
                     /\ queue'[Len(queue) + 2] = <<"recreate">>
                     /\ \A i \in 1..Len(queue) : queue'[i] = queue[i]
         /\ \A k : Has(k)' <=> Has(k) \/ (~quit /\ k \in {"size", "recreate"})
         /\ \A n : Contains(queue', n) <=>
                     Contains(queue, n) \/ (~quit /\ n \in {<<"size">>, <<"recreate">>})
<1> DEFINE ms == <<<<"size">>, <<"recreate">>>>
<1>1. /\ <<"size">> \in Messages /\ <<"recreate">> \in Messages
      /\ <<"size">>[1] = "size" /\ <<"recreate">>[1] = "recreate"
  BY MessageKinds
<1>2. ms \in Seq(Messages) /\ Len(ms) = 2 /\ ms[1] = <<"size">> /\ ms[2] = <<"recreate">>
  BY <1>1
<1>3. Send(ms)
  OBVIOUS
<1> HIDE DEF ms
<1>4. /\ quit' = quit /\ (quit => queue' = queue) /\ queue' \in Seq(Messages)
      /\ ~quit =>
           /\ Len(queue) \in Nat /\ Len(queue') = Len(queue) + 2
           /\ \A i \in 1..Len(queue) : queue'[i] = queue[i]
           /\ queue'[Len(queue) + 1] = <<"size">> /\ queue'[Len(queue) + 2] = <<"recreate">>
  <2>1. /\ quit' = quit /\ (quit => queue' = queue) /\ queue' \in Seq(Messages)
        /\ ~quit =>
             /\ Len(queue) \in Nat /\ Len(queue') = Len(queue) + Len(ms)
             /\ \A i \in 1..Len(queue) : queue'[i] = queue[i]
             /\ \A i \in 1..Len(ms) : queue'[Len(queue) + i] = ms[i]
    BY <1>2, <1>3, SendFacts
  <2> QED  BY <1>2, <2>1
<1>5. \A k : Has(k)' <=> Has(k) \/ (~quit /\ k \in {"size", "recreate"})
  <2>1. CASE quit
    BY <1>4, <2>1 DEF Has
  <2>2. CASE ~quit
    <3>1. Len(queue) + 1 \in 1..Len(queue') /\ Len(queue) + 2 \in 1..Len(queue')
      BY <1>4, <2>2
    <3>2. \A k : Has(k) => Has(k)'
      BY <1>4, <2>2 DEF Has
    <3>3. Has("size")' /\ Has("recreate")'
      BY <1>1, <1>4, <2>2, <3>1 DEF Has
    <3>4. \A i \in 1..Len(queue') : i \in 1..Len(queue) \/ queue'[i][1] \in {"size", "recreate"}
      BY <1>1, <1>4, <2>2
    <3>5. \A k : Has(k)' => Has(k) \/ k \in {"size", "recreate"}
      BY <1>4, <2>2, <3>4 DEF Has
    <3> QED  BY <2>2, <3>2, <3>3, <3>5
  <2> QED  BY <2>1, <2>2
<1>6. \A n : Contains(queue', n) <=>
               Contains(queue, n) \/ (~quit /\ n \in {<<"size">>, <<"recreate">>})
  <2>1. CASE quit
    BY <1>4, <2>1 DEF Contains
  <2>2. CASE ~quit
    <3>1. Len(queue) + 1 \in 1..Len(queue') /\ Len(queue) + 2 \in 1..Len(queue')
      BY <1>4, <2>2
    <3>2. \A n : Contains(queue, n) => Contains(queue', n)
      BY <1>4, <2>2 DEF Contains
    <3>3. Contains(queue', <<"size">>) /\ Contains(queue', <<"recreate">>)
      BY <1>4, <2>2, <3>1 DEF Contains
    <3>4. \A i \in 1..Len(queue') :
            i \in 1..Len(queue) \/ i = Len(queue) + 1 \/ i = Len(queue) + 2
      BY <1>4, <2>2
    <3>5. \A n : Contains(queue', n) => Contains(queue, n) \/ n \in {<<"size">>, <<"recreate">>}
      BY <1>4, <2>2, <3>4 DEF Contains
    <3> QED  BY <2>2, <3>2, <3>3, <3>5
  <2> QED  BY <2>1, <2>2
<1> QED  BY <1>4, <1>5, <1>6

\* A queue that stays keeps what it holds.
LEMMA SameQueue ==
  UNCHANGED queueVars =>
    /\ queue' = queue /\ quit' = quit /\ behind' = behind
    /\ \A k : Has(k)' <=> Has(k)
BY DEF queueVars, Has

-----------------------------------------------------------------------------
(* Types. *)

\* The steps, one by one.
Starts(t) == \/ StartEnter(t) \/ StartPrimary(t) \/ AwaitSize(t) \/ AwaitPrimary(t)
             \/ Woken(t) \/ StartRead(t) \/ StartDisplay(t) \/ StartFlag(t)
GlSteps == \/ GlRecreate \/ GlCreate \/ GlCallback \/ GlUnlock \/ GlUpdateSize \/ GlSurface
           \/ GlPicture \/ GlRelease \/ GlDrawFails \/ GlEnds
SlaveSteps(t) == AddSlaveSurface(t) \/ RemoveSlaveSurface(t) \/ SurfaceWaitEnds(t) \/ CallSurface(t)
OtherSteps == \/ PostPicture \/ CloseCaptures \/ ReleaseResource \/ CloseCamera
              \/ CallStart \/ StopPreview \/ CallPicture

\* Every step is one of the kinds above.
LEMMA Steps ==
  Next => (\E t \in {"gl", "async"} : Starts(t)) \/ GlSteps \/ (\E t \in Slaves : SlaveSteps(t)) \/ OtherSteps
BY DEF Next, Gl, Async, Recorder, Listener, Calls, StartPreview, Proceed, Starts, GlSteps,
       SlaveSteps, OtherSteps, Slaves

\* Each thread stays at the places of its own code.
LEMMA PlacesStep == IInv /\ Next => PlaceTypes'
<1> SUFFICES ASSUME IInv, Next PROVE PlaceTypes'
  OBVIOUS
<1> DEFINE All == GlPlaces \cup AsyncPlaces \cup ListenerPlaces
<1>1. /\ pc \in [Threads -> All]
      /\ pc["gl"] \in GlPlaces /\ pc["async"] \in AsyncPlaces
      /\ pc["recorder"] \in SlavePlaces /\ pc["listener"] \in ListenerPlaces
  BY DEF IInv, Typed, PlaceTypes
<1>2. ASSUME NEW t \in {"gl", "async"}, Starts(t) PROVE PlaceTypes'
  <2>1. CASE t = "gl"
    <3>1. /\ pc["gl"] = "start" => sizeSet
          /\ pc["gl"] = "primary" => mPrimarySurface # 0
      BY DEF IInv, SizeFirst, Held, Inside
    <3> QED
      BY <1>1, <1>2, <2>1, <3>1
         DEF Starts, StartEnter, StartPrimary, AwaitSize, AwaitPrimary, Await, Woken, StartRead,
             StartDisplay, StartFlag, At, Return, Threads, PlaceTypes, GlPlaces, AsyncPlaces, Inside,
             SlavePlaces, ListenerPlaces
  <2>2. CASE t = "async"
    BY <1>1, <1>2, <2>2
       DEF Starts, StartEnter, StartPrimary, AwaitSize, AwaitPrimary, Await, Woken, StartRead,
           StartDisplay, StartFlag, At, Return, Threads, PlaceTypes, GlPlaces, AsyncPlaces, Inside,
           SlavePlaces, ListenerPlaces
  <2> QED  BY <1>2, <2>1, <2>2
<1>3. CASE GlSteps
  BY <1>1, <1>3
     DEF GlSteps, GlRecreate, GlCreate, GlCallback, GlUnlock, GlUpdateSize, GlSurface, GlPicture,
         GlRelease, GlDrawFails, GlEnds, Loop, At, Threads, PlaceTypes, GlPlaces, AsyncPlaces,
         Inside, SlavePlaces, ListenerPlaces
<1>4. ASSUME NEW t \in Slaves, SlaveSteps(t) PROVE PlaceTypes'
  <2>1. \E l \in SlavePlaces : pc' = [pc EXCEPT ![t] = l]
    BY <1>4 DEF SlaveSteps, AddSlaveSurface, RemoveSlaveSurface, Surfaces, SurfaceWaitEnds,
                CallSurface, Call, At, SlavePlaces
  <2> QED  BY <1>1, <2>1 DEF PlaceTypes, Slaves, Threads, AsyncPlaces
<1>5. CASE OtherSteps
  BY <1>1, <1>5
     DEF OtherSteps, PostPicture, CloseCaptures, ReleaseResource, CloseCamera, CallStart,
         StopPreview, CallPicture, Call, At, Threads, PlaceTypes, GlPlaces, AsyncPlaces, Inside,
         SlavePlaces, ListenerPlaces
<1> QED  BY <1>2, <1>3, <1>4, <1>5, Steps

\* The owners of the locks, and who waits, stay among the threads that may.
LEMMA LocksStep == IInv /\ Next => LockTypes'
<1> SUFFICES ASSUME IInv, Next PROVE LockTypes'
  OBVIOUS
<1>1. LockTypes /\ pc["gl"] \in GlPlaces /\ awaiting \subseteq {"async"} /\ lock \in {"gl", None}
  BY DEF IInv, Typed, LockTypes, PlaceTypes
<1>2. ASSUME NEW t \in {"gl", "async"}, Starts(t) PROVE LockTypes'
  <2>1. CASE AwaitSize(t) \/ AwaitPrimary(t)
    BY <1>1, <2>1 DEF AwaitSize, AwaitPrimary, Await, At, LockTypes, GlPlaces
  <2>2. CASE Woken(t)
    BY <1>1, <2>2 DEF Woken, LockTypes
  <2>3. CASE StartEnter(t) \/ StartPrimary(t) \/ StartRead(t) \/ StartDisplay(t) \/ StartFlag(t)
    BY <1>1, <1>2, <2>3
       DEF StartEnter, StartPrimary, StartRead, StartDisplay, StartFlag, LockTypes, lockVars
  <2> QED  BY <1>2, <2>1, <2>2, <2>3 DEF Starts
<1>3. CASE GlSteps
  BY <1>1, <1>3
     DEF GlSteps, GlRecreate, GlCreate, GlCallback, GlUnlock, GlUpdateSize, GlSurface, GlPicture,
         GlRelease, GlDrawFails, GlEnds, Loop, LockTypes, lockVars
<1>4. ASSUME NEW t \in Slaves, SlaveSteps(t) PROVE LockTypes'
  BY <1>1, <1>4
     DEF SlaveSteps, AddSlaveSurface, RemoveSlaveSurface, Surfaces, SurfaceWaitEnds, CallSurface,
         LockTypes, lockVars
<1>5. CASE OtherSteps
  BY <1>1, <1>5
     DEF OtherSteps, PostPicture, CloseCaptures, ReleaseResource, CloseCamera, CallStart,
         StopPreview, CallPicture, LockTypes, lockVars
<1> QED  BY <1>2, <1>3, <1>4, <1>5, Steps

\* Every message that is sent is one the GL thread knows.
LEMMA QueueStep == IInv /\ Next => QueueTypes'
<1> SUFFICES ASSUME IInv, Next PROVE QueueTypes'
  OBVIOUS
<1>1. QueueTypes /\ quit \in BOOLEAN /\ behind \in BOOLEAN
  BY DEF IInv, Typed, QueueTypes
<1>2. ASSUME NEW m \in Messages, Send(<<m>>) PROVE QueueTypes'
  <2>1. queue' \in Seq(Messages) /\ quit' = quit
    BY <1>1, <1>2, SendOne
  <2>2. behind' \in BOOLEAN
    BY <1>2 DEF Send
  <2> QED  BY <1>1, <2>1, <2>2 DEF QueueTypes
<1>3. ASSUME Send(<<<<"size">>, <<"recreate">>>>) PROVE QueueTypes'
  <2>1. queue' \in Seq(Messages) /\ quit' = quit
    BY <1>1, <1>3, SendTwo
  <2>2. behind' \in BOOLEAN
    BY <1>3 DEF Send
  <2> QED  BY <1>1, <2>1, <2>2 DEF QueueTypes
<1>4. ASSUME NEW w, Handle(w), behind' = behind, quit' = quit \/ quit' = TRUE PROVE QueueTypes'
  BY <1>1, <1>4, HandleFacts DEF QueueTypes
<1>5. ASSUME UNCHANGED queueVars PROVE QueueTypes'
  BY <1>1, <1>5 DEF QueueTypes, queueVars
<1>6. ASSUME NEW t \in {"gl", "async"}, Starts(t) PROVE QueueTypes'
  <2>1. CASE AwaitSize(t)
    BY <1>3, <2>1 DEF AwaitSize, Await
  <2>2. CASE AwaitPrimary(t)
    BY <1>2, <2>2, MessageKinds DEF AwaitPrimary, Await
  <2>3. CASE UNCHANGED queueVars
    BY <1>5, <2>3
  <2> QED
    BY <1>6, <2>1, <2>2, <2>3
       DEF Starts, StartEnter, StartPrimary, Woken, StartRead, StartDisplay, StartFlag
<1>7. CASE GlSteps
  <2>1. CASE GlDrawFails
    BY <1>2, <2>1, MessageKinds DEF GlDrawFails
  <2>2. CASE GlRecreate \/ GlUpdateSize \/ GlSurface \/ GlPicture \/ GlRelease
    BY <1>4, <2>2 DEF GlRecreate, GlUpdateSize, GlSurface, GlPicture, GlRelease, Handled
  <2>3. CASE GlCreate \/ GlCallback \/ GlUnlock \/ GlEnds
    BY <1>5, <2>3 DEF GlCreate, GlCallback, GlUnlock, GlEnds
  <2> QED  BY <1>7, <2>1, <2>2, <2>3 DEF GlSteps
<1>8. ASSUME NEW t \in Slaves, SlaveSteps(t) PROVE QueueTypes'
  BY <1>2, <1>5, <1>8, MessageKinds
     DEF SlaveSteps, AddSlaveSurface, RemoveSlaveSurface, Surfaces, SurfaceWaitEnds, CallSurface
<1>9. CASE OtherSteps
  <2>1. CASE PostPicture \/ ReleaseResource
    BY <1>2, <2>1, MessageKinds DEF PostPicture, ReleaseResource
  <2>2. CASE CloseCaptures \/ CloseCamera \/ CallStart \/ StopPreview \/ CallPicture
    BY <1>5, <2>2 DEF CloseCaptures, CloseCamera, CallStart, StopPreview, CallPicture
  <2> QED  BY <1>9, <2>1, <2>2 DEF OtherSteps
<1> QED  BY <1>6, <1>7, <1>8, <1>9, Steps

\* The primary surface is null or the one made last.
LEMMA RenderStep == IInv /\ Next => RenderTypes'
<1> SUFFICES ASSUME IInv, Next PROVE RenderTypes'
  OBVIOUS
<1>1. RenderTypes /\ QueueTypes
  BY DEF IInv, Typed
<1>2. CASE UNCHANGED glVars
  BY <1>1, <1>2 DEF RenderTypes, glVars
<1>3. ASSUME NEW t \in {"gl", "async"}, Starts(t) PROVE UNCHANGED glVars
  BY <1>3
     DEF Starts, StartEnter, StartPrimary, AwaitSize, AwaitPrimary, Await, Woken, StartRead,
         StartDisplay, StartFlag
<1>4. CASE GlSteps
  <2>1. CASE GlSurface
    <3>1. ASSUME Handle("add") PROVE Head(queue)[2] \in Slaves
      BY <1>1, <3>1, HandleFacts, MessageKinds
    <3> QED  BY <1>1, <2>1, <3>1 DEF GlSurface, RenderTypes
  <2>2. CASE GlRecreate \/ GlCreate
    BY <1>1, <2>2 DEF GlRecreate, GlCreate, RenderTypes
  <2>4. CASE GlUpdateSize \/ GlRelease \/ GlDrawFails
    BY <1>1, <2>4 DEF GlUpdateSize, GlRelease, GlDrawFails, RenderTypes
  <2>3. CASE GlCallback \/ GlUnlock \/ GlPicture \/ GlEnds
    BY <1>2, <2>3 DEF GlCallback, GlUnlock, GlPicture, GlEnds
  <2> QED  BY <1>4, <2>1, <2>2, <2>3, <2>4 DEF GlSteps
<1>5. ASSUME NEW t \in Slaves, SlaveSteps(t) PROVE UNCHANGED glVars
  BY <1>5
     DEF SlaveSteps, AddSlaveSurface, RemoveSlaveSurface, Surfaces, SurfaceWaitEnds, CallSurface
<1>6. CASE OtherSteps
  BY <1>2, <1>6
     DEF OtherSteps, PostPicture, CloseCaptures, ReleaseResource, CloseCamera, CallStart,
         StopPreview, CallPicture
<1> QED  BY <1>2, <1>3, <1>4, <1>5, <1>6, Steps

\* The preview's window and the surface a start has read are surfaces that were made.
LEMMA CameraStep == IInv /\ Next => CameraTypes'
<1> SUFFICES ASSUME IInv, Next PROVE CameraTypes'
  OBVIOUS
<1>1. CameraTypes /\ RenderTypes
  BY DEF IInv, Typed
<1>2. made' = made \/ made' = made + 1
  <2>1. \/ UNCHANGED glVars \/ GlSteps
    BY Steps
       DEF Starts, StartEnter, StartPrimary, AwaitSize, AwaitPrimary, Await, Woken, StartRead,
           StartDisplay, StartFlag, SlaveSteps, AddSlaveSurface, RemoveSlaveSurface, Surfaces,
           SurfaceWaitEnds, CallSurface, OtherSteps, PostPicture, CloseCaptures,
           ReleaseResource, CloseCamera, CallStart, StopPreview, CallPicture
  <2> QED
    BY <2>1
       DEF glVars, GlSteps, GlRecreate, GlCreate, GlCallback, GlUnlock, GlUpdateSize, GlSurface,
           GlPicture, GlRelease, GlDrawFails, GlEnds
<1>3. /\ display \in 0..made' /\ surface \in [Threads -> 0..made'] /\ mPrimarySurface \in 0..made'
      /\ made' \in Nat
  <2>1. \A n \in 0..made : n \in 0..made'
    BY <1>1, <1>2 DEF RenderTypes
  <2> QED  BY <1>1, <1>2, <2>1 DEF CameraTypes, RenderTypes
<1>4. CASE UNCHANGED cameraVars
  BY <1>1, <1>3, <1>4 DEF CameraTypes, cameraVars
<1>5. ASSUME NEW t \in {"gl", "async"}, Starts(t) PROVE CameraTypes'
  <2>1. CASE StartRead(t) \/ StartDisplay(t) \/ StartFlag(t)
    <3>1. t \in Threads /\ surface[t] \in 0..made'
      BY <1>3 DEF Threads
    <3>2. CASE StartRead(t)
      BY <1>1, <1>3, <3>1, <3>2 DEF StartRead, CameraTypes
    <3>3. CASE StartDisplay(t)
      BY <1>1, <1>3, <3>1, <3>3 DEF StartDisplay, CameraTypes
    <3>4. CASE StartFlag(t)
      <4>1. 0 \in 0..made'
        BY <1>3
      <4> QED  BY <1>1, <1>3, <3>1, <3>4, <4>1 DEF StartFlag, CameraTypes
    <3> QED  BY <2>1, <3>2, <3>3, <3>4
  <2>2. CASE StartEnter(t) \/ StartPrimary(t) \/ AwaitSize(t) \/ AwaitPrimary(t) \/ Woken(t)
    BY <1>4, <2>2 DEF StartEnter, StartPrimary, AwaitSize, AwaitPrimary, Await, Woken
  <2> QED  BY <1>5, <2>1, <2>2 DEF Starts
<1>6. CASE GlSteps
  BY <1>4, <1>6
     DEF GlSteps, GlRecreate, GlCreate, GlCallback, GlUnlock, GlUpdateSize, GlSurface, GlPicture,
         GlRelease, GlDrawFails, GlEnds, Loop
<1>7. ASSUME NEW t \in Slaves, SlaveSteps(t) PROVE CameraTypes'
  BY <1>4, <1>7
     DEF SlaveSteps, AddSlaveSurface, RemoveSlaveSurface, Surfaces, SurfaceWaitEnds, CallSurface
<1>8. CASE OtherSteps
  <2>1. CASE CloseCaptures \/ ReleaseResource \/ CloseCamera \/ StopPreview
    BY <1>1, <1>3, <2>1 DEF CloseCaptures, ReleaseResource, CloseCamera, StopPreview, CameraTypes
  <2>2. CASE PostPicture \/ CallStart \/ CallPicture
    BY <1>4, <2>2 DEF PostPicture, CallStart, CallPicture
  <2> QED  BY <1>8, <2>1, <2>2 DEF OtherSteps
<1> QED  BY <1>5, <1>6, <1>7, <1>8, Steps

\* The history variables keep their types.
LEMMA HistoryStep == IInv /\ Next => HistoryTypes'
<1> SUFFICES ASSUME IInv, Next PROVE HistoryTypes'
  OBVIOUS
<1>1. HistoryTypes
  BY DEF IInv, Typed
<1>2. ASSUME NEW t \in {"gl", "async"}, Starts(t) PROVE HistoryTypes'
  BY <1>1, <1>2
     DEF Starts, StartEnter, StartPrimary, AwaitSize, AwaitPrimary, Await, Woken, StartRead,
         StartDisplay, StartFlag, HistoryTypes, clientVars
<1>3. CASE GlSteps
  BY <1>1, <1>3
     DEF GlSteps, GlRecreate, GlCreate, GlCallback, GlUnlock, GlUpdateSize, GlSurface, GlPicture,
         GlRelease, GlDrawFails, GlEnds, Loop, HistoryTypes, clientVars
<1>4. ASSUME NEW t \in Slaves, SlaveSteps(t) PROVE HistoryTypes'
  <2>1. /\ removed' \subseteq removed \cup {t} /\ picture' = picture /\ missed' = missed
        /\ cut' \in BOOLEAN
    BY <1>1, <1>4
       DEF SlaveSteps, AddSlaveSurface, RemoveSlaveSurface, Surfaces, SurfaceWaitEnds, CallSurface,
           HistoryTypes
  <2> QED  BY <1>1, <2>1 DEF HistoryTypes
<1>5. CASE OtherSteps
  BY <1>1, <1>5
     DEF OtherSteps, PostPicture, CloseCaptures, ReleaseResource, CloseCamera, CallStart,
         StopPreview, CallPicture, HistoryTypes, clientVars
<1> QED  BY <1>2, <1>3, <1>4, <1>5, Steps

-----------------------------------------------------------------------------
(* Locks, and the end of the camera. *)

\* Only the GL thread changes the primary surface, and only while it creates or releases.
LEMMA HeldStep == IInv /\ Next => Held'
<1> SUFFICES ASSUME IInv, Next PROVE Held'
  OBVIOUS
<1>1. Held /\ PlaceTypes /\ LockTypes /\ RenderTypes
  BY DEF IInv, Typed
<1>2. ASSUME NEW t \in {"gl", "async"}, Starts(t) PROVE Held'
  <2> USE DEF At, Held, Inside, PlaceTypes, GlPlaces, Threads, None
  <2>1. CASE StartEnter(t)
    <3>1. pc["gl"] = "start" => sizeSet
      BY DEF IInv, SizeFirst
    <3> QED  BY <1>1, <2>1, <3>1 DEF StartEnter, Return, glVars
  <2>2. CASE StartPrimary(t)
    BY <1>1, <2>2 DEF StartPrimary, glVars, lockVars
  <2>3. CASE AwaitSize(t) \/ AwaitPrimary(t)
    BY <1>1, <2>3 DEF AwaitSize, AwaitPrimary, Await, glVars, LockTypes
  <2>4. CASE Woken(t)
    BY <1>1, <2>4 DEF Woken, glVars, LockTypes
  <2>5. CASE StartRead(t) \/ StartDisplay(t)
    BY <1>1, <2>5 DEF StartRead, StartDisplay, glVars, lockVars
  <2>6. CASE StartFlag(t)
    BY <1>1, <2>6 DEF StartFlag, Return, glVars
  <2> QED  BY <1>2, <2>1, <2>2, <2>3, <2>4, <2>5, <2>6 DEF Starts
<1>3. CASE GlSteps
  <2> USE DEF At, Held, Inside, PlaceTypes, GlPlaces, Threads, None
  <2>1. CASE GlRecreate
    BY <1>1, <2>1 DEF GlRecreate
  <2>2. CASE GlCreate
    BY <1>1, <2>2 DEF GlCreate, RenderTypes
  <2>3. CASE GlCallback \/ GlUnlock
    BY <1>1, <2>3 DEF GlCallback, GlUnlock, lockVars, glVars
  <2>4. CASE GlUpdateSize \/ GlSurface \/ GlPicture \/ GlRelease \/ GlDrawFails
    BY <1>1, <2>4 DEF GlUpdateSize, GlSurface, GlPicture, GlRelease, GlDrawFails, Loop
  <2>5. CASE GlEnds
    BY <1>1, <2>5 DEF GlEnds, lockVars, glVars
  <2> QED  BY <1>3, <2>1, <2>2, <2>3, <2>4, <2>5 DEF GlSteps
<1>4. ASSUME NEW t \in Slaves, SlaveSteps(t) PROVE Held'
  <2>1. UNCHANGED <<camera, lock, awaiting, glVars>> /\ pc'["gl"] = pc["gl"]
    BY <1>1, <1>4
       DEF SlaveSteps, AddSlaveSurface, RemoveSlaveSurface, Surfaces, SurfaceWaitEnds, CallSurface,
           Call, At, lockVars, PlaceTypes, Threads, Slaves
  <2>2. pc'["async"] = pc["async"]
          \/ (pc["async"] \in SlavePlaces /\ pc'["async"] \in SlavePlaces)
    BY <1>1, <1>4
       DEF SlaveSteps, AddSlaveSurface, RemoveSlaveSurface, Surfaces, SurfaceWaitEnds, CallSurface,
           Call, At, PlaceTypes, Threads, Slaves, SlavePlaces
  <2> QED  BY <1>1, <2>1, <2>2 DEF Held, glVars, SlavePlaces, Inside
<1>5. CASE OtherSteps
  BY <1>1, <1>5
     DEF OtherSteps, PostPicture, CloseCaptures, ReleaseResource, CloseCamera, CallStart,
         StopPreview, CallPicture, Call, At, Held, Inside, PlaceTypes, GlPlaces, Threads, lockVars,
         glVars
<1> QED  BY <1>2, <1>3, <1>4, <1>5, Steps

\* The camera closes while nobody holds CameraInternal.class, and the release is sent
\* after that.
LEMMA ClosingStep == IInv /\ Next => Closing'
<1> SUFFICES ASSUME IInv, Next PROVE Closing'
  OBVIOUS
<1>1. Closing /\ PlaceTypes /\ LockTypes /\ QueueTypes /\ Held
  BY DEF IInv, Typed
<1>2. ASSUME NEW m \in Messages, m[1] # "release", Send(<<m>>)
      PROVE  quit' = quit /\ (Has("release")' => Has("release"))
  BY <1>1, <1>2, SendOne
<1>3. ASSUME UNCHANGED queueVars
      PROVE  quit' = quit /\ (Has("release")' => Has("release"))
  BY <1>3, SameQueue
<1>4. ASSUME NEW t \in {"gl", "async"}, Starts(t) PROVE Closing'
  <2>1. pc'["listener"] = pc["listener"]
    BY <1>1, <1>4
       DEF Starts, StartEnter, StartPrimary, AwaitSize, AwaitPrimary, Await, Woken, StartRead,
           StartDisplay, StartFlag, At, PlaceTypes, Threads
  <2>2. quit' = quit /\ (Has("release")' => Has("release"))
    <3>1. CASE AwaitSize(t)
      BY <1>1, <3>1, SendTwo DEF AwaitSize, Await
    <3>2. CASE AwaitPrimary(t)
      BY <1>2, <3>2, MessageKinds DEF AwaitPrimary, Await
    <3>3. CASE UNCHANGED queueVars
      BY <1>3, <3>3
    <3> QED
      BY <1>4, <3>1, <3>2, <3>3
         DEF Starts, StartEnter, StartPrimary, Woken, StartRead, StartDisplay, StartFlag
  <2>3. CASE StartEnter(t)
    BY <1>1, <2>1, <2>2, <2>3 DEF StartEnter, Closing, cameraVars, None
  <2>4. CASE StartDisplay(t)
    <3>1. camera # None
      BY <1>1, <2>4 DEF StartDisplay, At, Held, Inside, None
    <3> QED  BY <1>1, <2>1, <2>2, <2>4, <3>1 DEF StartDisplay, Closing, lockVars
  <2>5. CASE StartPrimary(t) \/ AwaitSize(t) \/ AwaitPrimary(t) \/ Woken(t) \/ StartRead(t)
               \/ StartFlag(t)
    BY <1>1, <2>1, <2>2, <2>5
       DEF StartPrimary, AwaitSize, AwaitPrimary, Await, Woken, StartRead, StartFlag, Closing,
           cameraVars, lockVars
  <2> QED  BY <1>4, <2>3, <2>4, <2>5 DEF Starts
<1>5. CASE GlSteps
  <2>1. /\ UNCHANGED <<cameraVars, camera>> /\ pc'["listener"] = pc["listener"]
    BY <1>1, <1>5
       DEF GlSteps, GlRecreate, GlCreate, GlCallback, GlUnlock, GlUpdateSize, GlSurface, GlPicture,
           GlRelease, GlDrawFails, GlEnds, Loop, At, lockVars, PlaceTypes, Threads
  <2>2. CASE GlRelease
    <3>1. Has("release")
      BY <1>1, <2>2, HandleFacts DEF GlRelease, Has
    <3> QED  BY <1>1, <2>1, <3>1 DEF Closing, cameraVars
  <2>3. CASE ~GlRelease
    <3>1. quit' = quit /\ (Has("release")' => Has("release"))
      <4>1. CASE GlDrawFails
        BY <1>2, <4>1, MessageKinds DEF GlDrawFails
      <4>2. CASE GlRecreate \/ GlUpdateSize \/ GlSurface \/ GlPicture
        BY <1>1, <4>2, HandleHas DEF GlRecreate, GlUpdateSize, GlSurface, GlPicture, Handled
      <4>3. CASE GlCreate \/ GlCallback \/ GlUnlock \/ GlEnds
        BY <1>3, <4>3 DEF GlCreate, GlCallback, GlUnlock, GlEnds
      <4> QED  BY <1>5, <2>3, <4>1, <4>2, <4>3 DEF GlSteps
    <3> QED  BY <1>1, <2>1, <3>1 DEF Closing, cameraVars
  <2> QED  BY <2>2, <2>3
<1>6. ASSUME NEW t \in Slaves, SlaveSteps(t) PROVE Closing'
  <2>1. UNCHANGED <<cameraVars, camera>> /\ pc'["listener"] = pc["listener"]
    BY <1>1, <1>6
       DEF SlaveSteps, AddSlaveSurface, RemoveSlaveSurface, Surfaces, SurfaceWaitEnds, CallSurface,
           Call, At, lockVars, PlaceTypes, Threads, Slaves
  <2>2. quit' = quit /\ (Has("release")' => Has("release"))
    BY <1>2, <1>3, <1>6, MessageKinds
       DEF SlaveSteps, AddSlaveSurface, RemoveSlaveSurface, Surfaces, SurfaceWaitEnds, CallSurface
  <2> QED  BY <1>1, <2>1, <2>2 DEF Closing, cameraVars
<1>7. CASE OtherSteps
  <2>1. CASE ReleaseResource
    BY <1>1, <2>1 DEF ReleaseResource, Closing, At, PlaceTypes, Threads, lockVars
  <2>2. CASE CloseCamera
    BY <1>1, <1>3, <2>2 DEF CloseCamera, Closing, At, PlaceTypes, Threads, lockVars
  <2>3. CASE CloseCaptures
    BY <1>1, <1>3, <2>3 DEF CloseCaptures, Closing, At, PlaceTypes, Threads, lockVars
  <2>4. CASE PostPicture
    <3>1. quit' = quit /\ (Has("release")' => Has("release"))
      BY <1>2, <2>4, MessageKinds DEF PostPicture
    <3> QED  BY <1>1, <2>4, <3>1 DEF PostPicture, Closing, At, PlaceTypes, Threads, lockVars, cameraVars
  <2>5. CASE CallStart \/ CallPicture \/ StopPreview
    <3>1. UNCHANGED <<camera, mUVCCamera, queueVars>> /\ pc'["listener"] = pc["listener"]
          /\ (streaming' => streaming)
      BY <1>1, <2>5 DEF CallStart, CallPicture, StopPreview, Call, At, PlaceTypes, Threads,
                        lockVars, cameraVars
    <3> QED  BY <1>1, <1>3, <3>1 DEF Closing
  <2> QED  BY <1>7, <2>1, <2>2, <2>3, <2>4, <2>5 DEF OtherSteps
<1> QED  BY <1>4, <1>5, <1>6, <1>7, Steps

-----------------------------------------------------------------------------
(* What is answered, and what is left at the end. *)

Handles == GlRecreate \/ GlUpdateSize \/ GlSurface \/ GlPicture \/ GlRelease

\* Every other step sends something or leaves the queue alone.
LEMMA Sending ==
  IInv /\ Next /\ ~Handles =>
    \/ UNCHANGED queueVars
    \/ Send(<<<<"size">>, <<"recreate">>>>) /\ AwaitSize("async")
    \/ Send(<<<<"recreate">>>>) /\ (AwaitPrimary("async") \/ GlDrawFails)
    \/ Send(<<<<"picture">>>>) /\ PostPicture
    \/ Send(<<<<"release">>>>) /\ ReleaseResource
    \/ \E t \in Slaves : \/ Send(<<<<"add", t>>>>) /\ AddSlaveSurface(t)
                         \/ Send(<<<<"remove", t>>>>) /\ RemoveSlaveSurface(t)
<1> SUFFICES ASSUME IInv, Next, ~Handles, ~UNCHANGED queueVars
    PROVE  \/ Send(<<<<"size">>, <<"recreate">>>>) /\ AwaitSize("async")
           \/ Send(<<<<"recreate">>>>) /\ (AwaitPrimary("async") \/ GlDrawFails)
           \/ Send(<<<<"picture">>>>) /\ PostPicture
           \/ Send(<<<<"release">>>>) /\ ReleaseResource
           \/ \E t \in Slaves : \/ Send(<<<<"add", t>>>>) /\ AddSlaveSurface(t)
                                \/ Send(<<<<"remove", t>>>>) /\ RemoveSlaveSurface(t)
  OBVIOUS
<1>1. ASSUME NEW t \in {"gl", "async"}, Starts(t)
      PROVE  \/ Send(<<<<"size">>, <<"recreate">>>>) /\ AwaitSize("async")
             \/ Send(<<<<"recreate">>>>) /\ AwaitPrimary("async")
  <2>1. pc["gl"] \notin {"lockSize", "lockPrimary"}
    BY DEF IInv, Typed, PlaceTypes, GlPlaces
  <2> QED
    BY <1>1, <2>1
       DEF Starts, StartEnter, StartPrimary, AwaitSize, AwaitPrimary, Await, Woken, StartRead,
           StartDisplay, StartFlag, At
<1>2. CASE GlSteps
  BY <1>2 DEF Handles, GlSteps, GlCreate, GlCallback, GlUnlock, GlEnds, GlDrawFails
<1>3. ASSUME NEW t \in Slaves, SlaveSteps(t)
      PROVE  \/ Send(<<<<"add", t>>>>) /\ AddSlaveSurface(t)
             \/ Send(<<<<"remove", t>>>>) /\ RemoveSlaveSurface(t)
  BY <1>3 DEF SlaveSteps, AddSlaveSurface, RemoveSlaveSurface, Surfaces, SurfaceWaitEnds, CallSurface
<1>4. CASE OtherSteps
  BY <1>4 DEF OtherSteps, PostPicture, CloseCaptures, ReleaseResource, CloseCamera, CallStart,
              StopPreview, CallPicture
<1> QED  BY <1>1, <1>2, <1>3, <1>4, Steps

\* So nothing is lost, and no message REQUEST_INIT is sent again.
LEMMA Grows ==
  IInv /\ Next /\ ~Handles =>
    /\ quit' = quit /\ (quit => queue' = queue)
    /\ \A k : Has(k) => Has(k)'
    /\ Has("init")' => Has("init")
<1> SUFFICES ASSUME IInv, Next, ~Handles
    PROVE  /\ quit' = quit /\ (quit => queue' = queue)
           /\ \A k : Has(k) => Has(k)'
           /\ Has("init")' => Has("init")
  OBVIOUS
<1>1. QueueTypes
  BY DEF IInv, Typed
<1>2. CASE UNCHANGED queueVars
  BY <1>2, SameQueue
<1>3. CASE Send(<<<<"size">>, <<"recreate">>>>)
  BY <1>1, <1>3, SendTwo
<1>4. ASSUME NEW m \in Messages, m[1] # "init", Send(<<m>>)
      PROVE  /\ quit' = quit /\ (quit => queue' = queue)
             /\ \A k : Has(k) => Has(k)'
             /\ Has("init")' => Has("init")
  BY <1>1, <1>4, SendOne
<1> QED  BY <1>2, <1>3, <1>4, Sending, MessageKinds

\* Whoever holds CameraInternal.class meets a looper that still takes messages.
LEMMA NotQuit == IInv /\ pc["async"] \in Inside => mUVCCamera /\ ~quit /\ ~Has("release")
BY DEF IInv, Held, Closing, None

\* Who awaits is answered by a message or a creation under way, a picture asked for is in
\* the queue, and the thread ends with its queue empty.
LEMMA AnsweredStep == IInv /\ Next => Answered'
<1> SUFFICES ASSUME IInv, Next PROVE Answered'
  OBVIOUS
<1>1. Answered /\ PlaceTypes /\ LockTypes /\ QueueTypes /\ QueueTypes'
  BY QueueStep DEF IInv, Typed
<1>2. awaiting' # {} => pc'["gl"] = "create" \/ Has("init")' \/ Has("recreate")'
  <2>1. CASE GlRecreate
    BY <1>1, <2>1 DEF GlRecreate, At, PlaceTypes, Threads
  <2>2. CASE GlUpdateSize \/ GlSurface \/ GlPicture \/ GlRelease
    BY <1>1, <2>2, HandleHas
       DEF GlUpdateSize, GlSurface, GlPicture, GlRelease, Loop, Answered
  <2>3. CASE ~Handles
    <3>1. Has("init") \/ Has("recreate") => Has("init")' \/ Has("recreate")'
      BY <2>3, Grows
    <3>2. CASE AwaitSize("async") \/ AwaitPrimary("async")
      <4>1. ~quit
        BY <3>2, NotQuit DEF AwaitSize, AwaitPrimary, Await, At, Inside
      <4>2. CASE AwaitSize("async")
        BY <1>1, <4>1, <4>2, SendTwo DEF AwaitSize, Await
      <4>3. CASE AwaitPrimary("async")
        BY <1>1, <4>1, <4>3, SendOne, MessageKinds DEF AwaitPrimary, Await
      <4> QED  BY <3>2, <4>2, <4>3
    <3>3. CASE GlCreate
      BY <3>3 DEF GlCreate
    <3>4. CASE ~AwaitSize("async") /\ ~AwaitPrimary("async") /\ ~GlCreate
      <4>1. awaiting' = awaiting
        <5>1. ~AwaitSize("gl") /\ ~AwaitPrimary("gl")
          BY <1>1 DEF AwaitSize, AwaitPrimary, Await, At, PlaceTypes, GlPlaces
        <5> QED
          BY <2>3, <3>4, <5>1, Steps
             DEF Handles, Starts, StartEnter, StartPrimary, Woken, StartRead, StartDisplay, StartFlag,
                 GlSteps, GlCallback, GlUnlock, GlDrawFails, GlEnds, Loop, SlaveSteps,
                 AddSlaveSurface, RemoveSlaveSurface, Surfaces, SurfaceWaitEnds, CallSurface, OtherSteps,
                 PostPicture, CloseCaptures, ReleaseResource, CloseCamera, CallStart, StopPreview,
                 CallPicture, lockVars
      <4>2. pc["gl"] = "create" => pc'["gl"] = "create"
        BY <1>1, <2>3, <3>4, Steps
           DEF Handles, Starts, StartEnter, StartPrimary, AwaitSize, AwaitPrimary, Await, Woken, StartRead,
               StartDisplay, StartFlag, GlSteps, GlCallback, GlUnlock, GlDrawFails, GlEnds, Loop, SlaveSteps,
               AddSlaveSurface, RemoveSlaveSurface, Surfaces, SurfaceWaitEnds, CallSurface, OtherSteps,
               PostPicture, CloseCaptures, ReleaseResource, CloseCamera, CallStart, StopPreview,
               CallPicture, Call, At, PlaceTypes, Threads, Slaves
      <4> QED  BY <1>1, <3>1, <4>1, <4>2 DEF Answered
    <3> QED  BY <3>2, <3>3, <3>4
  <2> QED  BY <2>1, <2>2, <2>3 DEF Handles
<1>3. picture' = "asked" => pc'["async"] = "picture" \/ Has("picture")'
  <2>1. CASE GlPicture
    BY <2>1 DEF GlPicture
  <2>2. CASE GlRecreate \/ GlUpdateSize \/ GlSurface \/ GlRelease
    <3>1. picture' = picture /\ pc'["async"] = pc["async"]
      BY <1>1, <2>2
         DEF GlRecreate, GlUpdateSize, GlSurface, GlRelease, Loop, At, PlaceTypes, Threads, clientVars
    <3>2. Has("picture") => Has("picture")'
      BY <1>1, <2>2, HandleHas DEF GlRecreate, GlUpdateSize, GlSurface, GlRelease
    <3> QED  BY <1>1, <3>1, <3>2 DEF Answered
  <2>3. CASE PostPicture
    <3>1. picture' = "asked" => ~quit
      BY <2>3 DEF PostPicture
    <3> QED  BY <1>1, <2>3, <3>1, SendOne, MessageKinds DEF PostPicture
  <2>4. CASE CallPicture
    BY <1>1, <2>4 DEF CallPicture, Call, At, PlaceTypes, Threads
  <2>5. CASE ~Handles /\ ~PostPicture /\ ~CallPicture
    <3>1. picture' = picture /\ (pc["async"] = "picture" => pc'["async"] = "picture")
      BY <1>1, <2>5, Steps
         DEF Handles, Starts, StartEnter, StartPrimary, AwaitSize, AwaitPrimary, Await, Woken, StartRead,
             StartDisplay, StartFlag, GlSteps, GlCreate, GlCallback, GlUnlock, GlDrawFails, GlEnds, Loop,
             SlaveSteps, AddSlaveSurface, RemoveSlaveSurface, Surfaces, SurfaceWaitEnds, CallSurface,
             OtherSteps, CloseCaptures, ReleaseResource, CloseCamera, CallStart, StopPreview,
             Call, At, PlaceTypes, Threads, Slaves, clientVars
    <3>2. Has("picture") => Has("picture")'
      BY <2>5, Grows
    <3> QED  BY <1>1, <3>1, <3>2 DEF Answered
  <2> QED  BY <2>1, <2>2, <2>3, <2>4, <2>5 DEF Handles
<1>4. pc'["gl"] = "ended" => quit' /\ queue' = <<>>
  <2>1. CASE Handles
    BY <1>1, <2>1 DEF Handles, GlRecreate, GlUpdateSize, GlSurface, GlPicture, GlRelease, Loop, At,
                      PlaceTypes, Threads
  <2>2. CASE GlEnds
    BY <2>2 DEF GlEnds, queueVars
  <2>3. CASE ~Handles /\ ~GlEnds
    <3>1. pc'["gl"] = "ended" => pc["gl"] = "ended"
      BY <1>1, <2>3, Steps
         DEF Handles, Starts, StartEnter, StartPrimary, AwaitSize, AwaitPrimary, Await, Woken, StartRead,
             StartDisplay, StartFlag, Return, GlSteps, GlCreate, GlCallback, GlUnlock, GlDrawFails, Loop,
             SlaveSteps, AddSlaveSurface, RemoveSlaveSurface, Surfaces, SurfaceWaitEnds, CallSurface,
             OtherSteps, PostPicture, CloseCaptures, ReleaseResource, CloseCamera, CallStart, StopPreview,
             CallPicture, Call, At, PlaceTypes, Threads, Slaves
    <3> QED  BY <1>1, <2>3, <3>1, Grows DEF Answered
  <2> QED  BY <2>1, <2>2, <2>3
<1> QED  BY <1>2, <1>3, <1>4 DEF Answered

\* As long as nothing was sent behind it, the release is the last message.
LEMMA ReleasedStep == IInv /\ Next => Released'
<1> SUFFICES ASSUME IInv, Next, ~behind'
    PROVE  /\ \A i \in 1..Len(queue') : queue'[i][1] = "release" => i = Len(queue')
           /\ quit' => /\ queue' = <<>> /\ mPrimarySurface' = 0 /\ mSlaveSurfaces' = {}
                       /\ pc'["gl"] \in {"loop", "ended"}
  BY DEF Released
<1>1. Released /\ PlaceTypes /\ QueueTypes /\ QueueTypes' /\ PlaceTypes'
  BY QueueStep, PlacesStep DEF IInv, Typed
<1>2. CASE Handles
  <2>1. PICK w \in {"init", "recreate", "size", "add", "remove", "picture", "release"} : Handle(w)
    BY <1>2 DEF Handles, GlRecreate, GlUpdateSize, GlSurface, GlPicture, GlRelease
  <2>2. /\ Len(queue') = Len(queue) - 1 /\ Len(queue) \in Nat \ {0} /\ queue[1][1] = w
        /\ \A i \in 1..Len(queue') : queue'[i] = queue[i + 1]
    BY <1>1, <2>1, HandleFacts
  <2>3. behind' = behind
    BY <1>2 DEF Handles, GlRecreate, GlUpdateSize, GlSurface, GlPicture, GlRelease, Handled
  <2>4. ~quit /\ \A i \in 1..Len(queue) : queue[i][1] = "release" => i = Len(queue)
    <3>1. queue # <<>>
      BY <2>1 DEF Handle
    <3> QED  BY <1>1, <2>3, <3>1 DEF Released
  <2>5. \A i \in 1..Len(queue') : queue'[i][1] = "release" => i = Len(queue')
    BY <2>2, <2>4
  <2>6. CASE GlRelease
    <3>1. queue[1][1] = "release"
      BY <1>1, <2>6, HandleFacts DEF GlRelease
    <3>2. Len(queue) = 1
      BY <2>2, <2>4, <3>1
    <3>3. queue' = <<>>
      BY <1>1, <2>2, <3>2, EmptySeq DEF QueueTypes
    <3> QED  BY <2>5, <2>6, <3>3 DEF GlRelease, Loop
  <2>7. CASE ~GlRelease
    <3>1. quit' = quit
      BY <1>2, <2>7 DEF Handles, GlRecreate, GlUpdateSize, GlSurface, GlPicture, Handled
    <3> QED  BY <2>4, <2>5, <3>1
  <2> QED  BY <2>6, <2>7
<1>3. CASE ~Handles
  <2>1. quit' = quit /\ (quit => queue' = queue)
    BY <1>3, Grows
  <2>2. behind' = FALSE /\ behind = FALSE
    BY <1>1, <1>3, Sending DEF Send, queueVars, QueueTypes
  <2>3. \A i \in 1..Len(queue') : queue'[i][1] = "release" => i = Len(queue')
    <3>1. CASE UNCHANGED queueVars
      BY <1>1, <2>2, <3>1 DEF queueVars, Released
    <3>2. CASE quit
      BY <1>1, <2>1, <2>2, <3>2 DEF Released
    <3>3. ASSUME ~quit, NEW ms, Send(ms)
          PROVE  \A i \in 1..Len(queue) : queue[i][1] # "release"
      <4>1. ~Contains(queue, <<"release">>)
        BY <2>2, <3>3 DEF Send
      <4>2. \A i \in 1..Len(queue) : queue[i] \in Messages
        BY <1>1 DEF QueueTypes
      <4> QED  BY <4>1, <4>2, MessageKinds DEF Contains
    <3>4. CASE ~quit /\ Send(<<<<"size">>, <<"recreate">>>>)
      <4>1. /\ Len(queue) \in Nat /\ Len(queue') = Len(queue) + 2
            /\ queue'[Len(queue) + 1] = <<"size">> /\ queue'[Len(queue) + 2] = <<"recreate">>
            /\ \A i \in 1..Len(queue) : queue'[i] = queue[i]
        BY <1>1, <3>4, SendTwo, LenProperties DEF QueueTypes
      <4>2. <<"size">>[1] # "release" /\ <<"recreate">>[1] # "release"
        BY MessageKinds
      <4> QED  BY <3>3, <3>4, <4>1, <4>2
    <3>5. ASSUME ~quit, NEW m \in Messages, Send(<<m>>)
          PROVE  \A i \in 1..Len(queue') : queue'[i][1] = "release" => i = Len(queue')
      <4>1. /\ Len(queue) \in Nat /\ Len(queue') = Len(queue) + 1
            /\ \A i \in 1..Len(queue) : queue'[i] = queue[i]
        BY <1>1, <3>5, SendOne, LenProperties DEF QueueTypes
      <4> QED  BY <3>3, <3>5, <4>1
    <3> QED  BY <1>3, <3>1, <3>2, <3>4, <3>5, Sending, MessageKinds
  <2>4. CASE quit
    <3>1. /\ queue = <<>> /\ mPrimarySurface = 0 /\ mSlaveSurfaces = {}
          /\ pc["gl"] \in {"loop", "ended"}
      BY <1>1, <2>2, <2>4 DEF Released
    <3>2. pc'["gl"] \in {"loop", "ended"} /\ mPrimarySurface' = 0 /\ mSlaveSurfaces' = {}
      BY <1>1, <1>3, <3>1, Steps
         DEF Handles, Starts, StartEnter, StartPrimary, AwaitSize, AwaitPrimary, Await, Woken, StartRead,
             StartDisplay, StartFlag, GlSteps, GlCreate, GlCallback, GlUnlock, GlDrawFails, GlEnds,
             Loop, SlaveSteps, AddSlaveSurface, RemoveSlaveSurface, Surfaces, SurfaceWaitEnds,
             CallSurface, OtherSteps, PostPicture, CloseCaptures, ReleaseResource, CloseCamera,
             CallStart, StopPreview, CallPicture, Call, At, PlaceTypes, Threads, Slaves, glVars
    <3> QED  BY <2>1, <2>3, <2>4, <3>1, <3>2
  <2> QED  BY <2>1, <2>3, <2>4
<1> QED  BY <1>2, <1>3

\* Messages about surfaces wait for the thread that sent them, and it for them.
LEMMA GoneStep == IInv /\ Next => Gone'
<1> SUFFICES ASSUME IInv, Next, ~cut', NEW s \in Slaves
    PROVE  /\ Contains(queue', <<"add", s>>) => pc'[s] = "addWait"
           /\ Contains(queue', <<"remove", s>>) => pc'[s] = "removeWait"
           /\ pc'[s] = "removeWait" /\ ~Contains(queue', <<"remove", s>>) => s \notin mSlaveSurfaces'
           /\ s \in removed' => /\ s \notin mSlaveSurfaces'
                                /\ pc'[s] \notin {"add", "addWait", "remove", "removeWait"}
  BY DEF Gone
<1> DEFINE Goal ==
      /\ Contains(queue', <<"add", s>>) => pc'[s] = "addWait"
      /\ Contains(queue', <<"remove", s>>) => pc'[s] = "removeWait"
      /\ pc'[s] = "removeWait" /\ ~Contains(queue', <<"remove", s>>) => s \notin mSlaveSurfaces'
      /\ s \in removed' => /\ s \notin mSlaveSurfaces'
                           /\ pc'[s] \notin {"add", "addWait", "remove", "removeWait"}
<1>1. PlaceTypes /\ QueueTypes /\ RenderTypes /\ HistoryTypes
  BY DEF IInv, Typed
<1>2. ~cut
  BY <1>1, Steps
     DEF Starts, StartEnter, StartPrimary, AwaitSize, AwaitPrimary, Await, Woken, StartRead,
         StartDisplay, StartFlag, GlSteps, GlRecreate, GlCreate, GlCallback, GlUnlock, GlUpdateSize,
         GlSurface, GlPicture, GlRelease, GlDrawFails, GlEnds, Loop, SlaveSteps, AddSlaveSurface,
         RemoveSlaveSurface, Surfaces, SurfaceWaitEnds, CallSurface, OtherSteps, PostPicture,
         CloseCaptures, ReleaseResource, CloseCamera, CallStart, StopPreview, CallPicture,
         HistoryTypes
<1>3. /\ Contains(queue, <<"add", s>>) => pc[s] = "addWait"
      /\ Contains(queue, <<"remove", s>>) => pc[s] = "removeWait"
      /\ pc[s] = "removeWait" /\ ~Contains(queue, <<"remove", s>>) => s \notin mSlaveSurfaces
      /\ s \in removed => /\ s \notin mSlaveSurfaces
                          /\ pc[s] \notin {"add", "addWait", "remove", "removeWait"}
  BY <1>2 DEF IInv, Gone
<1>4. <<"add", s>> # <<"remove", s>> /\ \A k \in {"init", "size", "recreate", "picture", "release"} :
        <<k>> # <<"add", s>> /\ <<k>> # <<"remove", s>>
  BY SurfaceMessages
<1>5. CASE GlSurface
  <2>1. UNCHANGED <<pc, removed>>
    BY <1>5 DEF GlSurface, Loop
  <2>2. CASE Handle("add") /\ mSlaveSurfaces' \in {mSlaveSurfaces, mSlaveSurfaces \cup {Head(queue)[2]}}
    <3>1. /\ queue[1] = <<"add", queue[1][2]>> /\ queue[1] = Head(queue) /\ queue[1][2] \in Slaves
          /\ Len(queue) \in Nat \ {0}
      BY <1>1, <2>2, HandleFacts, MessageKinds
    <3>2. /\ Contains(queue', <<"add", s>>) => Contains(queue, <<"add", s>>)
          /\ Contains(queue', <<"remove", s>>) <=> Contains(queue, <<"remove", s>>)
      BY <1>1, <2>2, <3>1, HandleContains, SurfaceMessages
    <3>3. s \in mSlaveSurfaces' /\ s \notin mSlaveSurfaces => pc[s] = "addWait"
      <4>1. s \in mSlaveSurfaces' /\ s \notin mSlaveSurfaces => queue[1] = <<"add", s>>
        BY <2>2, <3>1
      <4>2. queue[1] = <<"add", s>> => Contains(queue, <<"add", s>>)
        BY <3>1 DEF Contains
      <4> QED  BY <1>3, <4>1, <4>2
    <3> QED  BY <1>3, <2>1, <3>2, <3>3
  <2>3. CASE Handle("remove") /\ mSlaveSurfaces' = mSlaveSurfaces \ {Head(queue)[2]}
    <3>1. /\ queue[1] = <<"remove", queue[1][2]>> /\ queue[1] = Head(queue) /\ queue[1][2] \in Slaves
      BY <1>1, <2>3, HandleFacts, MessageKinds
    <3>2. /\ Contains(queue', <<"add", s>>) => Contains(queue, <<"add", s>>)
          /\ Contains(queue', <<"remove", s>>) => Contains(queue, <<"remove", s>>)
          /\ Contains(queue, <<"remove", s>>) =>
               Contains(queue', <<"remove", s>>) \/ queue[1] = <<"remove", s>>
      BY <1>1, <2>3, HandleContains
    <3>3. queue[1] = <<"remove", s>> => s \notin mSlaveSurfaces'
      BY <2>3, <3>1, SurfaceMessages
    <3> QED  BY <1>3, <2>1, <2>3, <3>2, <3>3
  <2> QED  BY <1>5, <2>2, <2>3 DEF GlSurface
<1>6. CASE GlRecreate \/ GlUpdateSize \/ GlPicture \/ GlRelease
  <2>1. /\ pc'[s] = pc[s] /\ removed' = removed
        /\ mSlaveSurfaces' = mSlaveSurfaces \/ mSlaveSurfaces' = {}
    <3>1. CASE GlRecreate
      BY <1>1, <3>1 DEF GlRecreate, At, PlaceTypes, Threads, Slaves, clientVars
    <3>2. CASE GlUpdateSize \/ GlPicture \/ GlRelease
      BY <3>2 DEF GlUpdateSize, GlPicture, GlRelease, Loop, glVars
    <3> QED  BY <1>6, <3>1, <3>2
  <2>2. PICK w \in {"init", "recreate", "size", "picture", "release"} : Handle(w)
    BY <1>6 DEF GlRecreate, GlUpdateSize, GlPicture, GlRelease
  <2>3. queue[1] = <<w>>
    BY <1>1, <2>2, HandleFacts, MessageKinds
  <2>4. /\ Contains(queue', <<"add", s>>) => Contains(queue, <<"add", s>>)
        /\ Contains(queue', <<"remove", s>>) <=> Contains(queue, <<"remove", s>>)
    BY <1>1, <1>4, <2>2, <2>3, HandleContains
  <2> QED  BY <1>3, <2>1, <2>4
<1>7. ASSUME NEW t \in Slaves, SlaveSteps(t) PROVE Goal
  <2>1. UNCHANGED mSlaveSurfaces
    BY <1>7 DEF SlaveSteps, AddSlaveSurface, RemoveSlaveSurface, Surfaces, SurfaceWaitEnds, CallSurface,
                glVars
  <2>2. t \in Threads /\ s \in Threads
    BY DEF Slaves, Threads
  <2>3. CASE AddSlaveSurface(t)
    <3>1. CASE t \notin mSlaveSurfaces
      <4>1. /\ pc[t] = "add" /\ pc' = [pc EXCEPT ![t] = "addWait"] /\ Send(<<<<"add", t>>>>)
            /\ removed' = removed
        BY <2>3, <3>1 DEF AddSlaveSurface, Surfaces
      <4>2. \A n : Contains(queue', n) => Contains(queue, n) \/ n = <<"add", t>>
        BY <1>1, <4>1, SendOne, MessageKinds
      <4>3. Contains(queue, <<"remove", s>>) => Contains(queue', <<"remove", s>>)
        BY <1>1, <4>1, SendOne, MessageKinds
      <4> QED  BY <1>1, <1>3, <2>1, <2>2, <4>1, <4>2, <4>3, SurfaceMessages DEF PlaceTypes
    <3>2. CASE t \in mSlaveSurfaces
      <4>1. /\ pc[t] = "add" /\ pc' = [pc EXCEPT ![t] = "idle"] /\ UNCHANGED queueVars
            /\ removed' = removed
        BY <2>3, <3>2 DEF AddSlaveSurface, Surfaces
      <4> QED  BY <1>1, <1>3, <2>1, <2>2, <4>1 DEF PlaceTypes, queueVars
    <3> QED  BY <3>1, <3>2
  <2>4. CASE RemoveSlaveSurface(t)
    <3>1. CASE t \in mSlaveSurfaces
      <4>1. /\ pc[t] = "remove" /\ pc' = [pc EXCEPT ![t] = "removeWait"] /\ Send(<<<<"remove", t>>>>)
            /\ removed' = removed /\ ~quit
        BY <2>4, <3>1 DEF RemoveSlaveSurface, Surfaces
      <4>2. /\ \A n : Contains(queue', n) <=> Contains(queue, n) \/ n = <<"remove", t>>
        BY <1>1, <4>1, SendOne, MessageKinds
      <4> QED  BY <1>1, <1>3, <2>1, <2>2, <4>1, <4>2, SurfaceMessages DEF PlaceTypes
    <3>2. CASE t \notin mSlaveSurfaces
      <4>1. /\ pc[t] = "remove" /\ pc' = [pc EXCEPT ![t] = "idle"] /\ UNCHANGED queueVars
            /\ removed' = removed \cup {t}
        BY <2>4, <3>2 DEF RemoveSlaveSurface, Surfaces
      <4> QED  BY <1>1, <1>3, <2>1, <2>2, <3>2, <4>1 DEF PlaceTypes, queueVars
    <3> QED  BY <3>1, <3>2
  <2>5. CASE SurfaceWaitEnds(t)
    <3>1. /\ \/ pc[t] = "addWait" /\ removed' = removed
             \/ pc[t] = "removeWait" /\ removed' = removed \cup {t}
          /\ pc' = [pc EXCEPT ![t] = "idle"] /\ queue' = queue
          /\ ~Contains(queue, <<"add", t>>) /\ ~Contains(queue, <<"remove", t>>)
      BY <2>5 DEF SurfaceWaitEnds, At, queueVars
    <3> QED  BY <1>1, <1>3, <2>1, <2>2, <3>1 DEF PlaceTypes
  <2>6. CASE CallSurface(t)
    <3>1. /\ pc[t] = "idle" /\ removed' = removed \ {t} /\ queue' = queue
          /\ \E l \in {"add", "remove"} : pc' = [pc EXCEPT ![t] = l]
      BY <2>6 DEF CallSurface, Call, At, queueVars
    <3> QED  BY <1>1, <1>3, <2>1, <2>2, <3>1 DEF PlaceTypes
  <2> QED  BY <1>7, <2>3, <2>4, <2>5, <2>6 DEF SlaveSteps
<1>8. CASE ~Handles /\ \A t \in Slaves : ~SlaveSteps(t)
  <2>1. /\ UNCHANGED <<mSlaveSurfaces, removed>>
        /\ \/ pc'[s] = pc[s]
           \/ /\ pc[s] \notin {"add", "addWait", "remove", "removeWait"}
              /\ pc'[s] \notin {"add", "addWait", "remove", "removeWait"}
    BY <1>1, <1>8, Steps
       DEF Handles, Starts, StartEnter, StartPrimary, AwaitSize, AwaitPrimary, Await, Woken, StartRead,
           StartDisplay, StartFlag, Return, GlSteps, GlCreate, GlCallback, GlUnlock, GlDrawFails, GlEnds,
           Loop, OtherSteps, PostPicture, CloseCaptures, ReleaseResource, CloseCamera,
           CallStart, StopPreview, CallPicture, Call, At, PlaceTypes, Threads, Slaves, glVars, clientVars
  <2>2. /\ Contains(queue', <<"add", s>>) <=> Contains(queue, <<"add", s>>)
        /\ Contains(queue', <<"remove", s>>) <=> Contains(queue, <<"remove", s>>)
    <3>1. CASE UNCHANGED queueVars
      BY <3>1 DEF queueVars
    <3>2. CASE Send(<<<<"size">>, <<"recreate">>>>)
      BY <1>1, <1>4, <3>2, SendTwo
    <3>3. ASSUME NEW k \in {"recreate", "picture", "release"}, Send(<<<<k>>>>)
          PROVE  /\ Contains(queue', <<"add", s>>) <=> Contains(queue, <<"add", s>>)
                 /\ Contains(queue', <<"remove", s>>) <=> Contains(queue, <<"remove", s>>)
      <4>1. <<k>> \in Messages
        BY MessageKinds
      <4> QED  BY <1>1, <1>4, <3>3, <4>1, SendOne
    <3> QED  BY <1>8, <3>1, <3>2, <3>3, Sending DEF SlaveSteps
  <2> QED  BY <1>3, <2>1, <2>2
<1> QED  BY <1>5, <1>6, <1>7, <1>8 DEF Handles

-----------------------------------------------------------------------------
(* The size comes first, so the GL thread never awaits. *)

\* REQUEST_INIT is the first message, and gone once it is handled.
LEMMA InitFirst ==
  IInv /\ Next =>
    /\ \A i \in 1..Len(queue') : queue'[i][1] = "init" => i = 1
    /\ pc'["gl"] # "loop" => ~Has("init")'
<1> SUFFICES ASSUME IInv, Next
    PROVE  /\ \A i \in 1..Len(queue') : queue'[i][1] = "init" => i = 1
           /\ pc'["gl"] # "loop" => ~Has("init")'
  OBVIOUS
<1>1. /\ \A i \in 1..Len(queue) : queue[i][1] = "init" => i = 1
      /\ pc["gl"] # "loop" => ~Has("init")
      /\ PlaceTypes /\ QueueTypes
  BY DEF IInv, SizeFirst, Typed
<1>2. CASE Handles
  <2>1. PICK w : Handle(w)
    BY <1>2 DEF Handles, GlRecreate, GlUpdateSize, GlSurface, GlPicture, GlRelease
  <2>2. /\ Len(queue') = Len(queue) - 1 /\ Len(queue) \in Nat \ {0}
        /\ \A i \in 1..Len(queue') : queue'[i] = queue[i + 1]
    BY <1>1, <2>1, HandleFacts
  <2>3. \A i \in 1..Len(queue') : queue'[i][1] # "init"
    <3>1. \A i \in 1..Len(queue') : i + 1 \in 1..Len(queue) /\ i + 1 # 1
      BY <2>2
    <3> QED  BY <1>1, <2>2, <3>1
  <2> QED  BY <2>3 DEF Has
<1>3. CASE ~Handles
  <2>1. Has("init")' => Has("init")
    BY <1>3, Grows
  <2>2. pc'["gl"] # "loop" => ~Has("init")
    <3>1. pc["gl"] = "loop" /\ pc'["gl"] # "loop" => queue = <<>>
      BY <1>1, <1>3, Steps
         DEF Handles, Starts, StartEnter, StartPrimary, AwaitSize, AwaitPrimary, Await, Woken, StartRead,
             StartDisplay, StartFlag, Return, GlSteps, GlCreate, GlCallback, GlUnlock, GlDrawFails, GlEnds,
             Loop, SlaveSteps, AddSlaveSurface, RemoveSlaveSurface, Surfaces, SurfaceWaitEnds,
             CallSurface, OtherSteps, PostPicture, CloseCaptures, ReleaseResource, CloseCamera,
             CallStart, StopPreview, CallPicture, Call, At, PlaceTypes, Threads, Slaves
    <3>2. queue = <<>> => ~Has("init")
      BY DEF Has
    <3> QED  BY <1>1, <3>1, <3>2
  <2>3. \A i \in 1..Len(queue') : queue'[i][1] = "init" => i = 1
    <3>1. CASE UNCHANGED queueVars
      BY <1>1, <3>1 DEF queueVars
    <3>2. CASE Send(<<<<"size">>, <<"recreate">>>>)
      <4>1. <<"size">>[1] # "init" /\ <<"recreate">>[1] # "init"
        BY MessageKinds
      <4> QED  BY <1>1, <3>2, <4>1, SendTwo, LenProperties DEF QueueTypes
    <3>3. ASSUME NEW m \in Messages, m[1] # "init", Send(<<m>>)
          PROVE  \A i \in 1..Len(queue') : queue'[i][1] = "init" => i = 1
      BY <1>1, <3>3, SendOne, LenProperties DEF QueueTypes
    <3> QED  BY <1>3, <3>1, <3>2, <3>3, Sending, MessageKinds
  <2> QED  BY <2>1, <2>2, <2>3
<1> QED  BY <1>2, <1>3

\* Before the size is known, every creation in the queue comes after it.
LEMMA RecreateAfterSize ==
  IInv /\ Next /\ ~sizeSet' =>
    \A i \in 1..Len(queue') : queue'[i][1] = "recreate" =>
      \E j \in 1..Len(queue') : j < i /\ queue'[j][1] = "size"
<1> SUFFICES ASSUME IInv, Next, ~sizeSet'
    PROVE  \A i \in 1..Len(queue') : queue'[i][1] = "recreate" =>
             \E j \in 1..Len(queue') : j < i /\ queue'[j][1] = "size"
  OBVIOUS
<1>1. ~sizeSet /\ QueueTypes /\ RenderTypes
  <2>1. sizeSet => sizeSet'
    BY Steps
       DEF Starts, StartEnter, StartPrimary, AwaitSize, AwaitPrimary, Await, Woken, StartRead,
           StartDisplay, StartFlag, GlSteps, GlRecreate, GlCreate, GlCallback, GlUnlock, GlUpdateSize,
           GlSurface, GlPicture, GlRelease, GlDrawFails, GlEnds, Loop, SlaveSteps, AddSlaveSurface,
           RemoveSlaveSurface, Surfaces, SurfaceWaitEnds, CallSurface, OtherSteps, PostPicture,
           CloseCaptures, ReleaseResource, CloseCamera, CallStart, StopPreview, CallPicture, glVars
  <2> QED  BY <2>1 DEF IInv, Typed
<1>2. \A i \in 1..Len(queue) : queue[i][1] = "recreate" =>
        \E j \in 1..Len(queue) : j < i /\ queue[j][1] = "size"
  BY <1>1 DEF IInv, SizeFirst
<1>3. CASE Handles
  <2>1. PICK w \in {"init", "recreate", "add", "remove", "picture", "release"} : Handle(w)
    BY <1>3 DEF Handles, GlRecreate, GlUpdateSize, GlSurface, GlPicture, GlRelease
  <2>2. /\ Len(queue') = Len(queue) - 1 /\ Len(queue) \in Nat \ {0} /\ queue[1][1] # "size"
        /\ \A i \in 1..Len(queue') : queue'[i] = queue[i + 1]
    BY <1>1, <2>1, HandleFacts
  <2>3. ASSUME NEW i \in 1..Len(queue'), queue'[i][1] = "recreate"
        PROVE  \E j \in 1..Len(queue') : j < i /\ queue'[j][1] = "size"
    <3>1. i + 1 \in 1..Len(queue) /\ queue[i + 1][1] = "recreate"
      BY <2>2, <2>3
    <3>2. PICK j \in 1..Len(queue) : j < i + 1 /\ queue[j][1] = "size"
      BY <1>2, <3>1
    <3>3. j # 1
      BY <2>2, <3>2
    <3>4. j - 1 \in 1..Len(queue') /\ j - 1 < i /\ queue'[j - 1] = queue[j]
      BY <2>2, <3>2, <3>3
    <3> QED  BY <3>2, <3>4
  <2> QED  BY <2>3
<1>4. CASE ~Handles
  <2>1. CASE UNCHANGED queueVars \/ quit
    BY <1>2, <1>4, <2>1, Grows DEF queueVars
  <2>2. CASE ~quit /\ Send(<<<<"size">>, <<"recreate">>>>)
    <3>1. /\ Len(queue') = Len(queue) + 2 /\ Len(queue) \in Nat
          /\ queue'[Len(queue) + 1] = <<"size">>
          /\ queue'[Len(queue) + 2] = <<"recreate">>
          /\ \A i \in 1..Len(queue) : queue'[i] = queue[i]
      BY <1>1, <2>2, SendTwo, LenProperties DEF QueueTypes
    <3>2. ASSUME NEW i \in 1..Len(queue'), queue'[i][1] = "recreate"
          PROVE  \E j \in 1..Len(queue') : j < i /\ queue'[j][1] = "size"
      <4>1. CASE i \in 1..Len(queue)
        <5>1. PICK j \in 1..Len(queue) : j < i /\ queue[j][1] = "size"
          BY <1>2, <3>1, <3>2, <4>1
        <5> QED  BY <3>1, <5>1
      <4>2. CASE i = Len(queue) + 1
        BY <3>1, <3>2, <4>2, MessageKinds
      <4>3. CASE i = Len(queue) + 2
        <5>1. Len(queue) + 1 \in 1..Len(queue') /\ Len(queue) + 1 < i
          BY <3>1, <4>3
        <5>2. queue'[Len(queue) + 1][1] = "size"
          BY <3>1, MessageKinds
        <5> QED  BY <5>1, <5>2
      <4> QED  BY <3>1, <4>1, <4>2, <4>3
    <3> QED  BY <3>2
  <2>3. ASSUME ~quit, NEW m \in Messages, Send(<<m>>), m[1] = "recreate" => Has("size")
        PROVE  \A i \in 1..Len(queue') : queue'[i][1] = "recreate" =>
                 \E j \in 1..Len(queue') : j < i /\ queue'[j][1] = "size"
    <3>1. /\ Len(queue') = Len(queue) + 1 /\ Len(queue) \in Nat /\ queue'[Len(queue) + 1] = m
          /\ \A i \in 1..Len(queue) : queue'[i] = queue[i]
      BY <1>1, <2>3, SendOne, LenProperties DEF QueueTypes
    <3>2. ASSUME NEW i \in 1..Len(queue'), queue'[i][1] = "recreate"
          PROVE  \E j \in 1..Len(queue') : j < i /\ queue'[j][1] = "size"
      <4>1. CASE i \in 1..Len(queue)
        <5>1. PICK j \in 1..Len(queue) : j < i /\ queue[j][1] = "size"
          BY <1>2, <3>1, <3>2, <4>1
        <5> QED  BY <3>1, <5>1
      <4>2. CASE i = Len(queue) + 1
        <5>1. PICK j \in 1..Len(queue) : queue[j][1] = "size"
          BY <2>3, <3>1, <3>2, <4>2 DEF Has
        <5> QED  BY <3>1, <4>2, <5>1
      <4> QED  BY <3>1, <4>1, <4>2
    <3> QED  BY <3>2
  <2>4. AwaitPrimary("async") \/ GlDrawFails => Has("size")
    BY <1>1 DEF IInv, SizeFirst, AwaitPrimary, Await, At, GlDrawFails, Past
  <2> QED  BY <1>4, <2>1, <2>2, <2>3, <2>4, Sending, MessageKinds
<1> QED  BY <1>3, <1>4

\* A size is noted before the creation that was sent after it.
LEMMA SizeStep == IInv /\ Next => SizeFirst'
<1> SUFFICES ASSUME IInv, Next PROVE SizeFirst'
  OBVIOUS
<1>1. SizeFirst /\ Held /\ PlaceTypes /\ LockTypes /\ QueueTypes /\ RenderTypes
  BY DEF IInv, Typed
<1>2. sizeSet => sizeSet'
  BY Steps
     DEF Starts, StartEnter, StartPrimary, AwaitSize, AwaitPrimary, Await, Woken, StartRead,
         StartDisplay, StartFlag, GlSteps, GlRecreate, GlCreate, GlCallback, GlUnlock, GlUpdateSize,
         GlSurface, GlPicture, GlRelease, GlDrawFails, GlEnds, Loop, SlaveSteps, AddSlaveSurface,
         RemoveSlaveSurface, Surfaces, SurfaceWaitEnds, CallSurface, OtherSteps, PostPicture,
         CloseCaptures, ReleaseResource, CloseCamera, CallStart, StopPreview, CallPicture, glVars
<1> DEFINE Busy == pc["gl"] \notin {"loop", "ended"} \/ Has("init")
           Asks == streaming \/ mIsPreviewing \/ pc["async"] \in Past \cup {"awaitSize"}
           Quiet == ~mIsPreviewing /\ ~streaming /\ pc["async"] \notin Past
<1>3. ~sizeSet => /\ Busy => Quiet
                  /\ pc["async"] = "awaitSize" /\ awaiting = {} => ~Has("init")
                  /\ Asks => Has("size")
  BY <1>1 DEF SizeFirst
<1>4. pc["gl"] # "loop" => ~Has("init")
  BY <1>1 DEF SizeFirst
<1>5. ASSUME ~sizeSet'
      PROVE  /\ Busy' => Quiet'
             /\ pc'["async"] = "awaitSize" /\ awaiting' = {} => ~Has("init")'
             /\ Asks' => Has("size")'
  <2>1. ~sizeSet
    BY <1>2, <1>5
  <2>2. pc["gl"] \notin {"start"} \cup Inside
    BY <1>1, <2>1 DEF SizeFirst
  <2>3. ASSUME Starts("gl") PROVE FALSE
    BY <2>2, <2>3
       DEF Starts, StartEnter, StartPrimary, AwaitSize, AwaitPrimary, Await, Woken, StartRead,
           StartDisplay, StartFlag, At, Inside
  <2>4. CASE Starts("async")
    <3>1. /\ Has("size") => Has("size")'
          /\ Has("init")' => Has("init")
      <4>1. Handles => pc'["async"] = pc["async"]
        BY <1>1 DEF Handles, GlRecreate, GlUpdateSize, GlSurface, GlPicture, GlRelease, Loop, At,
                    PlaceTypes, Threads
      <4>2. pc'["async"] # pc["async"]
        BY <1>1, <2>4
           DEF At, Starts, StartEnter, StartPrimary, AwaitSize, AwaitPrimary, Await, Woken, StartRead,
               StartDisplay, StartFlag, Return, PlaceTypes, Threads
      <4> QED  BY <4>1, <4>2, Grows
    <3>2. pc'["gl"] = pc["gl"]
      BY <1>1, <2>4
         DEF Starts, StartEnter, StartPrimary, AwaitSize, AwaitPrimary, Await, Woken, StartRead,
             StartDisplay, StartFlag, At, PlaceTypes, Threads
    <3>3. CASE StartEnter("async")
      <4>1. /\ pc'["async"] \notin Past \cup {"awaitSize"}
            /\ UNCHANGED <<streaming, mIsPreviewing>>
        BY <1>1, <2>1, <3>3 DEF StartEnter, At, Return, Past, PlaceTypes, Threads, cameraVars
      <4> QED  BY <1>3, <2>1, <3>1, <3>2, <4>1
    <3>4. CASE AwaitSize("async")
      <4>1. ~quit
        BY <3>4, NotQuit DEF AwaitSize, Await, At, Inside
      <4>2. Has("size")'
        BY <1>1, <3>4, <4>1, SendTwo DEF AwaitSize, Await
      <4>3. /\ pc'["async"] = "awaitSize" /\ awaiting' # {}
            /\ UNCHANGED <<streaming, mIsPreviewing>>
        BY <1>1, <3>4 DEF AwaitSize, Await, At, PlaceTypes, Threads, cameraVars
      <4> QED  BY <1>3, <2>1, <3>1, <3>2, <4>2, <4>3 DEF Past
    <3>5. CASE Woken("async")
      <4>1. lock = None /\ "async" \notin awaiting /\ UNCHANGED <<streaming, mIsPreviewing>>
        BY <3>5 DEF Woken, cameraVars
      <4>2. pc["gl"] \in {"loop", "ended"} /\ awaiting = {}
        BY <1>1, <4>1 DEF Held, LockTypes, None, PlaceTypes
      <4>3. pc["async"] \in {"awaitSize", "awaitPrimary"} /\ pc'["async"] \in Past
        BY <1>1, <3>5 DEF Woken, At, Past, PlaceTypes, Threads
      <4>4. ~Has("init")
        BY <1>3, <2>1, <4>2, <4>3 DEF Past
      <4> QED  BY <1>3, <2>1, <3>1, <3>2, <4>1, <4>2, <4>3, <4>4 DEF Past
    <3>6. CASE StartPrimary("async") \/ AwaitPrimary("async") \/ StartRead("async")
                 \/ StartDisplay("async") \/ StartFlag("async")
      <4>1. pc["async"] \in Past /\ pc'["async"] # "awaitSize"
        BY <1>1, <3>6 DEF StartPrimary, AwaitPrimary, Await, StartRead, StartDisplay, StartFlag, At,
                          Past, Return, PlaceTypes, Threads
      <4> QED  BY <1>3, <2>1, <3>1, <3>2, <4>1
    <3> QED  BY <2>4, <3>3, <3>4, <3>5, <3>6 DEF Starts
  <2>5. CASE GlRecreate
    <3>1. UNCHANGED <<cameraVars, awaiting>> /\ pc'["async"] = pc["async"]
      BY <1>1, <2>5 DEF GlRecreate, At, PlaceTypes, Threads
    <3>2. Has("init")
      <4>1. PICK w \in {"init", "recreate"} : Handle(w)
        BY <2>5 DEF GlRecreate
      <4>2. Len(queue) \in Nat \ {0} /\ queue[1][1] = w
        BY <1>1, <4>1, HandleFacts
      <4>3. w # "recreate"
        BY <1>1, <2>1, <4>2 DEF SizeFirst
      <4> QED  BY <4>1, <4>2, <4>3 DEF Has
    <3>3. ~Has("init")'
      <4>1. pc'["gl"] # "loop"
        BY <1>1, <2>5 DEF GlRecreate, At, PlaceTypes, Threads
      <4> QED  BY <4>1, InitFirst
    <3>4. Has("size") => Has("size")'
      BY <1>1, <2>5, HandleHas DEF GlRecreate
    <3> QED  BY <1>3, <2>1, <3>1, <3>2, <3>3, <3>4 DEF cameraVars
  <2>6. CASE GlUpdateSize
    BY <1>5, <2>6 DEF GlUpdateSize
  <2>7. CASE GlSurface \/ GlPicture \/ GlRelease
    <3>1. UNCHANGED <<cameraVars, awaiting, pc>>
      BY <2>7 DEF GlSurface, GlPicture, GlRelease, Loop
    <3>2. (Has("size") => Has("size")') /\ (Has("init")' => Has("init"))
      BY <1>1, <2>7, HandleHas DEF GlSurface, GlPicture, GlRelease
    <3> QED  BY <1>3, <2>1, <3>1, <3>2 DEF cameraVars
  <2>8. CASE ~Handles /\ ~Starts("async")
    <3>1. (Has("size") => Has("size")') /\ (Has("init")' => Has("init"))
      BY <2>8, Grows
    <3>2. CASE GlSteps
      <4>1. /\ UNCHANGED cameraVars /\ pc'["async"] = pc["async"]
            /\ pc'["gl"] \notin {"loop", "ended"} => pc["gl"] \notin {"loop", "ended"}
        BY <1>1, <2>8, <3>2
           DEF Handles, GlSteps, GlCreate, GlCallback, GlUnlock, GlDrawFails, GlEnds, Loop, At,
               PlaceTypes, Threads
      <4>2. awaiting' = awaiting \/ (pc["gl"] = "create")
        BY <2>8, <3>2
           DEF Handles, GlSteps, GlCreate, GlCallback, GlUnlock, GlDrawFails, GlEnds, Loop, At, lockVars
      <4> QED  BY <1>3, <1>4, <2>1, <3>1, <4>1, <4>2 DEF cameraVars
    <3>3. ASSUME NEW t \in Slaves, SlaveSteps(t)
          PROVE  /\ Busy' => Quiet'
                 /\ pc'["async"] = "awaitSize" /\ awaiting' = {} => ~Has("init")'
                 /\ Asks' => Has("size")'
      <4>1. UNCHANGED <<cameraVars, awaiting>> /\ pc'["gl"] = pc["gl"]
        BY <1>1, <3>3
           DEF SlaveSteps, AddSlaveSurface, RemoveSlaveSurface, Surfaces, SurfaceWaitEnds, CallSurface,
               Call, At, PlaceTypes, Threads, Slaves, lockVars
      <4>2. pc'["async"] = pc["async"] \/ pc'["async"] \notin Past \cup {"awaitSize"}
        BY <1>1, <3>3
           DEF SlaveSteps, AddSlaveSurface, RemoveSlaveSurface, Surfaces, SurfaceWaitEnds, CallSurface,
               Call, At, PlaceTypes, Threads, Slaves, Past
      <4> QED  BY <1>3, <2>1, <3>1, <4>1, <4>2 DEF cameraVars
    <3>4. CASE OtherSteps
      <4>1. /\ awaiting' = awaiting /\ pc'["gl"] = pc["gl"]
            /\ (streaming' => streaming) /\ (mIsPreviewing' => mIsPreviewing)
            /\ pc'["async"] = pc["async"] \/ pc'["async"] \notin Past \cup {"awaitSize"}
        BY <1>1, <3>4
           DEF OtherSteps, PostPicture, CloseCaptures, ReleaseResource, CloseCamera, CallStart,
               StopPreview, CallPicture, Call, At, PlaceTypes, Threads, lockVars, cameraVars, Past
      <4> QED  BY <1>3, <2>1, <3>1, <4>1
    <3> QED  BY <2>3, <2>8, <3>2, <3>3, <3>4, Steps
  <2> QED  BY <2>4, <2>5, <2>6, <2>7, <2>8 DEF Handles
<1>6. pc'["gl"] \in {"start"} \cup Inside => sizeSet'
  <2>1. CASE GlCallback
    BY <1>1, <1>2, <2>1 DEF GlCallback, At, SizeFirst, PlaceTypes, Threads, Inside
  <2>2. CASE ~GlCallback
    <3>1. pc'["gl"] \in {"start"} \cup Inside => pc["gl"] \in {"start"} \cup Inside
      BY <1>1, <2>2, Steps
         DEF Starts, StartEnter, StartPrimary, AwaitSize, AwaitPrimary, Await, Woken, StartRead,
             StartDisplay, StartFlag, GlSteps, GlRecreate, GlCreate, GlUnlock, GlUpdateSize,
             GlSurface, GlPicture, GlRelease, GlDrawFails, GlEnds, Loop, SlaveSteps, AddSlaveSurface,
             RemoveSlaveSurface, Surfaces, SurfaceWaitEnds, CallSurface, OtherSteps, PostPicture,
             CloseCaptures, ReleaseResource, CloseCamera, CallStart, StopPreview, CallPicture, Call, At,
             PlaceTypes, Threads, Slaves, Inside
    <3> QED  BY <1>1, <1>2, <3>1 DEF SizeFirst
  <2> QED  BY <2>1, <2>2
<1> QED  BY <1>5, <1>6, InitFirst, RecreateAfterSize DEF SizeFirst

-----------------------------------------------------------------------------
(* What the camera shows. *)

\* Steps of the slaves' calls, of pictures and of closing change nothing of it.
LEMMA ShownStep == IInv /\ Next => Shown'
<1> SUFFICES ASSUME IInv, Next PROVE Shown'
  OBVIOUS
<1>1. Shown /\ Held /\ Closing /\ PlaceTypes /\ LockTypes /\ QueueTypes /\ RenderTypes /\ CameraTypes
      /\ HistoryTypes
  BY DEF IInv, Typed
<1> DEFINE Kept(p) == p \in {"start", "display"} \cup Inside
           Follows ==
             /\ pc["async"] = "display" => surface["async"] = mPrimarySurface
             /\ pc["async"] = "flag" => display = mPrimarySurface
             /\ streaming /\ ~Kept(pc["async"]) => display = mPrimarySurface
<1>2. /\ streaming => mIsPreviewing \/ pc["async"] = "flag" \/ pc["gl"] = "flag"
      /\ pc["gl"] = "display" => surface["gl"] = mPrimarySurface
      /\ pc["gl"] = "flag" => display = mPrimarySurface
      /\ ~missed /\ ~Pending => Follows
  BY <1>1 DEF Shown
<1>3. camera = "async" => pc["gl"] \notin Inside
  BY <1>1 DEF Held
<1>4. \A k : Has(k) => Has(k)' \/ Handles
  BY Grows
<1>5. CASE Starts("async")
  <2>1. /\ pc'["gl"] = pc["gl"] /\ mPrimarySurface' = mPrimarySurface /\ missed' = missed
    BY <1>1, <1>5
       DEF At, Starts, StartEnter, StartPrimary, AwaitSize, AwaitPrimary, Await, Woken, StartRead,
           StartDisplay, StartFlag, PlaceTypes, Threads, glVars
  <2>2. Pending => Pending'
    <3>1. ~Handles
      <4>1. Handles => pc'["async"] = pc["async"]
        BY <1>1 DEF Handles, GlRecreate, GlUpdateSize, GlSurface, GlPicture, GlRelease, Loop, At,
                    PlaceTypes, Threads
      <4>2. pc'["async"] # pc["async"]
        BY <1>1, <1>5
           DEF At, Starts, StartEnter, StartPrimary, AwaitSize, AwaitPrimary, Await, Woken, StartRead,
               StartDisplay, StartFlag, Return, PlaceTypes, Threads
      <4> QED  BY <4>1, <4>2
    <3> QED  BY <1>4, <2>1, <3>1 DEF Pending
  <2>3. CASE StartEnter("async")
    <3>1. /\ pc["async"] = "start" /\ UNCHANGED <<cameraVars>>
          /\ mUVCCamera => pc'["async"] \in {"primary", "lockSize"}
          /\ ~mUVCCamera => pc'["async"] = "idle"
      BY <1>1, <2>3 DEF StartEnter, At, Return, PlaceTypes, Threads
    <3>2. ~mUVCCamera => ~streaming
      BY <1>1 DEF Closing
    <3> QED  BY <1>2, <2>1, <2>2, <3>1, <3>2 DEF Shown, cameraVars, Inside
  <2>4. CASE StartPrimary("async") \/ AwaitSize("async") \/ AwaitPrimary("async") \/ Woken("async")
    <3>1. /\ UNCHANGED cameraVars /\ pc["async"] # "flag"
          /\ pc'["async"] \in Inside \ {"display", "flag"}
      BY <1>1, <2>4 DEF StartPrimary, AwaitSize, AwaitPrimary, Await, Woken, At, PlaceTypes, Threads, Inside
    <3> QED  BY <1>2, <2>1, <2>2, <3>1 DEF Shown, cameraVars, Inside
  <2>5. CASE StartRead("async")
    <3>1. /\ pc["async"] = "read" /\ pc'["async"] = "display"
          /\ surface'["async"] = mPrimarySurface /\ surface'["gl"] = surface["gl"]
          /\ UNCHANGED <<streaming, display, mIsPreviewing>>
      BY <1>1, <2>5 DEF StartRead, At, PlaceTypes, Threads, CameraTypes
    <3> QED  BY <1>2, <2>1, <2>2, <3>1 DEF Shown, Inside
  <2>6. CASE StartDisplay("async")
    <3>1. /\ pc["async"] = "display" /\ pc'["async"] = "flag" /\ display' = surface["async"]
          /\ UNCHANGED <<surface, mIsPreviewing>>
      BY <1>1, <2>6 DEF StartDisplay, At, PlaceTypes, Threads, CameraTypes
    <3>2. pc["gl"] \notin Inside
      BY <1>1, <1>3, <3>1 DEF Held, Inside
    <3> QED  BY <1>2, <2>1, <2>2, <3>1, <3>2 DEF Shown, Inside
  <2>7. CASE StartFlag("async")
    <3>1. /\ pc["async"] = "flag" /\ pc'["async"] = "idle" /\ mIsPreviewing' = TRUE
          /\ UNCHANGED <<streaming, display>> /\ surface'["gl"] = surface["gl"]
      BY <1>1, <2>7 DEF StartFlag, At, Return, PlaceTypes, Threads, CameraTypes
    <3> QED  BY <1>2, <2>1, <2>2, <3>1 DEF Shown, Inside
  <2> QED  BY <1>5, <2>3, <2>4, <2>5, <2>6, <2>7 DEF Starts
<1>6. CASE Starts("gl")
  <2>1. /\ pc'["async"] = pc["async"] /\ UNCHANGED <<mPrimarySurface, missed>>
    BY <1>1, <1>6
       DEF At, Starts, StartEnter, StartPrimary, AwaitSize, AwaitPrimary, Await, Woken, StartRead,
           StartDisplay, StartFlag, PlaceTypes, Threads, glVars
  <2>2. pc["gl"] \in Inside => pc["async"] \notin Inside
    BY <1>1 DEF Held
  <2>3. CASE StartEnter("gl")
    <3>1. /\ pc["gl"] = "start" /\ UNCHANGED cameraVars
          /\ mUVCCamera => pc'["gl"] = "primary"
          /\ ~mUVCCamera => pc'["gl"] = "unlock"
      BY <1>1, <2>3 DEF StartEnter, At, Return, PlaceTypes, Threads, IInv, SizeFirst
    <3>2. ~mUVCCamera => ~streaming /\ pc["async"] \notin {"display", "flag"}
      BY <1>1 DEF Closing, Held, Inside, None
    <3> QED  BY <1>2, <2>1, <3>1, <3>2 DEF Shown, cameraVars, Pending
  <2>4. CASE StartPrimary("gl")
    <3>1. /\ pc["gl"] = "primary" /\ UNCHANGED cameraVars /\ pc'["gl"] = "read"
      BY <1>1, <2>4 DEF StartPrimary, At, PlaceTypes, Threads, Held, Inside
    <3> QED  BY <1>2, <2>1, <3>1 DEF Shown, cameraVars, Pending
  <2>5. CASE StartRead("gl")
    <3>1. /\ pc["gl"] = "read" /\ pc'["gl"] = "display" /\ surface'["gl"] = mPrimarySurface
          /\ UNCHANGED <<streaming, display, mIsPreviewing>>
      BY <1>1, <2>5 DEF StartRead, At, PlaceTypes, Threads, CameraTypes
    <3> QED  BY <1>2, <2>1, <3>1 DEF Shown, Pending
  <2>6. CASE StartDisplay("gl")
    <3>1. /\ pc["gl"] = "display" /\ pc'["gl"] = "flag" /\ display' = surface["gl"]
          /\ UNCHANGED <<surface, mIsPreviewing>>
      BY <1>1, <2>6 DEF StartDisplay, At, PlaceTypes, Threads, CameraTypes
    <3> QED  BY <1>2, <2>1, <2>2, <3>1 DEF Shown, Inside
  <2>7. CASE StartFlag("gl")
    <3>1. /\ pc["gl"] = "flag" /\ pc'["gl"] = "unlock" /\ mIsPreviewing' = TRUE
          /\ UNCHANGED <<streaming, display>>
      BY <1>1, <2>7 DEF StartFlag, At, Return, PlaceTypes, Threads, CameraTypes
    <3> QED  BY <1>2, <2>1, <2>2, <3>1 DEF Shown, Inside
  <2>8. ~AwaitSize("gl") /\ ~AwaitPrimary("gl") /\ ~Woken("gl")
    BY <1>1 DEF AwaitSize, AwaitPrimary, Await, Woken, At, PlaceTypes, GlPlaces
  <2> QED  BY <1>6, <2>3, <2>4, <2>5, <2>6, <2>7, <2>8 DEF Starts
<1>7. CASE GlSteps
  <2>1. pc'["async"] = pc["async"] /\ UNCHANGED cameraVars /\ (missed => missed')
    BY <1>1, <1>7
       DEF GlSteps, GlRecreate, GlCreate, GlCallback, GlUnlock, GlUpdateSize, GlSurface, GlPicture,
           GlRelease, GlDrawFails, GlEnds, Loop, At, PlaceTypes, Threads, HistoryTypes
  <2>2. CASE GlRecreate \/ GlCreate
    <3>1. pc["gl"] \notin {"display", "flag"} /\ pc'["gl"] \in {"create", "callback"}
      BY <1>1, <2>2 DEF GlRecreate, GlCreate, At, PlaceTypes, Threads
    <3> QED  BY <1>2, <2>1, <3>1 DEF Shown, cameraVars, Pending
  <2>3. CASE GlCallback
    <3>1. /\ pc["gl"] = "callback" /\ mPrimarySurface' = mPrimarySurface
          /\ mIsPreviewing => pc'["gl"] = "start"
          /\ ~mIsPreviewing => pc'["gl"] = "unlock"
          /\ ~mIsPreviewing /\ pc["async"] \in {"display", "flag"} => missed'
      BY <1>1, <2>3 DEF GlCallback, At, PlaceTypes, Threads, glVars
    <3> QED  BY <1>2, <2>1, <3>1 DEF Shown, cameraVars, Pending
  <2>4. CASE GlUnlock
    <3>1. /\ pc["gl"] = "unlock" /\ pc'["gl"] = "loop" /\ mPrimarySurface' = mPrimarySurface
          /\ missed' = missed
      BY <1>1, <2>4 DEF GlUnlock, At, PlaceTypes, Threads, glVars
    <3>2. Pending => Pending'
      BY <2>4, <3>1, SameQueue DEF GlUnlock, Pending
    <3> QED  BY <1>2, <2>1, <3>1, <3>2 DEF Shown, cameraVars
  <2>5. CASE GlUpdateSize \/ GlSurface \/ GlPicture
    <3>1. /\ pc' = pc /\ mPrimarySurface' = mPrimarySurface /\ missed' = missed
      BY <2>5 DEF GlUpdateSize, GlSurface, GlPicture, Loop, glVars
    <3>2. Pending => Pending'
      BY <1>1, <2>5, <3>1, HandleHas DEF GlUpdateSize, GlSurface, GlPicture, Pending
    <3> QED  BY <1>2, <2>1, <3>1, <3>2 DEF Shown, cameraVars
  <2>6. CASE GlRelease
    <3>1. Has("release") /\ pc["gl"] = "loop" /\ pc'["gl"] = "loop"
      BY <1>1, <2>6, HandleFacts DEF GlRelease, Loop, Has
    <3>2. ~streaming /\ pc["async"] \notin Inside
      BY <1>1, <3>1, NotQuit DEF Closing
    <3> QED  BY <1>2, <2>1, <3>1, <3>2 DEF Shown, cameraVars, Inside
  <2>7. CASE GlDrawFails \/ GlEnds
    <3>1. /\ mPrimarySurface' = mPrimarySurface /\ missed' = missed
          /\ pc["gl"] = "loop" /\ pc'["gl"] \in {"loop", "ended"}
      BY <1>1, <2>7 DEF GlDrawFails, GlEnds, Loop, At, PlaceTypes, Threads, glVars
    <3>2. ~Handles
      <4>1. GlEnds => queue = <<>>
        BY DEF GlEnds
      <4>2. Handles => queue # <<>>
        BY DEF Handles, GlRecreate, GlUpdateSize, GlSurface, GlPicture, GlRelease, Handle
      <4>3. Handles /\ GlDrawFails => FALSE
        BY <1>1 DEF Handles, GlRecreate, GlUpdateSize, GlSurface, GlPicture, GlRelease, Handle, GlDrawFails,
                    Loop, At, PlaceTypes, Threads, RenderTypes, glVars
      <4> QED  BY <2>7, <4>1, <4>2, <4>3
    <3>3. Pending => Pending'
      BY <1>4, <3>1, <3>2 DEF Pending
    <3> QED  BY <1>2, <2>1, <3>1, <3>3 DEF Shown, cameraVars
  <2> QED  BY <1>7, <2>2, <2>3, <2>4, <2>5, <2>6, <2>7 DEF GlSteps
<1>8. CASE ~GlSteps /\ ~Starts("async") /\ ~Starts("gl")
  <2>1. /\ UNCHANGED <<mPrimarySurface, missed, display, surface>> /\ pc'["gl"] = pc["gl"]
        /\ streaming' => streaming /\ mIsPreviewing' = mIsPreviewing
    <3>1. ASSUME NEW t \in Slaves, SlaveSteps(t)
          PROVE  /\ UNCHANGED <<mPrimarySurface, missed, display, surface>> /\ pc'["gl"] = pc["gl"]
                 /\ streaming' => streaming /\ mIsPreviewing' = mIsPreviewing
      BY <1>1, <3>1
         DEF SlaveSteps, AddSlaveSurface, RemoveSlaveSurface, Surfaces, SurfaceWaitEnds, CallSurface,
             Call, At, PlaceTypes, Threads, Slaves, glVars, cameraVars
    <3>2. CASE OtherSteps
      BY <1>1, <3>2
         DEF OtherSteps, PostPicture, CloseCaptures, ReleaseResource, CloseCamera, CallStart,
             StopPreview, CallPicture, Call, At, PlaceTypes, Threads, glVars, cameraVars
    <3> QED  BY <1>8, <3>1, <3>2, Steps
  <2>2. pc'["async"] = pc["async"] \/ (pc["async"] \notin {"start"} \cup Inside /\ pc'["async"] \notin Inside)
    <3>1. ASSUME NEW t \in Slaves, SlaveSteps(t)
          PROVE  pc'["async"] = pc["async"]
                   \/ (pc["async"] \notin {"start"} \cup Inside /\ pc'["async"] \notin Inside)
      BY <1>1, <3>1
         DEF SlaveSteps, AddSlaveSurface, RemoveSlaveSurface, Surfaces, SurfaceWaitEnds, CallSurface,
             Call, At, PlaceTypes, Threads, Slaves, Inside
    <3>2. CASE OtherSteps
      BY <1>1, <3>2
         DEF OtherSteps, PostPicture, CloseCaptures, ReleaseResource, CloseCamera, CallStart,
             StopPreview, CallPicture, Call, At, PlaceTypes, Threads, Inside
    <3> QED  BY <1>8, <3>1, <3>2, Steps
  <2>3. Pending => Pending'
    BY <1>4, <1>8, <2>1 DEF Pending, Handles, GlSteps
  <2> QED  BY <1>2, <2>1, <2>2, <2>3 DEF Shown, Inside
<1> QED  BY <1>5, <1>6, <1>7, <1>8

-----------------------------------------------------------------------------
(* The invariant, and what it says. *)

\* A camera that was just opened satisfies the invariant.
LEMMA InitInv == Init => IInv
<1> SUFFICES ASSUME Init PROVE IInv
  OBVIOUS
<1>1. queue = <<<<"init">>>> /\ <<"init">> \in Messages /\ <<"init">>[1] = "init"
  BY MessageKinds DEF Init
<1>2. /\ queue \in Seq(Messages) /\ Len(queue) = 1 /\ queue[1] = <<"init">>
  BY <1>1
<1>3. Has("init") /\ \A k : k # "init" => ~Has(k)
  BY <1>1, <1>2 DEF Has
<1>4. \A s \in Slaves : ~Contains(queue, <<"add", s>>) /\ ~Contains(queue, <<"remove", s>>)
  BY <1>2, SurfaceMessages DEF Contains
<1>5. /\ pc \in [Threads -> GlPlaces \cup AsyncPlaces \cup ListenerPlaces]
      /\ pc["gl"] = "loop" /\ pc["async"] = "idle" /\ pc["recorder"] = "idle" /\ pc["listener"] = "idle"
      /\ \A s \in Slaves : pc[s] = "idle"
  BY DEF Init, Threads, Slaves, GlPlaces, AsyncPlaces, SlavePlaces, ListenerPlaces, Inside
<1>6. Typed
  <2>1. PlaceTypes
    BY <1>5 DEF PlaceTypes, Threads, Slaves, GlPlaces, AsyncPlaces, SlavePlaces, ListenerPlaces
  <2>2. LockTypes
    BY DEF Init, LockTypes
  <2>3. QueueTypes
    BY <1>2 DEF Init, QueueTypes
  <2>4. RenderTypes
    BY DEF Init, RenderTypes
  <2>5. CameraTypes
    <3>1. surface = [t \in Threads |-> 0] /\ display = 0 /\ made = 0
      BY DEF Init
    <3>2. surface \in [Threads -> 0..made] /\ display \in 0..made
      BY <3>1
    <3>3. /\ mUVCCamera \in BOOLEAN /\ mRendererHolder \in BOOLEAN /\ mImageCapture \in BOOLEAN
          /\ mIsPreviewing \in BOOLEAN /\ streaming \in BOOLEAN
      BY DEF Init
    <3> QED  BY <3>1, <3>2, <3>3 DEF CameraTypes, Threads
  <2>6. HistoryTypes
    BY DEF Init, HistoryTypes
  <2> QED  BY <2>1, <2>2, <2>3, <2>4, <2>5, <2>6 DEF Typed
<1>7. Held /\ Closing
  BY <1>3, <1>5 DEF Init, Held, Closing, Inside, None
<1>8. SizeFirst
  BY <1>1, <1>2, <1>3, <1>5 DEF Init, SizeFirst, Inside, Past
<1>9. Answered /\ Released /\ Shown
  BY <1>1, <1>2, <1>3, <1>5 DEF Init, Answered, Released, Shown, Pending
<1>10. Gone
  BY <1>4, <1>5 DEF Init, Gone
<1> QED  BY <1>6, <1>7, <1>8, <1>9, <1>10 DEF IInv

\* Stuttering keeps the invariant.
LEMMA StutterInv == IInv /\ UNCHANGED vars => IInv'
BY DEF vars, lockVars, glVars, queueVars, cameraVars, clientVars, IInv, Typed, PlaceTypes, LockTypes,
       QueueTypes, RenderTypes, CameraTypes, HistoryTypes, Held, Closing, SizeFirst, Answered, Released,
       Gone, Shown, Has, Pending

\* The inductive invariant.
THEOREM Invariance == Spec => []IInv
<1>1. IInv /\ [Next]_vars => IInv'
  BY PlacesStep, LocksStep, QueueStep, RenderStep, CameraStep, HistoryStep, HeldStep, ClosingStep,
     AnsweredStep, ReleasedStep, GoneStep, SizeStep, ShownStep, StutterInv DEF IInv, Typed
<1> QED  BY <1>1, InitInv, PTL DEF Spec

\* Type correctness, for any number of calls and failures: the locks are held where the
\* code holds them, and the GL thread, which alone could signal itself, never awaits.
THEOREM TypeCorrect == Spec => []TypeOK
<1>1. IInv => TypeOK
  <2> SUFFICES ASSUME IInv PROVE TypeOK
    OBVIOUS
  <2>1. /\ PlaceTypes /\ LockTypes /\ QueueTypes /\ RenderTypes /\ CameraTypes /\ HistoryTypes
        /\ Held
    BY DEF IInv, Typed
  <2>2. camera \in Threads \cup {None} /\ lock \in {"gl", None}
    BY <2>1 DEF LockTypes, Threads
  <2>3. lock = "gl" <=> Creating
    BY <2>1 DEF Held, Creating, InStart, PlaceTypes, GlPlaces
  <2>4. \A t \in {"async", "gl"} : camera = t <=> InStart(t) /\ pc[t] # "start"
    BY <2>1 DEF Held, InStart, Inside
  <2>5. mPrimarySurface \in {0, made} /\ display \in 0..made /\ made \in Nat
    BY <2>1 DEF RenderTypes, CameraTypes
  <2> QED
    BY <2>1, <2>2, <2>3, <2>4, <2>5
       DEF TypeOK, LockTypes, QueueTypes, RenderTypes, CameraTypes, HistoryTypes
<1> QED  BY <1>1, Invariance, PTL

\* No lost wake-up: whoever awaits the primary surface, without a time limit and with
\* CameraInternal.class held, will be signalled by a creation before any release.
THEOREM NoLostWakeup == Spec => []AwaitIsAnswered
<1>1. IInv => AwaitIsAnswered
  <2> SUFFICES ASSUME IInv, awaiting # {}, pc["gl"] # "create"
      PROVE  \E i \in 1..Len(queue) : /\ queue[i][1] \in {"init", "recreate"}
                                      /\ \A j \in 1..i : queue[j][1] # "release"
    BY DEF AwaitIsAnswered
  <2>1. PICK i \in 1..Len(queue) : queue[i][1] \in {"init", "recreate"}
    BY DEF IInv, Answered, Has
  <2>2. ~Has("release")
    BY NotQuit DEF IInv, Held, Inside
  <2>3. Len(queue) \in Nat
    BY LenProperties DEF IInv, Typed, QueueTypes
  <2>4. \A j \in 1..i : j \in 1..Len(queue)
    BY <2>3
  <2> QED  BY <2>1, <2>2, <2>4 DEF Has
<1> QED  BY <1>1, Invariance, PTL

\* The preview is shown on the surface there is, in every order of starts, stops,
\* creations and failures but the one noted by missed.
THEOREM ShowsPrimary == Spec => []DisplayIsPrimary
<1>1. IInv => DisplayIsPrimary
  <2> SUFFICES ASSUME IInv, streaming, ~missed, ~InStart("async"), ~Creating,
                      \A i \in 1..Len(queue) : queue[i][1] \notin {"init", "recreate"}
      PROVE  display = mPrimarySurface
    BY DEF DisplayIsPrimary
  <2>1. ~Pending
    BY DEF Pending, Has, Creating, InStart
  <2> QED  BY <2>1 DEF IInv, Shown, InStart, Inside
<1> QED  BY <1>1, Invariance, PTL

\* A removed surface stays removed, unless a wait was cut short.
THEOREM StaysRemoved == Spec => []RemovedIsGone
<1>1. IInv => RemovedIsGone
  <2> SUFFICES ASSUME IInv, ~cut, NEW s \in removed
      PROVE  s \notin mSlaveSurfaces /\ ~Contains(queue, <<"add", s>>)
    BY DEF RemovedIsGone
  <2>1. s \in Slaves
    BY DEF IInv, Typed, HistoryTypes
  <2> QED  BY <2>1 DEF IInv, Gone
<1> QED  BY <1>1, Invariance, PTL

\* The GL thread leaves nothing behind.
THEOREM EndsReleased == Spec => []ReleasedAll
<1>1. IInv => ReleasedAll
  BY DEF IInv, Answered, Released, ReleasedAll
<1> QED  BY <1>1, Invariance, PTL

\* Every picture that a running looper took is answered before the GL thread ends.
THEOREM PicturesAnswered == Spec => []PictureAnswered
<1>1. IInv => PictureAnswered
  <2> SUFFICES ASSUME IInv, pc["gl"] = "ended", pc["async"] # "picture" PROVE picture # "asked"
    BY DEF PictureAnswered
  <2>1. queue = <<>>
    BY DEF IInv, Answered
  <2>2. ~Has("picture")
    BY <2>1 DEF Has
  <2> QED  BY <2>2 DEF IInv, Answered
<1> QED  BY <1>1, Invariance, PTL
=============================================================================
