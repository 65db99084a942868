---------------------------- MODULE DoorLogProofs ----------------------------
(***************************************************************************)
(* The line and the log for any number of activities, frames and any       *)
(* window. Port is about the tasks that open the port, Covered says that   *)
(* an opening the filter dropped has one in the table or on its way, Once  *)
(* that undisturbed dates pass the filter in order and far apart, and      *)
(* Refreshed that a list that is not the table has a refresh coming.       *)
(***************************************************************************)
EXTENDS DoorLog, SequenceTheorems, FiniteSetTheorems, TLAPS

-----------------------------------------------------------------------------
(* The invariant. *)

\* Activities are created in order. As long as the tasks do not overlap, a later task
\* has not begun while an earlier one runs, and the port is opened once.
Port ==
  /\ \A a, b \in Activities : opening[a] # "none" /\ b < a => opening[b] # "none"
  /\ \A a \in Activities : serialIsOpen[a] => opening[a] = "done"
  /\ ~overlapped =>
       /\ ~npe
       /\ \A a, b \in Activities : /\ opening[a] \in {"open", "start"} /\ InTask(b)
                                   => b = a \/ opening[b] = "check"
       /\ \A a, b \in Activities : InTask(a) /\ a < b /\ opening[b] # "none" => opening[b] = "check"
       /\ \A a \in Activities : /\ opening[a] = "open" => ~mPort
                                /\ opening[a] = "start" => mPort /\ readers = {}
       /\ \A r, s \in readers : mPort /\ r = s
       /\ mPort /\ ~mWriter => \E a \in Activities : opening[a] = "start"

\* A date that is in the table, or lost to the key, or on its way there.
Kept(d) == d \in logged \cup hidden \/ \E j \in jobs : j.pc \in {"exists", "insert"} /\ j.date = d

Covered ==
  /\ \A j \in jobs : j.pc # "new" => j.date \in Start..clock /\ clock <= j.date + 1
  /\ \A a \in Activities : nowTime[a] <= clock /\ (nowTime[a] # 0 => Kept(nowTime[a]))
  /\ \A d \in handled : \E e \in Start..MaxTime : Kept(e) /\ Near(d, e)

\* Dates that passed the filter.
Passed == logged \cup {j.date : j \in {k \in jobs : k.pc \in {"exists", "insert"}}}

Once ==
  /\ \A j \in jobs : j.activity \in ToSet(mListenerList)
  /\ mListenerList = <<>> => logged = {}
  /\ Len(mListenerList) <= 1 /\ ~together =>
       \A a \in ToSet(mListenerList) :
         /\ \A j \in jobs : j.pc = "views" =>
              j.date > nowTime[a] + Window /\ \A k \in jobs : k.pc = "views" => k = j
         /\ \A d \in Passed : d <= nowTime[a] /\ \A e \in Passed : d # e => ~Near(d, e)

IsList(i) == mainQueue[i].what = "list"
Shown     == {i \in 1..Len(mainQueue) : IsList(i)}

\* A refresh is due.
Due == \/ \E j \in jobs : j.pc = "notify"
       \/ \E i \in 1..Len(mainQueue) : mainQueue[i].what = "update"
       \/ loads # <<>> /\ loads[1].what \in {"query", "clear"}

\* No coroutine of the album is going to show rows.
Idle == loads = <<>> \/ loads[1].what = "test"

Refreshed ==
  /\ ~replaced /\ album = 0 => loads = <<>> /\ Shown = {}
  /\ ~overtaken =>
       /\ Len(loads) <= 1 /\ (loads # <<>> => Shown = {}) /\ \A i, k \in Shown : i = k
       /\ album # 0 =>
            \/ Due
            \/ ~Idle /\ loads[1].rows = door
            \/ Idle /\ \E i \in Shown : mainQueue[i].rows = door
            \/ Idle /\ Shown = {} /\ list = door

IInv == TypeOK /\ Port /\ Covered /\ Once /\ Refreshed

-----------------------------------------------------------------------------
(* Types. *)

\* The variables of the line are typed if a step of a task is.
LEMMA TaskTypes ==
  ASSUME TypeOK, NEW a \in Activities,
         CheckPort(a) \/ OpenPort(a) \/ StartReader(a) \/ TellSuccess(a) \/ CreateActivity(a)
  PROVE  LinkTypeOK'
<1>1. \A l \in {"none", "check", "open", "start", "tell", "done"} : At(a, l) =>
        opening' \in [Activities -> {"none", "check", "open", "start", "tell", "done"}]
  BY DEF TypeOK, LinkTypeOK, At
<1>2. CASE CheckPort(a)
  BY <1>1, <1>2 DEF CheckPort, TypeOK, LinkTypeOK, readVars
<1>3. CASE OpenPort(a)
  BY <1>1, <1>3 DEF OpenPort, TypeOK, LinkTypeOK, readVars
<1>4. CASE StartReader(a)
  BY <1>1, <1>4 DEF StartReader, TypeOK, LinkTypeOK
<1>5. CASE TellSuccess(a)
  <2>1. mListenerList' \in Seq(Activities)
    BY <1>5, AppendProperties DEF TellSuccess, TypeOK, LinkTypeOK
  <2> QED  BY <1>1, <1>5, <2>1 DEF TellSuccess, TypeOK, LinkTypeOK, readVars
<1>6. CASE CreateActivity(a)
  BY <1>1, <1>6 DEF CreateActivity, TypeOK, LinkTypeOK, readVars
<1> QED  BY <1>2, <1>3, <1>4, <1>5, <1>6

\* Bytes stay bytes on their way from the lock to a report.
LEMMA ByteTypes ==
  ASSUME TypeOK,
         \/ LockSends \/ Send \/ \E c \in chunks : Report(c)
         \/ \E r \in Activities : ReadFirst(r) \/ ReadRest(r)
  PROVE  LinkTypeOK'
<1>1. CASE LockSends
  <2>1. sent' \in Nat
    BY <1>1 DEF LockSends, TypeOK, LinkTypeOK
  <2>2. <<<<sent', "first">>, <<sent', "rest">>>> \in Seq(Bytes)
    BY <2>1 DEF Bytes
  <2>3. incoming' \in Seq(Bytes)
    BY <1>1, <2>2, ConcatProperties DEF LockSends, TypeOK, LinkTypeOK
  <2> QED  BY <1>1, <2>1, <2>3 DEF LockSends, TypeOK, LinkTypeOK, portVars
<1>2. CASE Send
  BY <1>2 DEF Send, TypeOK, LinkTypeOK, readVars
<1>3. ASSUME NEW c \in chunks, Report(c) PROVE LinkTypeOK'
  BY <1>3 DEF Report, TypeOK, LinkTypeOK, portVars
<1>4. ASSUME NEW r \in Activities, ReadFirst(r) PROVE LinkTypeOK'
  <2>1. incoming # <<>> /\ incoming \in Seq(Bytes)
    BY <1>4 DEF ReadFirst, TypeOK, LinkTypeOK
  <2>2. Head(incoming) \in Bytes /\ Tail(incoming) \in Seq(Bytes)
    BY <2>1, HeadTailProperties
  <2>3. <<Head(incoming)>> \in Seq(Bytes)
    BY <2>2
  <2> QED  BY <1>4, <2>2, <2>3 DEF ReadFirst, TypeOK, LinkTypeOK, portVars
<1>5. ASSUME NEW r \in Activities, ReadRest(r) PROVE LinkTypeOK'
  <2>1. first[r] \o incoming \in Seq(Bytes) /\ <<>> \in Seq(Bytes)
    BY ConcatProperties, EmptySeq DEF TypeOK, LinkTypeOK
  <2> QED  BY <1>5, <2>1 DEF ReadRest, TypeOK, LinkTypeOK, portVars
<1> QED  BY <1>1, <1>2, <1>3, <1>4, <1>5

LogTypes ==
  /\ clock \in Start..MaxTime /\ nowTime \in [Activities -> 0..MaxTime] /\ jobs \subseteq Jobs
  /\ door \subseteq Rows /\ \A r1, r2 \in door : r1.time = r2.time => r1 = r2
  /\ handled \cup logged \cup hidden \subseteq Start..MaxTime /\ together \in BOOLEAN
AlbumTypes ==
  /\ album \in Activities \cup {0} /\ list \subseteq Rows
  /\ loads \in Seq([what : {"query", "test", "clear", "post"}, rows : SUBSET Rows])
  /\ mainQueue \in Seq([what : {"update", "list"}, rows : SUBSET Rows])
  /\ overtaken \in BOOLEAN /\ replaced \in BOOLEAN

\* TypeOK by groups of variables.
LEMMA Groups == TypeOK <=> LinkTypeOK /\ LogTypes /\ AlbumTypes
BY DEF TypeOK, LogTypes, AlbumTypes

\* A job that goes on is a job.
LEMMA JobTypes ==
  ASSUME TypeOK, NEW j \in jobs
  PROVE  /\ j \in Jobs /\ j.activity \in Activities /\ j.date \in 0..MaxTime
         /\ \A l \in {"new", "filter", "views", "exists", "insert", "notify"}, d \in 0..MaxTime :
              /\ [j EXCEPT !.pc = l, !.date = d] \in Jobs
              /\ [j EXCEPT !.pc = l] \in Jobs
BY DEF TypeOK, Jobs

\* The row of a date is a row.
LEMMA RowTypes ==
  ASSUME NEW d \in 0..MaxTime
  PROVE  Row(d) \in Rows
BY DoorAssumption DEF Row, Rows

\* Posting, taking and running coroutines keep the queues typed.
LEMMA QueueTypes ==
  ASSUME TypeOK
  PROVE  /\ \A m \in [what : {"update", "list"}, rows : SUBSET Rows] : Post(m) =>
              mainQueue' \in Seq([what : {"update", "list"}, rows : SUBSET Rows])
         /\ mainQueue # <<>> =>
              /\ Tail(mainQueue) \in Seq([what : {"update", "list"}, rows : SUBSET Rows])
              /\ Head(mainQueue) \in [what : {"update", "list"}, rows : SUBSET Rows]
         /\ \A w \in {"query", "test"} : BeginLoad(w) =>
              /\ loads' \in Seq([what : {"query", "test", "clear", "post"}, rows : SUBSET Rows])
              /\ overtaken' \in BOOLEAN
<1>1. /\ mainQueue \in Seq([what : {"update", "list"}, rows : SUBSET Rows])
      /\ loads \in Seq([what : {"query", "test", "clear", "post"}, rows : SUBSET Rows])
      /\ overtaken \in BOOLEAN
  BY DEF TypeOK
<1>2. \A w \in {"query", "test"} : [what |-> w, rows |-> {}] \in [what : {"query", "test", "clear", "post"}, rows : SUBSET Rows]
  OBVIOUS
<1>3. \A m \in [what : {"update", "list"}, rows : SUBSET Rows] :
        Append(mainQueue, m) \in Seq([what : {"update", "list"}, rows : SUBSET Rows])
  BY <1>1, AppendProperties
<1>4. mainQueue # <<>> =>
        /\ Tail(mainQueue) \in Seq([what : {"update", "list"}, rows : SUBSET Rows])
        /\ Head(mainQueue) \in [what : {"update", "list"}, rows : SUBSET Rows]
  BY <1>1, HeadTailProperties
<1>5. \A w \in {"query", "test"} :
        Append(loads, [what |-> w, rows |-> {}])
          \in Seq([what : {"query", "test", "clear", "post"}, rows : SUBSET Rows])
  BY <1>1, <1>2, AppendProperties
<1> QED  BY <1>1, <1>3, <1>4, <1>5 DEF Post, BeginLoad

\* Changing or ending a load keeps the loads typed.
LEMMA LoadTypes ==
  ASSUME TypeOK, NEW i \in 1..Len(loads)
  PROVE  /\ loads[i] \in [what : {"query", "test", "clear", "post"}, rows : SUBSET Rows]
         /\ RemoveAt(loads, i) \in Seq([what : {"query", "test", "clear", "post"}, rows : SUBSET Rows])
         /\ \A rows \in SUBSET Rows, w \in {"clear", "post"} :
              [loads EXCEPT ![i] = [what |-> w, rows |-> rows]]
                \in Seq([what : {"query", "test", "clear", "post"}, rows : SUBSET Rows])
<1> DEFINE S == [what : {"query", "test", "clear", "post"}, rows : SUBSET Rows]
<1>1. loads \in Seq(S)
  BY DEF TypeOK
<1>2. \A rows \in SUBSET Rows, w \in {"clear", "post"} : [what |-> w, rows |-> rows] \in S
  OBVIOUS
<1> HIDE DEF S
<1>3. loads[i] \in S
  BY <1>1
<1>4. SubSeq(loads, 1, i - 1) \in Seq(S) /\ SubSeq(loads, i + 1, Len(loads)) \in Seq(S)
  BY <1>1, SubSeqProperties
<1>5. RemoveAt(loads, i) \in Seq(S)
  BY <1>4, ConcatProperties DEF RemoveAt
<1>6. \A rows \in SUBSET Rows, w \in {"clear", "post"} :
        [loads EXCEPT ![i] = [what |-> w, rows |-> rows]] \in Seq(S)
  BY <1>1, <1>2, ExceptSeq
<1> QED  BY <1>3, <1>5, <1>6 DEF S

\* A step of a job keeps the types.
LEMMA JobStepTypes == TypeOK /\ Covered /\ Job => TypeOK'
<1> SUFFICES ASSUME TypeOK, Covered, NEW j \in jobs,
                    TakeDate(j) \/ Filter(j) \/ ShowMessage(j) \/ IsExit(j) \/ InsertRow(j) \/ Notify(j)
             PROVE  LinkTypeOK' /\ LogTypes' /\ AlbumTypes'
  BY Groups DEF Job, LinkTypeOK, LogTypes, AlbumTypes, TypeOK
<1>1. /\ j \in Jobs /\ j.activity \in Activities /\ j.date \in 0..MaxTime
      /\ \A l \in {"new", "filter", "views", "exists", "insert", "notify"}, d \in 0..MaxTime :
           [j EXCEPT !.pc = l, !.date = d] \in Jobs /\ [j EXCEPT !.pc = l] \in Jobs
  BY JobTypes
<1>2. LinkTypeOK' /\ UNCHANGED <<clock, album, loads, list, overtaken, replaced>>
  BY DEF TakeDate, Filter, ShowMessage, IsExit, InsertRow, Notify, JobUnchanged, linkVars, portVars,
         readVars, TypeOK, LinkTypeOK, At
<1>3. LogTypes /\ AlbumTypes
  BY Groups
<1>4. LogTypes'
  <2>1. clock \in 0..MaxTime /\ Row(j.date) \in Rows /\ Row(j.date).time = j.date % Day
    <3>1. clock \in 0..MaxTime
      BY <1>3, DoorAssumption DEF LogTypes, Start
    <3>2. Row(j.date).time = j.date % Day
      BY DEF Row
    <3> QED  BY <1>1, <3>1, <3>2, RowTypes
  <2>0. j.pc # "new" => j.date \in Start..MaxTime
    BY <1>3, DoorAssumption DEF Covered, LogTypes, Start
  <2>2. CASE TakeDate(j)
    BY <1>1, <1>2, <1>3, <2>1, <2>2 DEF TakeDate, Continue, LogTypes
  <2>3. CASE Filter(j)
    <3>1. jobs' \subseteq Jobs
      BY <1>1, <1>3, <2>3 DEF Filter, Continue, EndJob, LogTypes
    <3>2. handled' \cup logged' \cup hidden' \subseteq Start..MaxTime /\ together' \in BOOLEAN
      BY <1>1, <1>3, <2>0, <2>3 DEF Filter, LogTypes
    <3> QED  BY <1>2, <1>3, <2>3, <3>1, <3>2 DEF Filter, LogTypes
  <2>4. CASE ShowMessage(j)
    BY <1>1, <1>2, <1>3, <2>4 DEF ShowMessage, Continue, EndJob, LogTypes
  <2>5. CASE IsExit(j)
    BY <1>1, <1>2, <1>3, <2>0, <2>5 DEF IsExit, Continue, Recorded, LogTypes
  <2>6. CASE InsertRow(j)
    <3>1. jobs' \subseteq Jobs
      BY <1>1, <1>3, <2>6 DEF InsertRow, Continue, EndJob, LogTypes
    <3>2. door' \subseteq Rows /\ \A r1, r2 \in door' : r1.time = r2.time => r1 = r2
      BY <1>3, <2>1, <2>6 DEF InsertRow, KeyTaken, LogTypes
    <3> QED  BY <1>1, <1>2, <1>3, <2>0, <2>6, <3>1, <3>2 DEF InsertRow, Recorded, LogTypes
  <2>7. CASE Notify(j)
    BY <1>1, <1>2, <1>3, <2>7 DEF Notify, EndJob, LogTypes
  <2> QED  BY <2>2, <2>3, <2>4, <2>5, <2>6, <2>7
<1>5. mainQueue' \in Seq([what : {"update", "list"}, rows : SUBSET Rows])
  <2>1. CASE Notify(j)
    BY <2>1, QueueTypes DEF Notify
  <2>2. CASE ~Notify(j)
    BY <1>3, <2>2 DEF TakeDate, Filter, ShowMessage, IsExit, InsertRow, AlbumTypes
  <2> QED  BY <2>1, <2>2
<1> QED  BY <1>2, <1>3, <1>4, <1>5 DEF AlbumTypes

\* So does every other.
LEMMA StepTyped == TypeOK /\ Covered /\ Next => TypeOK'
<1> SUFFICES ASSUME TypeOK, Covered, Next PROVE LinkTypeOK' /\ LogTypes' /\ AlbumTypes'
  BY Groups DEF LinkTypeOK, LogTypes, AlbumTypes, TypeOK
<1>1. LogTypes /\ AlbumTypes /\ LinkTypeOK
  BY Groups
<1>2. /\ UNCHANGED linkVars => LinkTypeOK'
      /\ UNCHANGED logVars => LogTypes'
      /\ UNCHANGED albumVars => AlbumTypes'
  BY <1>1 DEF linkVars, portVars, readVars, logVars, albumVars, LinkTypeOK, LogTypes, AlbumTypes
<1>3. CASE NewActivity
  <2>1. LinkTypeOK'
    BY <1>3, TaskTypes DEF NewActivity
  <2>2. AlbumTypes'
    BY <1>1, <1>3 DEF NewActivity, AlbumTypes
  <2> QED  BY <1>2, <1>3, <2>1, <2>2 DEF NewActivity
<1>4. CASE Link
  BY <1>2, <1>4, TaskTypes, ByteTypes DEF Link, LinkStep
<1>5. ASSUME NEW c \in chunks, OnDataReceived(c)
      PROVE  LinkTypeOK' /\ LogTypes' /\ AlbumTypes'
  <2>1. LinkTypeOK'
    BY <1>5, ByteTypes DEF OnDataReceived
  <2>2. ToSet(mListenerList) \subseteq Activities /\ c \in Seq(Bytes) /\ 0 \in 0..MaxTime
    BY <1>1, DoorAssumption DEF ToSet, LinkTypeOK
  <2>3. [chunk : {c}, activity : ToSet(mListenerList), pc : {"new"}, date : {0}] \subseteq Jobs
    BY <2>2 DEF Jobs
  <2>4. LogTypes'
    BY <1>1, <1>5, <2>3 DEF OnDataReceived, LogTypes
  <2> QED  BY <1>2, <1>5, <2>1, <2>4 DEF OnDataReceived
<1>6. CASE Job
  BY <1>6, JobStepTypes, Groups DEF LinkTypeOK, LogTypes, AlbumTypes, TypeOK
<1>7. CASE Load
  <2>1. PICK i \in 1..Len(loads) : TestList(i) \/ Query(i) \/ PostRows(i)
    BY <1>7 DEF Load
  <2>2. /\ loads[i].rows \in SUBSET Rows
        /\ RemoveAt(loads, i) \in Seq([what : {"query", "test", "clear", "post"}, rows : SUBSET Rows])
        /\ \A rows \in SUBSET Rows, w \in {"clear", "post"} :
             [loads EXCEPT ![i] = [what |-> w, rows |-> rows]] \in Seq([what : {"query", "test", "clear", "post"}, rows : SUBSET Rows])
    BY LoadTypes
  <2>3. CASE Query(i)
    <3>1. door' \subseteq Rows /\ \A r1, r2 \in door' : r1.time = r2.time => r1 = r2
      BY <1>1, <2>3 DEF Query, LogTypes
    <3>2. LogTypes' /\ AlbumTypes'
      BY <1>1, <2>2, <2>3, <3>1 DEF Query, LogTypes, AlbumTypes
    <3> QED  BY <1>2, <2>3, <3>2 DEF Query
  <2>4. CASE PostRows(i)
    <3>1. mainQueue' \in Seq([what : {"update", "list"}, rows : SUBSET Rows])
      BY <2>2, <2>4, QueueTypes DEF PostRows
    <3> QED  BY <1>1, <1>2, <2>2, <2>4, <3>1 DEF PostRows, AlbumTypes
  <2>5. CASE TestList(i)
    <3>1. AlbumTypes'
      BY <1>1, <2>2, <2>5 DEF TestList, AlbumTypes
    <3> QED  BY <1>2, <2>5, <3>1 DEF TestList
  <2> QED  BY <2>1, <2>3, <2>4, <2>5
<1>8. CASE OpenAlbum
  <2>1. AlbumTypes'
    BY <1>1, <1>8, QueueTypes DEF OpenAlbum, AlbumTypes
  <2> QED  BY <1>2, <1>8, <2>1 DEF OpenAlbum
<1>9. CASE DeleteAll
  <2>1. AlbumTypes'
    BY <1>1, <1>9, QueueTypes DEF DeleteAll, AlbumTypes
  <2> QED  BY <1>2, <1>9, <2>1 DEF DeleteAll
<1>10. CASE MainHandles
  <2>1. /\ mainQueue' \in Seq([what : {"update", "list"}, rows : SUBSET Rows])
        /\ list' \subseteq Rows
    BY <1>1, <1>10, QueueTypes DEF MainHandles, AlbumTypes
  <2>2. /\ loads' \in Seq([what : {"query", "test", "clear", "post"}, rows : SUBSET Rows])
        /\ overtaken' \in BOOLEAN
    BY <1>1, <1>10, QueueTypes DEF MainHandles, AlbumTypes
  <2>3. AlbumTypes'
    BY <1>1, <1>10, <2>1, <2>2 DEF MainHandles, AlbumTypes
  <2> QED  BY <1>2, <1>10, <2>3 DEF MainHandles
<1>11. CASE Tick
  BY <1>1, <1>2, <1>11, DoorAssumption DEF Tick, LogTypes, Start
<1> QED  BY <1>3, <1>4, <1>5, <1>6, <1>7, <1>8, <1>9, <1>10, <1>11 DEF Next

-----------------------------------------------------------------------------
(* Opening the port. *)

\* What has to do with the port changes in the tasks of openSerialPort only.
LEMMA PortStep == TypeOK /\ Port /\ Next => Port'
<1> SUFFICES ASSUME TypeOK, Port, Next PROVE Port'
  OBVIOUS
<1>1. /\ opening \in [Activities -> {"none", "check", "open", "start", "tell", "done"}]
      /\ serialIsOpen \in [Activities -> BOOLEAN] /\ readers \subseteq Activities
      /\ overlapped \in BOOLEAN /\ mPort \in BOOLEAN /\ mWriter \in BOOLEAN
      /\ Activities \subseteq Int
  BY DEF TypeOK, LinkTypeOK, Activities
<1>2. ASSUME NEW a \in Activities, CreateActivity(a) PROVE Port'
  <2>1. /\ opening' = [opening EXCEPT ![a] = "check"] /\ opening[a] = "none"
        /\ \A b \in Activities : b < a => opening[b] # "none"
        /\ UNCHANGED <<mPort, mWriter, serialIsOpen, overlapped, npe, readers>>
    BY <1>2 DEF CreateActivity, At, Activities, readVars
  <2>2. /\ opening'[a] = "check" /\ \A b \in Activities \ {a} : opening'[b] = opening[b]
        /\ \A b \in Activities : a < b => opening[b] = "none"
    BY <1>1, <2>1 DEF Port
  <2> QED  BY <1>1, <2>1, <2>2 DEF Port, InTask
<1>3. ASSUME NEW a \in Activities, CheckPort(a) PROVE Port'
  <2>1. /\ opening[a] = "check" /\ opening'[a] = IF mPort THEN "tell" ELSE "open"
        /\ \A b \in Activities \ {a} : opening'[b] = opening[b]
        /\ overlapped' = (overlapped \/ \E b \in Activities \ {a} : InTask(b))
        /\ UNCHANGED <<mPort, mWriter, serialIsOpen, npe, readers>>
    BY <1>1, <1>3 DEF CheckPort, At, readVars
  <2>2. ~overlapped' => ~overlapped /\ \A b \in Activities \ {a} : ~InTask(b)
    BY <2>1
  <2> QED  BY <1>1, <2>1, <2>2 DEF Port, InTask
<1>4. ASSUME NEW a \in Activities, OpenPort(a) PROVE Port'
  <2>1. /\ opening[a] = "open" /\ \A b \in Activities \ {a} : opening'[b] = opening[b]
        /\ \/ opening'[a] = "start" /\ mPort' /\ UNCHANGED serialIsOpen
           \/ opening'[a] = "tell" /\ UNCHANGED mPort /\ serialIsOpen' = [serialIsOpen EXCEPT ![a] = FALSE]
        /\ UNCHANGED <<mWriter, overlapped, npe, readers>>
    BY <1>1, <1>4 DEF OpenPort, At, readVars
  <2> QED  BY <1>1, <2>1 DEF Port, InTask
<1>5. ASSUME NEW a \in Activities, StartReader(a) PROVE Port'
  <2>1. /\ opening[a] = "start" /\ opening'[a] = "tell" /\ \A b \in Activities \ {a} : opening'[b] = opening[b]
        /\ mWriter' /\ readers' = readers \cup {a}
        /\ UNCHANGED <<mPort, serialIsOpen, overlapped, npe>>
    BY <1>1, <1>5 DEF StartReader, At
  <2>2. ~overlapped => mPort /\ readers = {}
    BY <2>1 DEF Port
  <2> QED  BY <1>1, <2>1, <2>2 DEF Port, InTask
<1>6. ASSUME NEW a \in Activities, TellSuccess(a) PROVE Port'
  <2>1. /\ opening[a] = "tell" /\ opening'[a] = "done" /\ \A b \in Activities \ {a} : opening'[b] = opening[b]
        /\ \A b \in Activities \ {a} : serialIsOpen'[b] = serialIsOpen[b]
        /\ UNCHANGED <<mPort, mWriter, overlapped, npe, readers>>
    BY <1>1, <1>6 DEF TellSuccess, At, readVars
  <2> QED  BY <1>1, <2>1 DEF Port, InTask
<1>7. CASE Send
  <2>1. PICK a \in Activities : Latest(a) /\ serialIsOpen[a] /\ mPort /\ ~mWriter
    BY <1>7 DEF Send
  <2>2. overlapped
    <3> SUFFICES ASSUME ~overlapped PROVE FALSE
      BY <1>1
    <3>1. PICK b \in Activities : opening[b] = "start"
      BY <2>1 DEF Port
    <3>2. opening[a] = "done"
      BY <2>1 DEF Port
    <3>3. b < a
      BY <1>1, <2>1, <3>1, <3>2 DEF Latest, Created
    <3> QED  BY <3>1, <3>2, <3>3 DEF Port, InTask
  <2> QED  BY <1>7, <2>2 DEF Send, Port, InTask, readVars
<1>8. ASSUME UNCHANGED <<opening, mPort, mWriter, serialIsOpen, overlapped, npe, readers>>
      PROVE  Port'
  BY <1>8 DEF Port, InTask
<1>9. \/ UNCHANGED <<opening, mPort, mWriter, serialIsOpen, overlapped, npe, readers>>
      \/ Send
      \/ \E a \in Activities : CreateActivity(a) \/ CheckPort(a) \/ OpenPort(a) \/ StartReader(a) \/ TellSuccess(a)
  <2>1. CASE Link
    BY <2>1 DEF Link, LinkStep, ReadFirst, ReadRest, LockSends, portVars
  <2>2. CASE NewActivity
    BY <2>2 DEF NewActivity
  <2>3. CASE ~Link /\ ~NewActivity
    BY <2>3 DEF Next, OnDataReceived, Report, Job, TakeDate, Filter, ShowMessage, IsExit, InsertRow, Notify,
       JobUnchanged, Load, TestList, Query, PostRows, OpenAlbum, DeleteAll, MainHandles, Tick, linkVars, portVars, readVars
  <2> QED  BY <2>1, <2>2, <2>3
<1> QED  BY <1>2, <1>3, <1>4, <1>5, <1>6, <1>7, <1>8, <1>9

-----------------------------------------------------------------------------
(* The filter and the table. *)

\* What a step may do to the log.
LEMMA LogSteps ==
  Next => \/ UNCHANGED logVars
          \/ \E c \in chunks : OnDataReceived(c)
          \/ Job
          \/ \E i \in 1..Len(loads) : Query(i)
          \/ Tick
BY DEF Next, NewActivity, Link, Load, TestList, PostRows, OpenAlbum, DeleteAll, MainHandles

\* A date that is kept stays kept, a new date comes from the clock, and a dropped one is
\* near the date nowTime has, which time has not left behind.
LEMMA CoveredStep == TypeOK /\ Covered /\ Next => Covered'
<1> SUFFICES ASSUME TypeOK, Covered, Next PROVE Covered'
  OBVIOUS
<1>1. /\ clock \in Start..MaxTime /\ nowTime \in [Activities -> 0..MaxTime] /\ jobs \subseteq Jobs
      /\ handled \cup logged \cup hidden \subseteq Start..MaxTime
      /\ Start \in Int /\ MaxTime \in Nat /\ Window \in Nat \ {0} /\ Start = Window + 1
  BY DoorAssumption DEF TypeOK, Start
<1>2. ASSUME UNCHANGED <<clock, nowTime, jobs, handled, logged, hidden>> PROVE Covered'
  BY <1>2 DEF Covered, Kept
<1>3. ASSUME NEW c \in chunks, OnDataReceived(c) PROVE Covered'
  <2>1. /\ jobs \subseteq jobs' /\ \A j \in jobs' \ jobs : j.pc = "new"
        /\ UNCHANGED <<clock, nowTime, handled, logged, hidden>>
    BY <1>3 DEF OnDataReceived
  <2>2. \A d : Kept(d) => Kept(d)'
    BY <2>1 DEF Kept
  <2> QED  BY <1>1, <2>1, <2>2 DEF Covered
<1>4. CASE Tick
  <2>1. /\ clock' = clock + 1 /\ \A j \in jobs : j.pc = "new" \/ j.date = clock
        /\ UNCHANGED <<nowTime, jobs, handled, logged, hidden>>
    BY <1>4 DEF Tick
  <2>2. \A d : Kept(d) => Kept(d)'
    BY <2>1 DEF Kept
  <2> QED  BY <1>1, <2>1, <2>2 DEF Covered
<1>5. ASSUME NEW j \in jobs,
             TakeDate(j) \/ Filter(j) \/ ShowMessage(j) \/ IsExit(j) \/ InsertRow(j) \/ Notify(j)
      PROVE  Covered'
  <2>1. /\ j \in Jobs /\ j.activity \in Activities /\ j.date \in 0..MaxTime
        /\ DOMAIN j = {"chunk", "activity", "date", "pc"} /\ UNCHANGED clock
    BY <1>1, <1>5 DEF Jobs, TakeDate, Filter, ShowMessage, IsExit, InsertRow, Notify, JobUnchanged
  <2>2. CASE TakeDate(j)
    <3> DEFINE k == [j EXCEPT !.pc = "filter", !.date = clock]
    <3>1. k.date = clock /\ k.pc = "filter" /\ j.pc = "new"
      BY <2>1, <2>2 DEF TakeDate, Jobs
    <3>2. jobs' = (jobs \ {j}) \cup {k} /\ UNCHANGED <<nowTime, handled, logged, hidden>>
      BY <2>2 DEF TakeDate, Continue
    <3> HIDE DEF k
    <3>3. \A d : Kept(d) => Kept(d)'
      BY <3>1, <3>2 DEF Kept
    <3> QED  BY <1>1, <2>1, <3>1, <3>2, <3>3 DEF Covered
  <2>3. CASE Filter(j)
    <3> DEFINE k == [j EXCEPT !.pc = "views"]
    <3>1. k.date = j.date /\ k.pc = "views" /\ j.pc = "filter"
      BY <2>1, <2>3 DEF Filter, Jobs
    <3>2. /\ jobs' \subseteq (jobs \ {j}) \cup {k} /\ jobs \ {j} \subseteq jobs'
          /\ UNCHANGED <<nowTime, logged, hidden>>
          /\ \/ UNCHANGED handled
             \/ handled' = handled \cup {j.date} /\ j.date - nowTime[j.activity] <= Window
      BY <2>3 DEF Filter, Continue, EndJob
    <3> HIDE DEF k
    <3>3. \A d : Kept(d) => Kept(d)'
      BY <3>1, <3>2 DEF Kept
    <3>4. ASSUME j.date - nowTime[j.activity] <= Window
          PROVE  /\ nowTime[j.activity] \in Start..MaxTime /\ Kept(nowTime[j.activity])
                 /\ Near(j.date, nowTime[j.activity])
      <4>1. j.date \in Start..clock /\ clock <= j.date + 1 /\ nowTime[j.activity] <= clock
        BY <2>1, <3>1 DEF Covered
      <4>2. nowTime[j.activity] # 0 /\ nowTime[j.activity] \in 0..MaxTime
        BY <1>1, <2>1, <3>4, <4>1
      <4>3. Kept(nowTime[j.activity])
        BY <2>1, <4>2 DEF Covered
      <4>4. nowTime[j.activity] \in Start..MaxTime
        <5>1. CASE nowTime[j.activity] \in logged \cup hidden
          BY <1>1, <5>1
        <5>2. CASE nowTime[j.activity] \notin logged \cup hidden
          <6>1. PICK i \in jobs : i.pc \in {"exists", "insert"} /\ i.date = nowTime[j.activity]
            BY <4>3, <5>2 DEF Kept
          <6>2. i.date \in Start..clock
            BY <6>1 DEF Covered
          <6> QED  BY <1>1, <6>1, <6>2
        <5> QED  BY <5>1, <5>2
      <4> QED  BY <1>1, <2>1, <3>4, <4>1, <4>2, <4>3, <4>4 DEF Near
    <3>5. \A d \in handled' : \E e \in Start..MaxTime : Kept(e) /\ Near(d, e)
      BY <3>2, <3>4 DEF Covered
    <3>6. \A i \in jobs' : i.pc # "new" => i.date \in Start..clock' /\ clock' <= i.date + 1
      BY <2>1, <3>1, <3>2 DEF Covered
    <3> QED  BY <2>1, <3>2, <3>3, <3>5, <3>6 DEF Covered
  <2>4. CASE ShowMessage(j)
    <3> DEFINE k == [j EXCEPT !.pc = "exists"]
    <3>1. k.date = j.date /\ k.pc = "exists" /\ j.pc = "views"
      BY <2>1, <2>4 DEF ShowMessage, Jobs
    <3>2. /\ jobs' \subseteq (jobs \ {j}) \cup {k} /\ jobs \ {j} \subseteq jobs'
          /\ UNCHANGED <<handled, logged, hidden>>
          /\ \/ UNCHANGED nowTime
             \/ nowTime' = [nowTime EXCEPT ![j.activity] = j.date] /\ k \in jobs'
      BY <2>4 DEF ShowMessage, Continue, EndJob
    <3> HIDE DEF k
    <3>3. \A d : Kept(d) => Kept(d)'
      BY <3>1, <3>2 DEF Kept
    <3>4. j.date \in Start..clock /\ clock <= j.date + 1
      BY <3>1 DEF Covered
    <3>5. k \in jobs' => Kept(j.date)'
      BY <3>1 DEF Kept
    <3>6. \A a \in Activities : nowTime'[a] = nowTime[a] \/ (nowTime'[a] = j.date /\ k \in jobs')
      BY <1>1, <3>2
    <3>7. \A a \in Activities : nowTime'[a] <= clock' /\ (nowTime'[a] # 0 => Kept(nowTime[a])')
      <4> SUFFICES ASSUME NEW a \in Activities
                   PROVE  nowTime'[a] <= clock' /\ (nowTime'[a] # 0 => Kept(nowTime[a])')
        OBVIOUS
      <4>1. nowTime[a] <= clock /\ (nowTime[a] # 0 => Kept(nowTime[a]))
        BY DEF Covered
      <4>2. CASE nowTime'[a] = nowTime[a]
        BY <2>1, <3>3, <4>1, <4>2 DEF Kept
      <4>3. CASE nowTime'[a] = j.date /\ k \in jobs'
        BY <1>1, <2>1, <3>1, <3>4, <4>3 DEF Kept
      <4> QED  BY <3>6, <4>2, <4>3
    <3>8. \A i \in jobs' : i.pc # "new" => i.date \in Start..clock' /\ clock' <= i.date + 1
      BY <2>1, <3>1, <3>2 DEF Covered
    <3> QED  BY <3>2, <3>3, <3>7, <3>8 DEF Covered
  <2>5. CASE IsExit(j) \/ InsertRow(j)
    <3>1. /\ j.pc \in {"exists", "insert"} /\ UNCHANGED nowTime
          /\ \E k \in Jobs : /\ k.date = j.date /\ k.pc \in {"insert", "notify"}
                             /\ jobs' \subseteq (jobs \ {j}) \cup {k} /\ jobs \ {j} \subseteq jobs'
                             /\ \/ UNCHANGED <<handled, logged, hidden>> /\ k.pc = "insert" /\ k \in jobs'
                                \/ /\ handled' = handled \cup {j.date}
                                   /\ logged' \cup hidden' = logged \cup hidden \cup {j.date}
      <4>1. CASE IsExit(j)
        BY <2>1, <4>1 DEF IsExit, Continue, Recorded, Jobs
      <4>2. CASE InsertRow(j)
        <5> DEFINE k == [j EXCEPT !.pc = "notify"]
        <5>1. k \in Jobs /\ k.date = j.date /\ k.pc = "notify"
          BY <2>1 DEF Jobs
        <5>2. jobs' \subseteq (jobs \ {j}) \cup {k} /\ jobs \ {j} \subseteq jobs'
          BY <4>2 DEF InsertRow, Continue, EndJob
        <5>3. /\ handled' = handled \cup {j.date} /\ UNCHANGED nowTime /\ j.pc = "insert"
              /\ logged' \cup hidden' = logged \cup hidden \cup {j.date}
          BY <4>2 DEF InsertRow, Recorded
        <5> HIDE DEF k
        <5> QED  BY <5>1, <5>2, <5>3
      <4> QED  BY <2>5, <4>1, <4>2
    <3>2. PICK k \in Jobs : /\ k.date = j.date /\ k.pc \in {"insert", "notify"}
                            /\ jobs' \subseteq (jobs \ {j}) \cup {k} /\ jobs \ {j} \subseteq jobs'
                            /\ \/ UNCHANGED <<handled, logged, hidden>> /\ k.pc = "insert" /\ k \in jobs'
                               \/ /\ handled' = handled \cup {j.date}
                                  /\ logged' \cup hidden' = logged \cup hidden \cup {j.date}
      BY <3>1
    <3>3. j.date \in Start..clock /\ clock <= j.date + 1
      BY <3>1 DEF Covered
    <3>4. Kept(j.date)' /\ \A d : Kept(d) => Kept(d)'
      BY <3>2 DEF Kept
    <3>5. Near(j.date, j.date) /\ j.date \in Start..MaxTime
      BY <1>1, <2>1, <3>3 DEF Near
    <3>6. \A d \in handled' : \E e \in Start..MaxTime : Kept(e)' /\ Near(d, e)
      BY <3>2, <3>4, <3>5 DEF Covered
    <3>7. \A i \in jobs' : i.pc # "new" => i.date \in Start..clock' /\ clock' <= i.date + 1
      BY <2>1, <3>2, <3>3 DEF Covered
    <3>8. \A a \in Activities : nowTime'[a] <= clock' /\ (nowTime'[a] # 0 => Kept(nowTime[a])')
      BY <2>1, <3>1, <3>4 DEF Covered, Kept
    <3> QED  BY <3>6, <3>7, <3>8 DEF Covered
  <2>6. CASE Notify(j)
    <3>1. jobs' = jobs \ {j} /\ j.pc = "notify" /\ UNCHANGED <<nowTime, handled, logged, hidden>>
      BY <2>6 DEF Notify, EndJob
    <3>2. \A d : Kept(d) => Kept(d)'
      BY <3>1 DEF Kept
    <3> QED  BY <2>1, <3>1, <3>2 DEF Covered
  <2> QED  BY <1>5, <2>2, <2>3, <2>4, <2>5, <2>6
<1> QED  BY <1>2, <1>3, <1>4, <1>5, LogSteps DEF Job, Query, logVars

\* With one listener, all coroutines belong to one activity.
LEMMA OneListener ==
  ASSUME TypeOK, Len(mListenerList) <= 1
  PROVE  \A a, b \in ToSet(mListenerList) : a = b
<1>1. mListenerList \in Seq(Activities) /\ DOMAIN mListenerList = 1..Len(mListenerList) /\ Len(mListenerList) \in Nat
  BY DEF TypeOK, LinkTypeOK
<1> QED  BY <1>1 DEF ToSet

\* Dates pass the filter in order: a coroutine that is about to set nowTime is alone,
\* and its date is beyond the window of all that passed.
LEMMA OnceStep == TypeOK /\ Once /\ Next => Once'
<1> SUFFICES ASSUME TypeOK, Once, Next PROVE Once'
  OBVIOUS
<1>1. /\ nowTime \in [Activities -> 0..MaxTime] /\ jobs \subseteq Jobs /\ together \in BOOLEAN
      /\ mListenerList \in Seq(Activities) /\ Len(mListenerList) \in Nat
      /\ logged \subseteq Int /\ MaxTime \in Nat /\ Window \in Nat
  BY DoorAssumption DEF TypeOK, LinkTypeOK, Start
<1>2. Passed \subseteq Int
  <2>1. \A k \in jobs : k.date \in Int
    BY <1>1 DEF Jobs
  <2> QED  BY <1>1, <2>1 DEF Passed
<1>3. ASSUME NEW a \in Activities, TellSuccess(a), UNCHANGED <<nowTime, jobs, logged, together>>
      PROVE  Once'
  <2>1. mListenerList' = Append(mListenerList, a) /\ mListenerList' \in Seq(Activities)
    BY <1>1, <1>3, AppendProperties DEF TellSuccess
  <2>2. /\ Len(mListenerList') = Len(mListenerList) + 1
        /\ \A i \in 1..Len(mListenerList) : mListenerList'[i] = mListenerList[i]
    BY <1>1, <2>1, AppendProperties
  <2>3. ToSet(mListenerList) \subseteq ToSet(mListenerList')
    BY <1>1, <2>1, <2>2 DEF ToSet
  <2>4. mListenerList' # <<>>
    BY <1>1, <2>1, <2>2
  <2>5. Len(mListenerList') <= 1 => jobs = {} /\ logged = {}
    <3> SUFFICES ASSUME Len(mListenerList') <= 1 PROVE jobs = {} /\ logged = {}
      OBVIOUS
    <3>1. mListenerList = <<>>
      BY <1>1, <2>2
    <3>2. ToSet(mListenerList) = {}
      BY <3>1 DEF ToSet
    <3> QED  BY <3>1, <3>2 DEF Once
  <2> QED  BY <1>3, <2>3, <2>4, <2>5 DEF Once, Passed
<1>4. ASSUME UNCHANGED <<mListenerList, nowTime, jobs, logged, together>> PROVE Once'
  BY <1>4 DEF Once, Passed
<1>5. ASSUME NEW c \in chunks, OnDataReceived(c) PROVE Once'
  <2>1. /\ \A j \in jobs' : j \in jobs \/ (j.pc = "new" /\ j.activity \in ToSet(mListenerList))
        /\ jobs \subseteq jobs'
        /\ UNCHANGED <<mListenerList, nowTime, logged, together>>
    <3>1. /\ UNCHANGED <<mListenerList, nowTime, logged, together>>
          /\ \/ jobs' = jobs
             \/ jobs' = jobs \cup [chunk : {c}, activity : ToSet(mListenerList), pc : {"new"}, date : {0}]
      BY <1>5 DEF OnDataReceived, Report, portVars
    <3>2. \A j \in [chunk : {c}, activity : ToSet(mListenerList), pc : {"new"}, date : {0}] :
            j.pc = "new" /\ j.activity \in ToSet(mListenerList)
      OBVIOUS
    <3> QED  BY <3>1, <3>2
  <2>2. Passed' = Passed
    BY <2>1 DEF Passed
  <2> QED  BY <2>1, <2>2 DEF Once
<1>6. ASSUME NEW j \in jobs,
             TakeDate(j) \/ Filter(j) \/ ShowMessage(j) \/ IsExit(j) \/ InsertRow(j) \/ Notify(j)
      PROVE  Once'
  <2>1. /\ j \in Jobs /\ j.date \in 0..MaxTime /\ j.activity \in ToSet(mListenerList) /\ j.activity \in Activities
        /\ UNCHANGED mListenerList
    BY <1>1, <1>6 DEF Once, Jobs, TakeDate, Filter, ShowMessage, IsExit, InsertRow, Notify, JobUnchanged,
                      linkVars, portVars
  <2>2. \A l \in {"new", "filter", "views", "exists", "insert", "notify"}, d \in 0..MaxTime :
          /\ [j EXCEPT !.pc = l].pc = l /\ [j EXCEPT !.pc = l].date = j.date
          /\ [j EXCEPT !.pc = l].activity = j.activity
          /\ [j EXCEPT !.pc = l, !.date = d].pc = l
          /\ [j EXCEPT !.pc = l, !.date = d].activity = j.activity
    BY <2>1 DEF Jobs
  <2>3. CASE TakeDate(j)
    <3> DEFINE k == [j EXCEPT !.pc = "filter", !.date = clock]
    <3>1. /\ jobs' = (jobs \ {j}) \cup {k} /\ k.pc = "filter" /\ k.activity = j.activity
          /\ j.pc = "new" /\ UNCHANGED <<nowTime, logged, together>>
      BY <2>1, <2>3 DEF TakeDate, Continue, Jobs
    <3> HIDE DEF k
    <3>2. Passed' = Passed
      BY <3>1 DEF Passed
    <3> QED  BY <2>1, <3>1, <3>2 DEF Once
  <2>4. CASE Filter(j)
    <3>1. j.pc = "filter" /\ UNCHANGED <<nowTime, logged>>
      BY <2>4 DEF Filter
    <3>2. CASE j.date - nowTime[j.activity] <= Window
      <4>1. jobs' = jobs \ {j} /\ UNCHANGED together
        BY <2>4, <3>2 DEF Filter, EndJob
      <4>2. Passed' = Passed
        BY <3>1, <4>1 DEF Passed
      <4> QED  BY <2>1, <3>1, <4>1, <4>2 DEF Once
    <3>3. CASE ~(j.date - nowTime[j.activity] <= Window)
      <4> DEFINE k == [j EXCEPT !.pc = "views"]
      <4>1. /\ jobs' = (jobs \ {j}) \cup {k} /\ k.pc = "views" /\ k.activity = j.activity
            /\ k.date = j.date
            /\ together' = (together \/ \E i \in jobs \ {j} : i.pc = "views")
        BY <2>2, <2>4, <3>3 DEF Filter, Continue
      <4> HIDE DEF k
      <4>2. Passed' = Passed
        BY <3>1, <4>1 DEF Passed
      <4>3. j.date > nowTime[j.activity] + Window
        BY <1>1, <2>1, <3>3
      <4>4. /\ \A i \in jobs' : i.activity \in ToSet(mListenerList)
            /\ mListenerList = <<>> => logged = {}
        BY <2>1, <4>1 DEF Once
      <4>5. ASSUME Len(mListenerList) <= 1, ~together', NEW a \in ToSet(mListenerList)
            PROVE  /\ \A i \in jobs' : i.pc = "views" =>
                        i.date > nowTime[a] + Window /\ \A m \in jobs' : m.pc = "views" => m = i
                   /\ \A d \in Passed : d <= nowTime[a] /\ \A e \in Passed : d # e => ~Near(d, e)
        <5>1. a = j.activity /\ ~together
          BY <2>1, <4>1, <4>5, OneListener
        <5>2. \A i \in jobs' : i.pc = "views" => i = k
          BY <4>1, <4>5
        <5>3. \A d \in Passed : d <= nowTime[a] /\ \A e \in Passed : d # e => ~Near(d, e)
          BY <4>5, <5>1 DEF Once
        <5> QED  BY <4>1, <4>3, <5>1, <5>2, <5>3
      <4> QED  BY <2>1, <3>1, <4>2, <4>4, <4>5 DEF Once
    <3> QED  BY <3>2, <3>3
  <2>5. CASE ShowMessage(j)
    <3>1. j.pc = "views" /\ UNCHANGED <<logged, together>>
      BY <2>5 DEF ShowMessage
    <3>2. CASE jobs' = jobs \ {j} /\ UNCHANGED nowTime
      <4>1. Passed' = Passed
        BY <3>1, <3>2 DEF Passed
      <4> QED  BY <2>1, <3>1, <3>2, <4>1 DEF Once
    <3>3. CASE /\ jobs' = (jobs \ {j}) \cup {[j EXCEPT !.pc = "exists"]}
               /\ nowTime' = [nowTime EXCEPT ![j.activity] = j.date]
      <4> DEFINE k == [j EXCEPT !.pc = "exists"]
      <4>1. /\ jobs' = (jobs \ {j}) \cup {k} /\ k.pc = "exists" /\ k.activity = j.activity
            /\ k.date = j.date
        BY <2>2, <3>3
      <4> HIDE DEF k
      <4>2. Passed' = Passed \cup {j.date}
        BY <3>1, <4>1 DEF Passed
      <4>3. /\ \A i \in jobs' : i.activity \in ToSet(mListenerList)
            /\ mListenerList = <<>> => logged = {}
        BY <2>1, <4>1 DEF Once
      <4>4. ASSUME Len(mListenerList) <= 1, ~together, NEW a \in ToSet(mListenerList)
            PROVE  /\ \A i \in jobs' : i.pc # "views"
                   /\ \A d \in Passed' : d <= nowTime'[a] /\ \A e \in Passed' : d # e => ~Near(d, e)
        <5>1. a = j.activity /\ nowTime'[a] = j.date
          BY <1>1, <2>1, <3>3, <4>4, OneListener
        <5>2. j.date > nowTime[a] + Window /\ \A i \in jobs : i.pc = "views" => i = j
          BY <3>1, <4>4 DEF Once
        <5>3. \A d \in Passed : d <= nowTime[a] /\ \A e \in Passed : d # e => ~Near(d, e)
          BY <4>4 DEF Once
        <5>4. nowTime[a] \in Int /\ j.date \in Int
          BY <1>1, <2>1, <5>1
        <5>5. \A d \in Passed : d < j.date /\ ~Near(d, j.date) /\ ~Near(j.date, d)
          BY <1>1, <1>2, <5>2, <5>3, <5>4 DEF Near
        <5>6. \A i \in jobs' : i.pc # "views"
          BY <4>1, <5>2
        <5>7. \A d \in Passed' : d <= nowTime'[a]
          <6>1. j.date <= j.date
            BY <5>4
          <6>2. \A d \in Passed : d <= j.date
            BY <1>2, <5>4, <5>5
          <6> QED  BY <4>2, <5>1, <6>1, <6>2
        <5>8. \A d, e \in Passed' : d # e => ~Near(d, e)
          BY <4>2, <5>3, <5>5
        <5> QED  BY <5>6, <5>7, <5>8
      <4> QED  BY <2>1, <3>1, <4>3, <4>4 DEF Once
    <3> QED  BY <2>5, <3>2, <3>3 DEF ShowMessage, EndJob, Continue
  <2>6. CASE IsExit(j) \/ InsertRow(j)
    <3>1. /\ j.pc \in {"exists", "insert"} /\ UNCHANGED <<nowTime, together>>
          /\ logged \subseteq logged' /\ logged' \subseteq logged \cup {j.date}
      BY <2>6 DEF IsExit, InsertRow, Recorded
    <3>2. PICK k \in {[j EXCEPT !.pc = "insert"], [j EXCEPT !.pc = "notify"]} : jobs' \subseteq (jobs \ {j}) \cup {k}
      BY <2>6 DEF IsExit, InsertRow, EndJob, Continue
    <3>3. k.pc \in {"insert", "notify"} /\ k.activity = j.activity /\ k.date = j.date
      <4>1. \A l \in {"insert", "notify"} :
              [j EXCEPT !.pc = l].pc = l /\ [j EXCEPT !.pc = l].activity = j.activity /\ [j EXCEPT !.pc = l].date = j.date
        BY <2>2
      <4>2. CASE k = [j EXCEPT !.pc = "insert"]
        BY <4>1, <4>2
      <4>3. CASE k = [j EXCEPT !.pc = "notify"]
        BY <4>1, <4>3
      <4> QED  BY <4>2, <4>3
    <3>4. Passed' \subseteq Passed
      BY <3>1, <3>2, <3>3 DEF Passed
    <3>5. \A i \in jobs' : i.pc = "views" => i \in jobs
      BY <3>2, <3>3
    <3>6. mListenerList # <<>>
      BY <2>1 DEF ToSet
    <3>7. \A i \in jobs' : i.activity \in ToSet(mListenerList)
      BY <2>1, <3>2, <3>3 DEF Once
    <3>8. ASSUME Len(mListenerList) <= 1, ~together, NEW a \in ToSet(mListenerList)
          PROVE  /\ \A i \in jobs' : i.pc = "views" =>
                        i.date > nowTime[a] + Window /\ \A m \in jobs' : m.pc = "views" => m = i
                 /\ \A d \in Passed' : d <= nowTime[a] /\ \A e \in Passed' : d # e => ~Near(d, e)
      BY <3>4, <3>5, <3>8 DEF Once
    <3> QED  BY <2>1, <3>1, <3>6, <3>7, <3>8 DEF Once
  <2>7. CASE Notify(j)
    <3>1. jobs' = jobs \ {j} /\ j.pc = "notify" /\ UNCHANGED <<nowTime, logged, together>>
      BY <2>7 DEF Notify, EndJob
    <3>2. Passed' = Passed
      BY <3>1 DEF Passed
    <3> QED  BY <2>1, <3>1, <3>2 DEF Once
  <2> QED  BY <1>6, <2>3, <2>4, <2>5, <2>6, <2>7
<1>7. \/ \E a \in Activities : TellSuccess(a) /\ UNCHANGED <<nowTime, jobs, logged, together>>
      \/ UNCHANGED <<mListenerList, nowTime, jobs, logged, together>>
      \/ \E c \in chunks : OnDataReceived(c)
      \/ Job
  <2>1. CASE Link
    BY <2>1 DEF Link, LinkStep, LockSends, Send, ReadFirst, ReadRest, CheckPort, OpenPort, StartReader,
                portVars, logVars
  <2>2. CASE NewActivity
    BY <2>2 DEF NewActivity, CreateActivity, logVars
  <2>3. CASE ~Link /\ ~NewActivity
    BY <2>3 DEF Next, Load, TestList, Query, PostRows, OpenAlbum, DeleteAll, MainHandles, Tick, linkVars, portVars,
                logVars
  <2> QED  BY <2>1, <2>2, <2>3
<1> QED  BY <1>3, <1>4, <1>5, <1>6, <1>7 DEF Job

-----------------------------------------------------------------------------
(* The album. *)

\* A message posted is the last one.
LEMMA Posting ==
  ASSUME TypeOK, NEW m, mainQueue' = Append(mainQueue, m)
  PROVE  /\ Len(mainQueue) \in Nat /\ Len(mainQueue') = Len(mainQueue) + 1
         /\ \A i \in 1..Len(mainQueue) : mainQueue'[i] = mainQueue[i]
         /\ mainQueue'[Len(mainQueue) + 1] = m
         /\ Shown' = Shown \cup {i \in {Len(mainQueue) + 1} : m.what = "list"}
<1>1. mainQueue \in Seq([what : {"update", "list"}, rows : SUBSET Rows]) /\ Len(mainQueue) \in Nat
  BY DEF TypeOK
<1>2. /\ Len(mainQueue') = Len(mainQueue) + 1
      /\ \A i \in 1..Len(mainQueue) : mainQueue'[i] = mainQueue[i]
      /\ mainQueue'[Len(mainQueue) + 1] = m
  BY <1>1
<1>3. \A i : i \in 1..Len(mainQueue') <=> i \in 1..Len(mainQueue) \/ i = Len(mainQueue) + 1
  BY <1>1, <1>2
<1>4. Len(mainQueue) + 1 \notin 1..Len(mainQueue)
  BY <1>1
<1> QED  BY <1>1, <1>2, <1>3, <1>4 DEF Shown, IsList

\* A load that begins is the only one, unless it overtakes another.
LEMMA Loading ==
  ASSUME TypeOK, NEW w \in {"query", "test"}, BeginLoad(w), ~overtaken'
  PROVE  /\ ~overtaken /\ loads = <<>> /\ Shown = {}
         /\ Len(loads') <= 1 /\ loads' # <<>> /\ loads'[1].what = w
<1>1. ~overtaken /\ loads = <<>> /\ Shown = {}
  BY DEF BeginLoad, Shown, IsList, TypeOK
<1>2. loads' = <<[what |-> w, rows |-> {}]>>
  BY <1>1 DEF BeginLoad
<1> QED  BY <1>1, <1>2

\* When the only load ends, there is none.
LEMMA OnlyLoadEnds ==
  ASSUME TypeOK, Len(loads) = 1
  PROVE  RemoveAt(loads, 1) = <<>>
<1>1. loads \in Seq([what : {"query", "test", "clear", "post"}, rows : SUBSET Rows])
  BY DEF TypeOK
<1>2. SubSeq(loads, 1, 0) = <<>> /\ SubSeq(loads, 2, Len(loads)) = <<>>
  BY <1>1, SubSeqEmpty
<1>3. <<>> \o <<>> = <<>>
  BY ConcatEmptySeq, EmptySeq
<1> QED  BY <1>2, <1>3 DEF RemoveAt

\* A row that is inserted, or an update that is lost to nobody, leaves a refresh due;
\* a refresh that begins alone brings the table as it is then.
LEMMA RefreshedStep == IInv /\ Next => Refreshed'
<1> SUFFICES ASSUME IInv, Next PROVE Refreshed'
  OBVIOUS
<1>1. /\ TypeOK /\ Refreshed /\ overtaken \in BOOLEAN /\ replaced \in BOOLEAN /\ ~replaced
      /\ jobs \subseteq Jobs /\ Len(loads) \in Nat /\ Len(mainQueue) \in Nat
      /\ loads # <<>> <=> Len(loads) # 0
  BY DEF IInv, TypeOK, Next, Alive
<1>2. ASSUME UNCHANGED <<album, loads, mainQueue, list, overtaken, replaced>>,
             \A j \in jobs : j.pc = "notify" => j \in jobs',
             door' = door \/ \E j \in jobs' : j.pc = "notify"
      PROVE  Refreshed'
  <2>1. Shown' = Shown /\ (Due => Due')
    BY <1>2 DEF Shown, IsList, Due
  <2>2. door' = door \/ Due'
    BY <1>2 DEF Due
  <2> QED  BY <1>1, <1>2, <2>1, <2>2 DEF Refreshed, Idle
<1>3. CASE NewActivity
  <2>1. /\ album' = 0 /\ replaced' = (replaced \/ loads # <<>> \/ Shown # {})
        /\ UNCHANGED <<loads, mainQueue, overtaken>>
    BY <1>3 DEF NewActivity, Shown, IsList
  <2>2. Shown' = Shown
    BY <2>1 DEF Shown, IsList
  <2> QED  BY <1>1, <2>1, <2>2 DEF Refreshed
<1>4. CASE Link
  BY <1>2, <1>4 DEF Link, logVars, albumVars
<1>5. ASSUME NEW c \in chunks, OnDataReceived(c) PROVE Refreshed'
  BY <1>2, <1>5 DEF OnDataReceived, albumVars
<1>6. ASSUME NEW j \in jobs,
             TakeDate(j) \/ Filter(j) \/ ShowMessage(j) \/ IsExit(j) \/ InsertRow(j) \/ Notify(j)
      PROVE  Refreshed'
  <2>1. j \in Jobs /\ UNCHANGED <<album, loads, list, overtaken, replaced>>
    BY <1>1, <1>6 DEF TakeDate, Filter, ShowMessage, IsExit, InsertRow, Notify, JobUnchanged
  <2>2. CASE TakeDate(j) \/ Filter(j) \/ ShowMessage(j) \/ IsExit(j)
    <3>1. j.pc # "notify" /\ door' = door /\ UNCHANGED mainQueue /\ jobs \ {j} \subseteq jobs'
      BY <2>2 DEF TakeDate, Filter, ShowMessage, IsExit, EndJob, Continue
    <3> QED  BY <1>2, <2>1, <3>1
  <2>3. CASE InsertRow(j)
    <3>1. j.pc # "notify" /\ UNCHANGED mainQueue /\ jobs \ {j} \subseteq jobs'
      BY <2>3 DEF InsertRow, EndJob, Continue
    <3>2. door' = door \/ [j EXCEPT !.pc = "notify"] \in jobs'
      BY <2>3 DEF InsertRow, EndJob, Continue
    <3>3. [j EXCEPT !.pc = "notify"].pc = "notify"
      BY <2>1 DEF Jobs
    <3> QED  BY <1>2, <2>1, <3>1, <3>2, <3>3
  <2>4. CASE Notify(j)
    <3> DEFINE m == [what |-> "update", rows |-> {}]
    <3>1. mainQueue' = Append(mainQueue, m) /\ UNCHANGED door
      BY <2>4 DEF Notify, Post
    <3>2. m.what = "update"
      OBVIOUS
    <3> HIDE DEF m
    <3>3. /\ Shown' = Shown \cup {i \in {Len(mainQueue) + 1} : m.what = "list"}
          /\ mainQueue'[Len(mainQueue) + 1] = m /\ Len(mainQueue) + 1 \in 1..Len(mainQueue')
      BY <1>1, <3>1, Posting
    <3>4. Shown' = Shown /\ Due'
      BY <3>2, <3>3 DEF Due
    <3> QED  BY <1>1, <2>1, <3>1, <3>4 DEF Refreshed
  <2> QED  BY <1>6, <2>2, <2>3, <2>4
<1>7. CASE OpenAlbum \/ DeleteAll
  <2>1. PICK w \in {"query", "test"} : BeginLoad(w) /\ (w = "test" => album # 0)
    BY <1>7 DEF OpenAlbum, DeleteAll
  <2>2. /\ album' # 0 /\ UNCHANGED <<jobs, door, mainQueue, list, replaced>>
        /\ w = "test" => album' = album
    BY <1>7, <2>1 DEF OpenAlbum, DeleteAll, BeginLoad, Activities, logVars, TypeOK
  <2>3. CASE overtaken'
    BY <2>2, <2>3 DEF Refreshed
  <2>4. CASE ~overtaken'
    <3>1. /\ ~overtaken /\ loads = <<>> /\ Shown = {}
          /\ Len(loads') <= 1 /\ loads' # <<>> /\ loads'[1].what = w
      BY <1>1, <2>1, <2>4, Loading
    <3>2. Shown' = {}
      BY <2>2, <3>1 DEF Shown, IsList
    <3>3. CASE w = "query"
      BY <2>2, <3>1, <3>2, <3>3 DEF Refreshed, Due
    <3>4. CASE w = "test"
      <4>1. Due => Due'
        BY <2>2, <3>1 DEF Due
      <4>2. Idle' /\ (Due \/ list = door)
        BY <1>1, <2>1, <3>1, <3>4 DEF Refreshed, Idle
      <4> QED  BY <2>2, <3>1, <3>2, <4>1, <4>2 DEF Refreshed
    <3> QED  BY <3>3, <3>4
  <2> QED  BY <2>3, <2>4
<1>8. ASSUME NEW i \in 1..Len(loads), Query(i) PROVE Refreshed'
  <2>1. /\ loads' = [loads EXCEPT ![i] = [what |-> "post", rows |-> door']]
        /\ UNCHANGED <<jobs, album, mainQueue, list, overtaken, replaced>>
    BY <1>8 DEF Query
  <2>2. Shown' = Shown /\ Len(loads') = Len(loads) /\ loads # <<>> /\ loads' # <<>>
    BY <1>1, <2>1 DEF Shown, IsList, TypeOK
  <2>3. ~overtaken => i = 1 /\ loads'[1].rows = door' /\ loads'[1].what = "post"
    BY <1>1, <2>1 DEF Refreshed, TypeOK
  <2> QED  BY <1>1, <2>1, <2>2, <2>3 DEF Refreshed, Idle
<1>9. ASSUME NEW i \in 1..Len(loads), PostRows(i) PROVE Refreshed'
  <2> DEFINE m == [what |-> "list", rows |-> loads[i].rows]
  <2>1. /\ loads[i].what = "post" /\ loads' = RemoveAt(loads, i)
        /\ mainQueue' = Append(mainQueue, m)
        /\ UNCHANGED <<jobs, door, album, list, overtaken, replaced>>
    BY <1>9 DEF PostRows, Post, logVars
  <2>2. m.what = "list" /\ m.rows = loads[i].rows
    OBVIOUS
  <2> HIDE DEF m
  <2>3. /\ Shown' = Shown \cup {Len(mainQueue) + 1} /\ mainQueue'[Len(mainQueue) + 1] = m
        /\ Len(mainQueue') = Len(mainQueue) + 1
        /\ \A k \in 1..Len(mainQueue) : mainQueue'[k] = mainQueue[k]
    BY <1>1, <2>1, <2>2, Posting
  <2>4. loads # <<>>
    BY <1>1
  <2>5. ASSUME ~overtaken
        PROVE  i = 1 /\ Shown = {} /\ loads' = <<>>
    <3>1. i = 1 /\ Len(loads) <= 1 /\ Shown = {}
      <4>1. Len(loads) <= 1 /\ Shown = {}
        BY <1>1, <2>4, <2>5 DEF Refreshed
      <4>2. i \in Int /\ 1 <= i /\ i <= Len(loads)
        BY <1>1
      <4> QED  BY <1>1, <4>1, <4>2
    <3>2. Len(loads) = 1
      <4>1. Len(loads) \in Nat /\ (loads # <<>> <=> Len(loads) # 0)
        BY <1>1 DEF TypeOK
      <4> QED  BY <2>4, <3>1, <4>1
    <3>3. RemoveAt(loads, 1) = <<>>
      BY <1>1, <3>2, OnlyLoadEnds
    <3> QED  BY <2>1, <3>1, <3>3
  <2>6. Due => Due' \/ loads[1].what \in {"query", "clear"}
    BY <1>1, <2>1, <2>3 DEF Due
  <2>7. ~overtaken /\ album # 0 => Due' \/ mainQueue'[Len(mainQueue) + 1].rows = door
    BY <1>1, <2>1, <2>2, <2>3, <2>4, <2>5, <2>6 DEF Refreshed, Idle
  <2> QED  BY <1>1, <2>1, <2>3, <2>4, <2>5, <2>7 DEF Refreshed, Idle
<1>10. CASE MainHandles
  <2>1. /\ mainQueue # <<>> /\ mainQueue' = Tail(mainQueue)
        /\ UNCHANGED <<jobs, door, album, replaced>>
    BY <1>10 DEF MainHandles, logVars
  <2>2. /\ Len(mainQueue') = Len(mainQueue) - 1 /\ Head(mainQueue) = mainQueue[1] /\ 1 \in 1..Len(mainQueue)
        /\ \A i \in 1..Len(mainQueue') : i + 1 \in 1..Len(mainQueue) /\ mainQueue'[i] = mainQueue[i + 1]
    BY <1>1, <2>1 DEF TypeOK
  <2>3. \A i \in 1..Len(mainQueue) :
          i = 1 \/ (i - 1 \in 1..Len(mainQueue') /\ mainQueue'[i - 1] = mainQueue[i])
    BY <1>1, <2>2
  <2>4. \A i : i \in Shown' => i + 1 \in Shown
    BY <2>2 DEF Shown, IsList
  <2>5. CASE mainQueue[1].what = "update"
    <3>1. \A i \in Shown : i - 1 \in Shown' /\ mainQueue'[i - 1] = mainQueue[i]
      BY <2>3, <2>5 DEF Shown, IsList
    <3>2. CASE album = 0
      <4>1. UNCHANGED <<loads, overtaken, list>>
        BY <1>10, <2>2, <2>5, <3>2 DEF MainHandles
      <4>2. Shown' = {} /\ loads = <<>>
        BY <1>1, <2>4, <3>2 DEF Refreshed
      <4> QED  BY <1>1, <2>1, <3>2, <4>1, <4>2 DEF Refreshed
    <3>3. CASE album # 0
      <4>1. BeginLoad("query")
        BY <1>10, <2>2, <2>5, <3>3 DEF MainHandles
      <4>2. ~overtaken' => Shown' = {} /\ Len(loads') <= 1 /\ Due'
        <5> SUFFICES ASSUME ~overtaken' PROVE Shown' = {} /\ Len(loads') <= 1 /\ Due'
          OBVIOUS
        <5>1. Shown = {} /\ Len(loads') <= 1 /\ loads' # <<>> /\ loads'[1].what = "query"
          BY <1>1, <4>1, Loading
        <5> QED  BY <2>4, <5>1 DEF Due
      <4>3. CASE overtaken'
        BY <2>1, <3>3, <4>3 DEF Refreshed
      <4>4. CASE ~overtaken'
        BY <2>1, <3>3, <4>2, <4>4 DEF Refreshed
      <4> QED  BY <4>3, <4>4
    <3> QED  BY <3>2, <3>3
  <2>6. CASE mainQueue[1].what = "list"
    <3>1. list' = mainQueue[1].rows /\ UNCHANGED <<loads, overtaken>> /\ 1 \in Shown
      BY <1>10, <2>2, <2>6 DEF MainHandles, Shown, IsList
    <3>2. Due => Due'
      BY <2>1, <2>3, <2>6, <3>1 DEF Due
    <3>3. ~overtaken => loads = <<>> /\ Shown' = {} /\ \A i \in Shown : i = 1
      <4> SUFFICES ASSUME ~overtaken PROVE loads = <<>> /\ Shown' = {} /\ \A i \in Shown : i = 1
        OBVIOUS
      <4>1. loads = <<>> /\ \A i \in Shown : i = 1
        BY <1>1, <3>1 DEF Refreshed
      <4>2. \A i \in Shown' : i \in Nat \ {0}
        BY DEF Shown
      <4> QED  BY <2>4, <4>1, <4>2
    <3>4. album # 0
      BY <1>1, <3>1 DEF Refreshed
    <3>5. ~overtaken => Due' \/ list' = door'
      BY <1>1, <2>1, <3>1, <3>2, <3>3, <3>4 DEF Refreshed, Idle
    <3> QED  BY <1>1, <2>1, <3>1, <3>3, <3>4, <3>5 DEF Refreshed, Idle
  <2>7. mainQueue[1].what \in {"update", "list"}
    <3>1. mainQueue[1] \in [what : {"update", "list"}, rows : SUBSET Rows]
      <4>1. mainQueue \in Seq([what : {"update", "list"}, rows : SUBSET Rows])
        BY <1>1 DEF TypeOK
      <4> QED  BY <2>2, <4>1, ElementOfSeq
    <3> QED  BY <3>1
  <2> QED  BY <2>5, <2>6, <2>7
<1>11. CASE Tick
  BY <1>2, <1>11 DEF Tick, albumVars
<1>12. ASSUME NEW i \in 1..Len(loads), TestList(i) PROVE Refreshed'
  <2>1. /\ loads[i].what = "test" /\ loads # <<>>
        /\ UNCHANGED <<jobs, door, album, mainQueue, list, overtaken, replaced>>
    BY <1>1, <1>12 DEF TestList, logVars
  <2>2. Shown' = Shown /\ (album = 0 => loads = <<>>)
    BY <1>1, <2>1 DEF Shown, IsList, Refreshed
  <2>3. CASE overtaken
    BY <2>1, <2>2, <2>3 DEF Refreshed
  <2>4. CASE ~overtaken
    <3>1. i = 1 /\ Len(loads) = 1 /\ Shown = {}
      <4>1. Len(loads) <= 1 /\ Shown = {}
        BY <1>1, <2>1, <2>4 DEF Refreshed
      <4>2. i \in Int /\ 1 <= i /\ i <= Len(loads) /\ Len(loads) \in Nat
        BY <1>1, <1>12 DEF TypeOK
      <4>3. \A l \in Nat : i \in Int /\ 1 <= i /\ i <= l /\ l <= 1 => i = 1 /\ l = 1
        OBVIOUS
      <4> QED  BY <4>1, <4>2, <4>3
    <3>2. Due => Due'
      BY <2>1, <3>1 DEF Due
    <3>3. CASE list # {}
      <4>1. loads' = [loads EXCEPT ![1] = [what |-> "clear", rows |-> {}]]
        BY <1>12, <3>1, <3>3 DEF TestList
      <4>2. Len(loads') = 1 /\ loads' # <<>> /\ loads'[1].what = "clear"
        BY <1>1, <3>1, <4>1 DEF TypeOK
      <4> QED  BY <2>1, <2>2, <3>1, <4>2 DEF Refreshed, Due
    <3>4. CASE list = {}
      <4>1. loads' = <<>>
        BY <1>1, <1>12, <3>1, <3>4, OnlyLoadEnds DEF TestList
      <4>2. Due \/ list = door
        BY <1>1, <2>1, <2>2, <2>4, <3>1 DEF Refreshed, Idle
      <4> QED  BY <1>1, <2>1, <2>2, <3>1, <3>2, <4>1, <4>2 DEF Refreshed, Idle
    <3> QED  BY <3>3, <3>4
  <2> QED  BY <2>3, <2>4
<1> QED  BY <1>3, <1>4, <1>5, <1>6, <1>7, <1>8, <1>9, <1>10, <1>11, <1>12 DEF Next, Job, Load

-----------------------------------------------------------------------------
(* The invariant, and what it says. *)

\* Nothing has been opened at first.
LEMMA InitInv == Init => IInv
<1> SUFFICES ASSUME Init PROVE IInv
  OBVIOUS
<1>1. /\ <<>> \in Seq(Activities) /\ <<>> \in Seq(Bytes)
      /\ <<>> \in Seq([what : {"query", "test", "clear", "post"}, rows : SUBSET Rows])
      /\ <<>> \in Seq([what : {"update", "list"}, rows : SUBSET Rows])
  BY EmptySeq
<1>2. LinkTypeOK
  BY <1>1 DEF Init, LinkInit, LinkTypeOK
<1>3. LogTypes
  <2>1. Start \in Start..MaxTime /\ 0 \in 0..MaxTime
    BY DoorAssumption DEF Start
  <2>2. clock = Start /\ nowTime = [a \in Activities |-> 0]
    BY DEF Init
  <2>3. clock \in Start..MaxTime /\ nowTime \in [Activities -> 0..MaxTime]
    BY <2>1, <2>2
  <2> QED  BY <2>3 DEF Init, LogTypes
<1>4. AlbumTypes
  BY <1>1 DEF Init, AlbumTypes
<1>5. Port
  BY DEF Init, LinkInit, Port, InTask
<1>6. Covered
  BY DoorAssumption DEF Init, Covered, Start
<1>7. Once
  BY DEF Init, LinkInit, Once, Passed, ToSet
<1>8. Refreshed
  BY DEF Init, Refreshed, Shown, Idle
<1> QED  BY <1>2, <1>3, <1>4, <1>5, <1>6, <1>7, <1>8, Groups DEF IInv

\* Stuttering keeps the invariant.
LEMMA StutterInv == IInv /\ UNCHANGED vars => IInv'
<1> SUFFICES ASSUME IInv, UNCHANGED vars PROVE IInv'
  OBVIOUS
<1>1. TypeOK'
  BY DEF IInv, TypeOK, LinkTypeOK, vars, linkVars, portVars, readVars, logVars, albumVars
<1>2. Port' /\ Covered' /\ Once'
  BY DEF IInv, Port, InTask, Covered, Kept, Once, Passed, vars, linkVars, portVars, readVars, logVars
<1>3. Refreshed'
  BY DEF IInv, Refreshed, Shown, IsList, Due, Idle, vars, logVars, albumVars
<1> QED  BY <1>1, <1>2, <1>3 DEF IInv

\* The inductive invariant.
THEOREM Invariance == Spec => []IInv
<1>1. IInv /\ [Next]_vars => IInv'
  BY StepTyped, PortStep, CoveredStep, OnceStep, RefreshedStep, StutterInv DEF IInv
<1> QED  BY <1>1, InitInv, PTL DEF Spec

\* Type correctness, for any number of activities and frames; the table never has a
\* time of day twice, whatever coroutines test and insert in between.
THEOREM TypeCorrect == Spec => []TypeOK
<1>1. IInv => TypeOK
  BY DEF IInv
<1> QED  BY <1>1, Invariance, PTL

\* Unless two tasks opened the port at the same time there is one reader, and a command
\* finds the writer.
THEOREM ReadsAlone == Spec => []OneReader
<1>1. IInv => OneReader
  <2> SUFFICES ASSUME IInv, ~overlapped PROVE ~(Cardinality(readers) > 1) /\ ~npe
    BY DEF OneReader
  <2>1. ~npe /\ \A r, s \in readers : r = s
    BY DEF IInv, Port
  <2>2. CASE readers = {}
    BY <2>1, <2>2, FS_EmptySet
  <2>3. ASSUME NEW r \in readers PROVE Cardinality(readers) = 1
    <3>1. readers = {r}
      BY <2>1
    <3> QED  BY <3>1, FS_Singleton
  <2> QED  BY <2>1, <2>2, <2>3
<1> QED  BY <1>1, Invariance, PTL

\* No opening is lost by the filter, for any window and any number of coroutines, whose
\* dates may come in any order.
THEOREM NoneIsMissing == Spec => []OpeningIsLogged
<1>1. IInv => OpeningIsLogged
  BY DEF IInv, Covered, Kept, OpeningIsLogged
<1> QED  BY <1>1, Invariance, PTL

\* One opening is logged once.
THEOREM LogsOnce == Spec => []LoggedOnce
<1>1. IInv => LoggedOnce
  <2> SUFFICES ASSUME IInv, Len(mListenerList) <= 1, ~together, NEW d \in logged, NEW e \in logged, d # e
               PROVE  ~Near(d, e)
    BY DEF LoggedOnce
  <2>1. mListenerList \in Seq(Activities) /\ mListenerList # <<>>
    BY DEF IInv, TypeOK, LinkTypeOK, Once
  <2>2. mListenerList[1] \in ToSet(mListenerList)
    BY <2>1 DEF ToSet
  <2> QED  BY <2>2 DEF IInv, Once, Passed
<1> QED  BY <1>1, Invariance, PTL

\* The album at rest shows the table.
THEOREM ShowsTable == Spec => []ListIsTable
<1>1. IInv => ListIsTable
  BY DEF IInv, Refreshed, Due, Idle, Shown, Settled, ListIsTable
<1> QED  BY <1>1, Invariance, PTL
=============================================================================
