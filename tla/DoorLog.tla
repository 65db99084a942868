------------------------------ MODULE DoorLog ------------------------------
(***************************************************************************)
(* The log of openings: MainActivity's serial listener, the Room table     *)
(* Door (DoorUtils) and the list AlbumFragment shows. A chunk of the line  *)
(* starts a coroutine for every registered listener, the album loads and   *)
(* deletes in coroutines of their own, and the main thread handles what    *)
(* they post. A coroutine takes at most one unit of time from reading the  *)
(* date to its end.                                                        *)
(***************************************************************************)
EXTENDS SerialLink

CONSTANTS Day,      \* units of a day
          Window,   \* 3000 ms: openings closer than that count as one
          MaxTime,  \* end of time
          MaxLoads  \* queries under way when the user deletes once more

Start == Window + 1   \* a time later than 0, nowTime's initial value, by more than that

ASSUME DoorAssumption == Day \in Nat \ {0} /\ Window \in Nat \ {0} /\ MaxTime \in Nat /\ MaxTime >= Start /\ MaxLoads \in Nat

VARIABLES
  clock,
  nowTime,      \* of each activity
  jobs,         \* coroutines of the listeners
  door,         \* the table: rows [time, data]
  album,        \* the activity whose album was opened, or 0
  loads,        \* coroutines of the album
  mainQueue,    \* what was posted to the main thread
  list,         \* rows the album shows
  handled, logged, hidden, \* history: dates of openings that were not lost to an exception
                           \* of the views; those in the table; those whose key was taken
  together,     \* history: a coroutine passed the filter while another was about to
  overtaken,    \* history: a load or deletion began before another was shown
  replaced      \* history: a new activity while the album's coroutines were under way

logVars   == <<clock, nowTime, jobs, door, handled, logged, hidden, together>>
albumVars == <<album, loads, mainQueue, list, overtaken, replaced>>
vars == <<linkVars, logVars, albumVars>>

Init ==
  /\ LinkInit
  /\ clock = Start /\ nowTime = [a \in Activities |-> 0] /\ jobs = {} /\ door = {}
  /\ album = 0 /\ loads = <<>> /\ mainQueue = <<>> /\ list = {}
  /\ handled = {} /\ logged = {} /\ hidden = {}
  /\ together = FALSE /\ overtaken = FALSE /\ replaced = FALSE

-----------------------------------------------------------------------------
(* The listener's coroutine. *)

\* The frames of a chunk whose bytes stand together.
Openings(c) == {c[i][1] : i \in {k \in 1..(Len(c) - 1) : c[k][2] = "first" /\ c[k + 1] = <<c[k][1], "rest">>}}

\* onDataReceived, synchronized on the manager: a coroutine for each listener, which ends
\* at once unless the lock says it was opened.
OnDataReceived(c) ==
  /\ Report(c)
  /\ jobs' = jobs \cup IF Openings(c) = {} THEN {}
       ELSE [chunk : {c}, activity : ToSet(mListenerList), pc : {"new"}, date : {0}]
  /\ UNCHANGED <<clock, nowTime, door, handled, logged, hidden, together, albumVars>>

Row(date) == [time |-> date % Day, data |-> date \div Day]
\* Mutant: the key is date and time.
KeyTaken_Both(date) == Row(date) \in door
\* The primary key is the time of day.
KeyTaken(date) == \E r \in door : r.time = Row(date).time

EndJob(j) == jobs' = jobs \ {j}
Continue(j, next) == jobs' = (jobs \ {j}) \cup {next}
JobUnchanged == UNCHANGED <<linkVars, clock, album, loads, list, overtaken, replaced>>

\* Date()
TakeDate(j) ==
  /\ j.pc = "new" /\ Continue(j, [j EXCEPT !.pc = "filter", !.date = clock])
  /\ JobUnchanged /\ UNCHANGED <<nowTime, door, handled, logged, hidden, together, mainQueue>>

\* Mutant: openings within twice the time count as one.
Filter_Wide(j) ==
  /\ j.pc = "filter"
  /\ IF j.date - nowTime[j.activity] <= 2 * Window
       THEN EndJob(j) /\ handled' = handled \cup {j.date} /\ UNCHANGED together
       ELSE /\ Continue(j, [j EXCEPT !.pc = "views"]) /\ UNCHANGED handled
            /\ together' = (together \/ \E k \in jobs \ {j} : k.pc = "views")
  /\ JobUnchanged /\ UNCHANGED <<nowTime, door, logged, hidden, mainQueue>>
\* Openings within the window of the last one count as one.
Filter(j) ==
  /\ j.pc = "filter"
  /\ IF j.date - nowTime[j.activity] <= Window
       THEN EndJob(j) /\ handled' = handled \cup {j.date} /\ UNCHANGED together
       ELSE /\ Continue(j, [j EXCEPT !.pc = "views"]) /\ UNCHANGED handled
            /\ together' = (together \/ \E k \in jobs \ {j} : k.pc = "views")
  /\ JobUnchanged /\ UNCHANGED <<nowTime, door, logged, hidden, mainQueue>>

\* Mutant: nowTime is not set.
ShowMessage_TimeKept(j) ==
  /\ j.pc = "views"
  /\ Continue(j, [j EXCEPT !.pc = "exists"])
  /\ JobUnchanged /\ UNCHANGED <<nowTime, door, handled, logged, hidden, together, mainQueue>>
\* The views are changed on this thread, which may throw; then nowTime.
ShowMessage(j) ==
  /\ j.pc = "views"
  /\ \/ EndJob(j) /\ UNCHANGED nowTime
     \/ /\ Continue(j, [j EXCEPT !.pc = "exists"])
        /\ nowTime' = [nowTime EXCEPT ![j.activity] = j.date]
  /\ JobUnchanged /\ UNCHANGED <<door, handled, logged, hidden, together, mainQueue>>

\* What the table has of an opening, for the properties.
Recorded(date) ==
  /\ handled' = handled \cup {date}
  /\ logged' = logged \cup {d \in {date} : Row(d) \in door'}
  /\ hidden' = hidden \cup {d \in {date} : Row(d) \notin door'}

\* insertAllData: isExitSong.
IsExit(j) ==
  /\ j.pc = "exists"
  /\ Continue(j, [j EXCEPT !.pc = IF KeyTaken(j.date) THEN "notify" ELSE "insert"])
  /\ IF KeyTaken(j.date) THEN UNCHANGED door /\ Recorded(j.date)
                         ELSE UNCHANGED <<door, handled, logged, hidden>>
  /\ JobUnchanged /\ UNCHANGED <<nowTime, together, mainQueue>>

\* The insertion, which throws if the key has been taken meanwhile.
InsertRow(j) ==
  /\ j.pc = "insert"
  /\ IF KeyTaken(j.date)
       THEN EndJob(j) /\ UNCHANGED door
       ELSE Continue(j, [j EXCEPT !.pc = "notify"]) /\ door' = door \cup {Row(j.date)}
  /\ Recorded(j.date)
  /\ JobUnchanged /\ UNCHANGED <<nowTime, together, mainQueue>>

Post(m) == mainQueue' = Append(mainQueue, m)
Notify(j) ==
  /\ j.pc = "notify" /\ EndJob(j)
  /\ Post([what |-> "update", rows |-> {}])
  /\ JobUnchanged /\ UNCHANGED <<nowTime, door, handled, logged, hidden, together>>

Job == \E j \in jobs :
  TakeDate(j) \/ Filter(j) \/ ShowMessage(j) \/ IsExit(j) \/ InsertRow(j) \/ Notify(j)

-----------------------------------------------------------------------------
(* The album. *)

BeginLoad(what) ==
  /\ loads' = Append(loads, [what |-> what, rows |-> {}])
  /\ overtaken' = (overtaken \/ loads # <<>>
                             \/ \E i \in 1..Len(mainQueue) : mainQueue[i].what = "list")

\* The album is opened for the first time: it loads the rows and observes TO_UPDATA_DOOR.
OpenAlbum ==
  /\ album = 0
  /\ \E a \in Activities : Latest(a) /\ album' = a
  /\ BeginLoad("query")
  /\ UNCHANGED <<linkVars, logVars, mainQueue, list, replaced>>

DeleteAll ==
  /\ album # 0 /\ Len(loads) + Len(mainQueue) < MaxLoads
  /\ BeginLoad("test")
  /\ UNCHANGED <<linkVars, logVars, album, mainQueue, list, replaced>>

\* The coroutine of deleteSmockInfo has nothing to do if the album shows no rows.
TestList(i) ==
  /\ loads[i].what = "test"
  /\ loads' = IF list # {} THEN [loads EXCEPT ![i] = [what |-> "clear", rows |-> {}]]
                           ELSE RemoveAt(loads, i)
  /\ UNCHANGED <<linkVars, logVars, album, mainQueue, list, overtaken, replaced>>

\* getAllDoor or clearData
Query(i) ==
  /\ loads[i].what \in {"query", "clear"}
  /\ door' = IF loads[i].what = "clear" THEN {} ELSE door
  /\ loads' = [loads EXCEPT ![i] = [what |-> "post", rows |-> door']]
  /\ UNCHANGED <<linkVars, clock, nowTime, jobs, handled, logged, hidden, together, album,
                 mainQueue, list, overtaken, replaced>>

\* requireActivity().runOnUiThread
PostRows(i) ==
  /\ loads[i].what = "post"
  /\ loads' = RemoveAt(loads, i)
  /\ Post([what |-> "list", rows |-> loads[i].rows])
  /\ UNCHANGED <<linkVars, logVars, album, list, overtaken, replaced>>

Load == \E i \in 1..Len(loads) : TestList(i) \/ Query(i) \/ PostRows(i)

\* Mutant: an update is not observed.
MainHandles_NotObserved ==
  /\ mainQueue # <<>> /\ mainQueue' = Tail(mainQueue)
  /\ list' = IF Head(mainQueue).what = "list" THEN Head(mainQueue).rows ELSE list
  /\ UNCHANGED <<linkVars, logVars, album, loads, overtaken, replaced>>
\* The main thread: TO_UPDATA_DOOR reaches the album if it is observing.
MainHandles ==
  /\ mainQueue # <<>> /\ mainQueue' = Tail(mainQueue)
  /\ LET m == Head(mainQueue) IN
       \/ m.what = "update" /\ album # 0 /\ BeginLoad("query") /\ UNCHANGED list
       \/ m.what = "update" /\ album = 0 /\ UNCHANGED <<loads, overtaken, list>>
       \/ m.what = "list" /\ list' = m.rows /\ UNCHANGED <<loads, overtaken>>
  /\ UNCHANGED <<linkVars, logVars, album, replaced>>

-----------------------------------------------------------------------------
(* A new activity has an album of its own. What the old one's coroutines then meet, an
   exception of requireActivity nobody catches, is the end of the process. *)
NewActivity ==
  /\ \E a \in Activities : CreateActivity(a)
  /\ album' = 0 /\ list' = {}
  /\ replaced' = (replaced \/ loads # <<>> \/ \E i \in 1..Len(mainQueue) : mainQueue[i].what = "list")
  /\ UNCHANGED <<logVars, loads, mainQueue, overtaken>>

\* Time matters between the first frame and the last date.
Dateless == MaySend \/ incoming # <<>> \/ chunks # {} \/ (\E r \in readers : first[r] # <<>>)
            \/ \E j \in jobs : j.pc = "new"
Tick ==
  /\ 0 < sent /\ Dateless
  /\ clock < MaxTime /\ clock' = clock + 1
  /\ \A j \in jobs : j.pc = "new" \/ j.date = clock
  /\ UNCHANGED <<linkVars, nowTime, jobs, door, handled, logged, hidden, together, albumVars>>

Link == (LinkStep \/ LockSends \/ Send) /\ UNCHANGED <<logVars, albumVars>>

Alive == ~npe /\ ~replaced
Next ==
  /\ Alive
  /\ \/ NewActivity \/ Link \/ (\E c \in chunks : OnDataReceived(c))
     \/ Job \/ Load \/ OpenAlbum \/ DeleteAll \/ MainHandles \/ Tick

Spec == Init /\ [][Next]_vars

-----------------------------------------------------------------------------
(* Properties. *)

Rows == [time : 0..(Day - 1), data : Nat]
Jobs == [chunk : Seq(Bytes), activity : Activities, date : 0..MaxTime,
         pc : {"new", "filter", "views", "exists", "insert", "notify"}]

\* Type invariant of the line and the log; a time of day is in the table once.
TypeOK ==
  /\ LinkTypeOK
  /\ clock \in Start..MaxTime /\ nowTime \in [Activities -> 0..MaxTime] /\ jobs \subseteq Jobs
  /\ door \subseteq Rows /\ \A r1, r2 \in door : r1.time = r2.time => r1 = r2
  /\ album \in Activities \cup {0} /\ list \subseteq Rows
  /\ loads \in Seq([what : {"query", "test", "clear", "post"}, rows : SUBSET Rows])
  /\ mainQueue \in Seq([what : {"update", "list"}, rows : SUBSET Rows])
  /\ handled \cup logged \cup hidden \subseteq Start..MaxTime
  /\ together \in BOOLEAN /\ overtaken \in BOOLEAN /\ replaced \in BOOLEAN

Near(d, e) == d - e <= Window /\ e - d <= Window

\* No opening is missing from the log: once the coroutines are done, an opening that the
\* filter dropped has one in the table within the window (or one whose key, the time
\* of day, belongs to another day), although nowTime is set before the row is inserted
\* and by coroutines in any order.
OpeningIsLogged ==
  jobs = {} => \A d \in handled : \E e \in logged \cup hidden : Near(d, e)

\* One opening is logged once, unless a second listener is registered, as every new
\* activity does, or two coroutines were between the test of nowTime and its setting.
LoggedOnce ==
  Len(mListenerList) <= 1 /\ ~together =>
    \A d, e \in logged : d # e => ~Near(d, e)

\* Nothing of the album is under way.
Settled == jobs = {} /\ loads = <<>> /\ mainQueue = <<>>

\* The album shows the table once everything has come to rest: no update is lost between
\* the first load and the registration of the observer. Loads that overlap may be shown
\* in the wrong order.
ListIsTable == Settled /\ album # 0 /\ ~overtaken => list = door
=============================================================================
