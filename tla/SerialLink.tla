----------------------------- MODULE SerialLink -----------------------------
(***************************************************************************)
(* The serial line to the lock: SerialManager, SerialReader, SerialWriter  *)
(* and what MainActivity and CameraXPreviewFragment do with them. Opening, *)
(* every chunk that was read and every write are tasks of one cached       *)
(* thread pool: they run concurrently, in any order. The app never closes  *)
(* the port.                                                               *)
(* The lock's frames arrive whole; a frame is two bytes here, the first    *)
(* one, which SerialReader reads alone, and the rest. What a write puts on *)
(* the wire is left out: only whether it meets an open port matters here.  *)
(***************************************************************************)
EXTENDS Integers, SequencesExt

CONSTANTS MaxActivities, \* instances of MainActivity
          MaxReports     \* frames the lock sends times activities

ASSUME LinkAssumption == MaxActivities \in Nat /\ MaxReports \in Nat

Activities == 1..MaxActivities    \* in the order of their creation
Bytes      == Nat \X {"first", "rest"}

VARIABLES
  opening,        \* where the open task of each activity is
  mPort, mWriter, \* they are not null
  mListenerList,  \* activities, in the order of registration
  serialIsOpen,   \* of each activity
  readers,        \* activities whose task has started a SerialReader
  first,          \* the byte each reader has read alone, as a sequence
  incoming,       \* bytes waiting in the driver
  sent,           \* frames the lock has sent
  chunks,         \* what readers have reported: tasks of the pool
  overlapped,     \* history: two open tasks at the same time
  npe             \* write() met a null mWriter: the process ends

portVars   == <<opening, mPort, mWriter, mListenerList, serialIsOpen, overlapped, npe>>
readVars   == <<readers, first, incoming, sent, chunks>>
linkVars   == <<portVars, readVars>>

LinkInit ==
  /\ opening = [a \in Activities |-> "none"] /\ mPort = FALSE /\ mWriter = FALSE
  /\ mListenerList = <<>> /\ serialIsOpen = [a \in Activities |-> FALSE]
  /\ readers = {} /\ first = [a \in Activities |-> <<>>] /\ incoming = <<>>
  /\ sent = 0 /\ chunks = {}
  /\ overlapped = FALSE /\ npe = FALSE

At(a, l) == opening' = [opening EXCEPT ![a] = l]
InTask(a) == opening[a] \in {"check", "open", "start"}
Created == {a \in Activities : opening[a] # "none"}
Latest(a) == a \in Created /\ \A b \in Created : b <= a

\* MainActivity.openSerial, called by init.
CreateActivity(a) ==
  /\ opening[a] = "none" /\ \A b \in 1..(a - 1) : opening[b] # "none"
  /\ sent * a <= MaxReports
  /\ At(a, "check")
  /\ UNCHANGED <<mPort, mWriter, mListenerList, serialIsOpen, overlapped, npe, readVars>>

-----------------------------------------------------------------------------
(* The task of openSerialPort. *)

\* Mutant: the port is opened whether or not it is open.
CheckPort_Always(a) ==
  /\ opening[a] = "check" /\ At(a, "open")
  /\ overlapped' = (overlapped \/ \E b \in Activities \ {a} : InTask(b))
  /\ UNCHANGED <<mPort, mWriter, mListenerList, serialIsOpen, npe, readVars>>
CheckPort(a) ==
  /\ opening[a] = "check" /\ At(a, IF mPort THEN "tell" ELSE "open")
  /\ overlapped' = (overlapped \/ \E b \in Activities \ {a} : InTask(b))
  /\ UNCHANGED <<mPort, mWriter, mListenerList, serialIsOpen, npe, readVars>>

\* new SerialPort, which may throw; the listener then hears of it, and goes on to hear
\* of success.
OpenPort(a) ==
  /\ opening[a] = "open"
  /\ \/ At(a, "start") /\ mPort' = TRUE /\ UNCHANGED serialIsOpen
     \/ At(a, "tell") /\ serialIsOpen' = [serialIsOpen EXCEPT ![a] = FALSE] /\ UNCHANGED mPort
  /\ UNCHANGED <<mWriter, mListenerList, overlapped, npe, readVars>>

\* mWriter, and the reader as a task of its own.
StartReader(a) ==
  /\ opening[a] = "start" /\ At(a, "tell")
  /\ mWriter' = TRUE /\ readers' = readers \cup {a}
  /\ UNCHANGED <<mPort, mListenerList, serialIsOpen, overlapped, npe, first, incoming, sent,
                 chunks>>

\* onResult(true): MainActivity registers its listener.
TellSuccess(a) ==
  /\ opening[a] = "tell" /\ At(a, "done")
  /\ serialIsOpen' = [serialIsOpen EXCEPT ![a] = TRUE]
  /\ mListenerList' = Append(mListenerList, a)
  /\ UNCHANGED <<mPort, mWriter, overlapped, npe, readVars>>

-----------------------------------------------------------------------------
(* From the lock: SerialReader. *)

MaySend == \E a \in Activities : Latest(a) /\ (sent + 1) * a <= MaxReports

LockSends ==
  /\ mPort /\ MaySend /\ sent' = sent + 1
  /\ incoming' = incoming \o <<<<sent', "first">>, <<sent', "rest">>>>
  /\ UNCHANGED <<portVars, readers, first, chunks>>

ReadFirst(r) ==
  /\ r \in readers /\ first[r] = <<>> /\ incoming # <<>>
  /\ first' = [first EXCEPT ![r] = <<Head(incoming)>>]
  /\ incoming' = Tail(incoming)
  /\ UNCHANGED <<portVars, readers, sent, chunks>>

\* All that is available once nothing more has come for a while; then report.
ReadRest(r) ==
  /\ first[r] # <<>>
  /\ chunks' = chunks \cup {first[r] \o incoming}
  /\ first' = [first EXCEPT ![r] = <<>>] /\ incoming' = <<>>
  /\ UNCHANGED <<portVars, readers, sent>>

\* A report's task: onDataReceived, for every listener.
Report(c) ==
  /\ c \in chunks /\ chunks' = chunks \ {c}
  /\ UNCHANGED <<portVars, readers, first, incoming, sent>>

-----------------------------------------------------------------------------
(* To the lock: CameraXPreviewFragment.send, SerialManager.write. The write itself is a
   task that meets nothing else. *)

Send ==
  /\ \E a \in Activities : Latest(a) /\ serialIsOpen[a]
  /\ mPort /\ ~mWriter /\ npe' = TRUE
  /\ UNCHANGED <<opening, mPort, mWriter, mListenerList, serialIsOpen, overlapped, readVars>>

LinkStep == \/ \E a \in Activities : CheckPort(a) \/ OpenPort(a) \/ StartReader(a) \/ TellSuccess(a)
            \/ \E r \in Activities : ReadFirst(r) \/ ReadRest(r)

LinkTypeOK ==
  /\ opening \in [Activities -> {"none", "check", "open", "start", "tell", "done"}]
  /\ mPort \in BOOLEAN /\ mWriter \in BOOLEAN /\ serialIsOpen \in [Activities -> BOOLEAN]
  /\ mListenerList \in Seq(Activities) /\ readers \subseteq Activities
  /\ first \in [Activities -> Seq(Bytes)] /\ incoming \in Seq(Bytes) /\ sent \in Nat
  /\ chunks \subseteq Seq(Bytes)
  /\ overlapped \in BOOLEAN /\ npe \in BOOLEAN

\* One reader takes the bytes, and no command meets a half-opened port, unless two
\* activities opened the port at the same time: mPort is tested and set in two steps.
OneReader == Cardinality(readers) > 1 \/ npe => overlapped
=============================================================================
