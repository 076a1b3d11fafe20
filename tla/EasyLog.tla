-------------------------------- MODULE EasyLog --------------------------------
(***************************************************************************)
(* The log: any thread pushes messages into a buffer, under m_Mutex, and   *)
(* notifies m_OutputEvent; one thread waits for the event and writes all   *)
(* that is in the buffer.  It waits without a predicate.                   *)
(***************************************************************************)
EXTENDS EasyBuffer

CONSTANTS
  Lengths,      \* of messages, in bytes
  Wrap,          \* 2^16
  MessagesMax   \* bound: messages pushed

ASSUME LogAssumption ==
  /\ MaxSize \in Nat \ {0} /\ Wrap \in Nat /\ MaxSize <= Wrap
  /\ Lengths \subseteq Nat /\ MessagesMax \in Nat

VARIABLES
  data,      \* m_pEasyBuffer
  thread,    \* "none", "tick" (about to wait), "waiting", "woken"
  written,   \* the bytes _Output has written
  accepted,  \* history: the bytes for which Push returned true
  messages   \* messages pushed

logVars == <<data, thread, written, accepted, messages>>

LogInit ==
  /\ data = <<>> /\ written = <<>> /\ accepted = <<>>
  /\ thread = "none" /\ messages = 0

\* EasyLog::Init
StartThread ==
  /\ thread = "none" /\ thread' = "tick"
  /\ UNCHANGED <<data, written, accepted, messages>>

\* notify_one reaches the thread only while it waits.
Notified == IF thread = "waiting" THEN "woken" ELSE thread

\* Mutant: a message that finds no room notifies nobody.
LogPushQuiet(n) ==
  LET item == [i \in 1 .. n |-> messages + 1]
  IN /\ messages < MessagesMax /\ messages' = messages + 1
     /\ IF HasRoom(data, item)
        THEN data' = Push(data, item) /\ accepted' = accepted \o item /\ thread' = Notified
        ELSE UNCHANGED <<data, accepted, thread>>
     /\ UNCHANGED written

\* EasyLog::Push, from lock to return.
LogPush(n) ==
  LET item == [i \in 1 .. n |-> messages + 1]
  IN /\ messages < MessagesMax /\ messages' = messages + 1
     /\ thread' = Notified
     /\ IF HasRoom(data, item)
        THEN data' = Push(data, item) /\ accepted' = accepted \o item
        ELSE UNCHANGED <<data, accepted>>
     /\ UNCHANGED written

\* _Tick: the mutex is taken and given back by the wait.
Wait ==
  /\ thread = "tick" /\ thread' = "waiting"
  /\ UNCHANGED <<data, written, accepted, messages>>

\* A condition variable may wake without a notification.
SpuriousWake ==
  /\ thread = "waiting" /\ thread' = "woken"
  /\ UNCHANGED <<data, written, accepted, messages>>

\* Mutant: the size is read in a byte too few.
OutputHalf ==
  LET iSize == Size(data) % (Wrap \div 2)
  IN /\ thread = "woken" /\ thread' = "tick"
     /\ written' = written \o Popped(data, iSize)
     /\ data' = Kept(data, iSize)
     /\ UNCHANGED <<accepted, messages>>

\* The rest of _Tick, with the mutex held: iSize is a uint16.
Output ==
  LET iSize == Size(data) % Wrap
  IN /\ thread = "woken" /\ thread' = "tick"
     /\ written' = written \o Popped(data, iSize)
     /\ data' = Kept(data, iSize)
     /\ UNCHANGED <<accepted, messages>>

LogThread == Wait \/ Output

LogNext ==
  \/ StartThread
  \/ \E n \in Lengths : LogPush(n)
  \/ LogThread
  \/ SpuriousWake

LogSpec == LogInit /\ [][LogNext]_logVars

\* The thread runs when it can; nobody has to log.
LogFairness == WF_logVars(LogThread)

LogFairSpec == LogSpec /\ LogFairness

-----------------------------------------------------------------------------
\* Types; the buffer is never quite full.
LogTypeOK ==
  /\ data \in Seq(Nat) /\ Size(data) < MaxSize
  /\ thread \in {"none", "tick", "waiting", "woken"}
  /\ written \in Seq(Nat) /\ accepted \in Seq(Nat)
  /\ messages \in 0 .. MessagesMax

\* Messages are written in the order they were accepted in, whole, once: what is popped
\* from the tail is always the whole buffer.
WrittenInOrder == written \o data = accepted

\* However full the buffer is when the thread begins to wait, the next Push gets it
\* written: the log is never stuck, only late by a message.
NextPushWrites ==
  \A k \in 0 .. MessagesMax :
    [](thread = "waiting" /\ messages = k => <>(data = <<>> \/ [](messages = k)))

\* Every message accepted is written (easy_baseserver.cpp:172: "Initialize log system
\* success" is the first).
AllWritten == data # <<>> ~> data = <<>>
=============================================================================
