-------------------------------- MODULE PollLog --------------------------------
(***************************************************************************)
(* easynet's log in C: the same buffer, emptied again and again by a       *)
(* thread that waits for nothing but the mutex, until main returns and     *)
(* takes the thread with it (log_test.c).                                  *)
(***************************************************************************)
EXTENDS EasyBuffer, Integers

CONSTANTS
  Lengths,      \* of messages, in bytes
  MessagesMax   \* bound: messages pushed

PollAssumption ==
  MaxSize \in Nat /\ Lengths \subseteq Nat /\ MessagesMax \in Nat

VARIABLES
  data,      \* easy_buf_
  main,      \* "start", "run", "returned"
  iCurrSize, \* of the thread: the size it has read, or -1 outside the mutex
  written,   \* the bytes printed
  accepted,  \* history: the bytes PushToEasyBuf accepted
  messages   \* messages pushed

vars == <<data, main, iCurrSize, written, accepted, messages>>

Unlocked == -1

Init ==
  /\ data = <<>> /\ written = <<>> /\ accepted = <<>>
  /\ main = "start" /\ iCurrSize = Unlocked /\ messages = 0

StartEasyLog ==
  /\ main = "start" /\ main' = "run"
  /\ UNCHANGED <<data, iCurrSize, written, accepted, messages>>

\* It answers true, whether there was room or not.
PushEasyLog(n) ==
  LET item == [i \in 1 .. n |-> messages + 1]
  IN /\ main = "run" /\ iCurrSize = Unlocked
     /\ messages < MessagesMax /\ messages' = messages + 1
     /\ IF HasRoom(data, item)
        THEN data' = Push(data, item) /\ accepted' = accepted \o item
        ELSE UNCHANGED <<data, accepted>>
     /\ UNCHANGED <<main, iCurrSize, written>>

\* OutputEasyLog: it takes the mutex and reads curr_size_, ...
ReadSize ==
  /\ main = "run" /\ iCurrSize = Unlocked
  /\ iCurrSize' = Size(data)
  /\ UNCHANGED <<data, main, written, accepted, messages>>

\* ... pops as much, prints it and gives the mutex back.
PrintAll ==
  /\ main = "run" /\ iCurrSize # Unlocked
  /\ iCurrSize' = Unlocked
  /\ written' = written \o Popped(data, iCurrSize)
  /\ data' = Kept(data, iCurrSize)
  /\ UNCHANGED <<main, accepted, messages>>

MainReturns ==
  /\ main = "run" /\ main' = "returned"
  /\ UNCHANGED <<data, iCurrSize, written, accepted, messages>>

LogThread == ReadSize \/ PrintAll

Next ==
  \/ StartEasyLog
  \/ \E n \in Lengths : PushEasyLog(n)
  \/ LogThread
  \/ MainReturns

Spec == Init /\ [][Next]_vars

\* The thread never blocks but on the mutex, which nobody keeps.
Fairness == WF_vars(LogThread)

FairSpec == Spec /\ Fairness

-----------------------------------------------------------------------------
\* Types; the buffer is never quite full.
TypeOK ==
  /\ data \in Seq(Nat) /\ Size(data) < MaxSize
  /\ main \in {"start", "run", "returned"}
  /\ iCurrSize \in Unlocked .. MaxSize
  /\ written \in Seq(Nat) /\ accepted \in Seq(Nat)
  /\ messages \in 0 .. MessagesMax

\* As long as main does not return, every message accepted is printed.
AllPrinted == data # <<>> ~> data = <<>> \/ main = "returned"

\* What main has logged is printed (log_test.c:8, "Hello").
PrintedAtEnd == main = "returned" => data = <<>>
=============================================================================
