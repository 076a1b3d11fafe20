-------------------------------- MODULE MCData --------------------------------
(***************************************************************************)
(* The structures that carry data, in one run each would be too small for: *)
(* the framing of packets, the streams inside them, the two logs, and the  *)
(* array, of scalars and of objects.  Init chooses which of them is used;  *)
(* the others stay as they are.  The logs share the names of their         *)
(* variables, and so do the arrays.                                        *)
(***************************************************************************)
EXTENDS PacketFramer, Streams, EasyLog

CONSTANTS
  N, Elements, Zero, Raw, Data, Resizes, SizeMax     \* of DyArray

VARIABLES
  setup,
  main, iCurrSize,                                   \* of PollLog
  slots, m_iCount, dynamic, call, lost, misused      \* of DyArray

bufferVars == <<data, written, accepted, messages>>
arrayVars == <<slots, m_iCount, dynamic, call, lost, misused>>
allVars == <<setup, vars, streamVars, bufferVars, thread, main, iCurrSize, arrayVars>>

-----------------------------------------------------------------------------
(* Constants.                                                              *)

Value == [array |-> FALSE, count |-> 1, size |-> 4]
Arrays(counts, size) == [array : {TRUE}, count : counts, size : {size}]

\* A 32-bit value, arrays of bytes and of 32-bit values; some do not fit, one overflows.
FieldsOfChat == {Value} \union Arrays({0, 5, 20, 24}, 1) \union Arrays({2, 5, 9}, 4)

\* Up to four characters.
Words == {<<>>, <<"a">>, <<"0", "a">>, <<"a", "0", "a">>, <<"a", "a", "0", "a">>}

Poll == INSTANCE PollLog WITH MessagesMax <- 4

\* Arrays that never append without room, and of objects also without empty ranges.
Scalars ==
  INSTANCE DyArray WITH IsClass <- FALSE, PushNs <- {1}, EmptyErase <- TRUE, AppendGrows <- FALSE

Objects ==
  INSTANCE DyArray WITH IsClass <- TRUE, PushNs <- {1}, Data <- {}, Resizes <- {},
                        EmptyErase <- FALSE, AppendGrows <- FALSE

ASSUME Instances ==
  Poll!PollAssumption /\ Scalars!DyArrayAssumption /\ Objects!DyArrayAssumption

-----------------------------------------------------------------------------
MCInit ==
  /\ Init /\ StreamInit /\ LogInit /\ Poll!Init
  /\ \/ setup \in {"framing", "streams", "log", "poll log", "scalars"} /\ Scalars!Init
     \/ setup = "objects" /\ Objects!Init

MCNext ==
  \/ /\ setup = "framing" /\ Next
     /\ UNCHANGED <<setup, streamVars, bufferVars, thread, main, iCurrSize, arrayVars>>
  \/ /\ setup = "streams" /\ StreamNext
     /\ UNCHANGED <<setup, vars, bufferVars, thread, main, iCurrSize, arrayVars>>
  \/ /\ setup = "log" /\ LogNext
     /\ UNCHANGED <<setup, vars, streamVars, main, iCurrSize, arrayVars>>
  \/ /\ setup = "poll log" /\ Poll!Next
     /\ UNCHANGED <<setup, vars, streamVars, thread, arrayVars>>
  \/ /\ \/ setup = "scalars" /\ Scalars!Next
        \/ setup = "objects" /\ Objects!Next
     /\ UNCHANGED <<setup, vars, streamVars, bufferVars, thread, main, iCurrSize>>

MCSpec == MCInit /\ [][MCNext]_allVars /\ Fairness /\ LogFairness /\ Poll!Fairness

-----------------------------------------------------------------------------
\* An array is the sequence of what was put into it, of scalars or of objects, and an array
\* of objects has one in every slot it counts (array_base.h:49).
ArraysOK ==
  /\ [](setup = "objects" => Objects!TypeOK /\ Objects!ElementsLive)
  /\ [](setup # "objects" => Scalars!TypeOK)
  /\ Scalars!IsSequence

\* OnData returns (easy_session.cpp:59); the next push gets what waits in a log written
\* (easy_log.cpp:82), whose buffer is never quite full; while main runs, easynet's log
\* prints all (easynet/easy_log.c).
DataGoesOn ==
  /\ OnDataReturns
  /\ []LogTypeOK /\ NextPushWrites
  /\ [](setup = "poll log" => Poll!TypeOK) /\ (setup = "poll log" => Poll!AllPrinted)
=============================================================================
