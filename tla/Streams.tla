------------------------------- MODULE Streams --------------------------------
(***************************************************************************)
(* OutputStream and InputStream, as the remote calls of the chat programs  *)
(* use them: the caller serializes the fields of a message one by one and  *)
(* gives up when one does not fit, SendPacket puts a head before the       *)
(* stream, OnPacketReceived makes an InputStream of what arrives, and the  *)
(* callback takes the fields again, in the same order and of the same      *)
(* types; the count of an array is in a field before it.                   *)
(*                                                                         *)
(* A field is a value (array = FALSE, count = 1) or an array of count      *)
(* elements of size bytes.  Of a stream, only the places where its fields  *)
(* end matter.                                                             *)
(***************************************************************************)
EXTENDS Naturals, Sequences

CONSTANTS
  Fields,      \* the fields messages are made of
  FieldsMax,   \* bound: fields of a message
  MaxOutput,   \* MAX_OUTPUT_BUFFER, the size of m_DataBuffer
  W16          \* 2^16

ASSUME FieldsAssumption ==
  /\ \A f \in Fields :
       /\ f.array \in BOOLEAN
       /\ f.count \in 0 .. (W16 - 1)
       /\ f.size \in Nat \ {0}
  /\ FieldsMax \in Nat
  /\ MaxOutput \in Nat /\ W16 \in Nat /\ MaxOutput < W16

VARIABLES
  step,       \* "idle", "write" in the caller, "read" in the callback, "refused" by it
  message,  \* the fields of the message
  marks,     \* of each field in the stream, the offset of its end
  index     \* m_iDataIndex and, as a pair, the fields taken so far

streamVars == <<step, message, marks, index>>

Messages == UNION {[1 .. n -> Fields] : n \in 0 .. FieldsMax}

\* m_iDataLength
DataLength == IF marks = <<>> THEN 0 ELSE marks[Len(marks)]

\* PACKET_HEAD
PACKET_HEAD == 4

\* Where the stream's i-th field begins.
Begins(i) == IF i = 1 THEN 0 ELSE marks[i - 1]

Start == [at |-> 0, fields |-> 0]

StreamInit == step = "idle" /\ message = <<>> /\ marks = <<>> /\ index = Start

\* The call, or the callback, is over, and its stream gone.
Return == step' = "idle" /\ message' = <<>> /\ marks' = <<>> /\ index' = Start

\* A remote call: PingReq, ChatReq, PingAck, ChatAck, or another of their kind.
Call(m) ==
  /\ step = "idle" /\ step' = "write"
  /\ message' = m
  /\ UNCHANGED <<marks, index>>

\* Mutant: the count of an array is not multiplied by the size.
BytesUnscaled(f) == IF f.array THEN f.count % W16 ELSE f.size

\* What a field takes: iCount *= sizeof(T), a uint16.
Bytes(f) == IF f.array THEN (f.count * f.size) % W16 ELSE f.size

\* OutputStream::Serialize of the next field.
Serialize ==
  LET f == message[Len(marks) + 1]
  IN /\ step = "write" /\ Len(marks) < Len(message)
     /\ DataLength + Bytes(f) <= MaxOutput
     /\ marks' = Append(marks, DataLength + Bytes(f))
     /\ UNCHANGED <<step, message, index>>

\* It does not fit: the call returns -1, and nothing is sent.
SerializeFails ==
  LET f == message[Len(marks) + 1]
  IN /\ step = "write" /\ Len(marks) < Len(message)
     /\ DataLength + Bytes(f) > MaxOutput
     /\ Return

\* SendPacket, and OnPacketReceived at the other end.
Packet ==
  /\ step = "write" /\ step' = "read"
  /\ Len(marks) = Len(message)
  /\ UNCHANGED <<message, marks, index>>

\* Mutant: an array is skipped by its count.
TakeUnscaled ==
  LET f == message[index.fields + 1]
  IN /\ step = "read" /\ index.fields < Len(message)
     /\ DataLength - index.at >= Bytes(f)
     /\ index' = [at |-> index.at + BytesUnscaled(f), fields |-> index.fields + 1]
     /\ UNCHANGED <<step, message, marks>>

\* InputStream::Serialize of the next field.
Take ==
  LET f == message[index.fields + 1]
  IN /\ step = "read" /\ index.fields < Len(message)
     /\ DataLength - index.at >= Bytes(f)
     /\ index' = [at |-> index.at + Bytes(f), fields |-> index.fields + 1]
     /\ UNCHANGED <<step, message, marks>>

TakeFails ==
  LET f == message[index.fields + 1]
  IN /\ step = "read" /\ step' = "refused" /\ index.fields < Len(message)
     /\ DataLength - index.at < Bytes(f)
     /\ UNCHANGED <<message, marks, index>>

\* The callback has its arguments.
Handled ==
  /\ step = "read"
  /\ index.fields = Len(message)
  /\ Return

StreamNext ==
  \/ \E m \in Messages : Call(m)
  \/ Serialize \/ SerializeFails
  \/ Packet
  \/ Take \/ TakeFails
  \/ Handled

StreamSpec == StreamInit /\ [][StreamNext]_streamVars

-----------------------------------------------------------------------------
\* Types; the stream stays inside m_DataBuffer, and an InputStream inside the stream.
StreamTypeOK ==
  /\ step \in {"idle", "write", "read", "refused"}
  /\ message \in Seq(Fields)
  /\ marks \in Seq(0 .. MaxOutput) /\ Len(marks) <= Len(message)
  /\ index \in [at : 0 .. MaxOutput, fields : Nat]

\* No part of a message is handed on: what is sent has all its fields (the calls return
\* -1 when one does not fit).
SentWhole == step \in {"read", "refused"} => Len(marks) = Len(message)

\* The callback takes every field from where it was put, be the arrays of no element or
\* of as many as overflow their count: both ends compute in the same 16 bits.
TakesInStep ==
  step = "read" /\ index.fields < Len(message) =>
    /\ index.at = Begins(index.fields + 1)
    /\ index.at + Bytes(message[index.fields + 1]) = marks[index.fields + 1]

\* A message that could be sent can be taken.
NeverRefused == step # "refused"

\* What was put into a stream is taken from it (easy_stream.h).
Taken == StreamTypeOK /\ SentWhole /\ TakesInStep /\ NeverRefused

\* Every element of an array is in the stream (easy_stream.h:137, "serialize array type").
ArraysWhole ==
  step = "read" => \A i \in 1 .. Len(message) :
                   marks[i] - Begins(i) = message[i].count * message[i].size

\* A stream and its head fit the buffer SendData puts them into, "max size from server to
\* client" (common.h:9).
PacketFits == step = "read" => DataLength + PACKET_HEAD <= MaxOutput
=============================================================================
