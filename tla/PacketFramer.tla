---------------------------- MODULE PacketFramer ----------------------------
(***************************************************************************)
(* EasySession::OnData, and EasyBaseClient::_OnCommandOnData, which repeats *)
(* it: packets arrive in pieces of any size and are cut out of m_RecvBuf.  *)
(*                                                                         *)
(* What a byte holds does not matter here, only where in the stream it     *)
(* comes from: bytes are numbered from the start of the first packet that  *)
(* is not handled yet.  Lengths fit their 16 bits (at most 65500 + 4).     *)
(***************************************************************************)
EXTENDS Naturals, Sequences

CONSTANTS
  PacketHead,  \* PACKET_HEAD
  BufSize,     \* sizeof(m_RecvBuf)
  PacketMax,   \* longest packet, with its head
  PieceMax,    \* longest piece the network hands over
  Ahead        \* bound: packets sent and not handled

ASSUME SizesAssumption ==
  /\ PacketHead \in Nat \ {0} /\ BufSize \in Nat /\ PieceMax \in Nat \ {0}
  /\ PacketMax \in Nat /\ PacketHead <= PacketMax
  /\ Ahead \in Nat

VARIABLES
  ends,      \* of each packet sent and not handled, oldest first, its last byte's number
  wire,      \* bytes sent and not received
  from, len, \* the piece in hand: number of its next byte (pData), bytes left (iLen)
  buf,       \* m_RecvBuf up to m_iRecvBufLen: the numbers of its bytes
  pc         \* in OnData: "copy" a part of the piece, "cut" packets; or "idle"

vars == <<ends, wire, from, len, buf, pc>>

LastByte == IF ends = <<>> THEN 0 ELSE ends[Len(ends)]

Init ==
  /\ ends = <<>> /\ wire = 0
  /\ from = 1 /\ len = 0
  /\ buf = <<>>
  /\ pc = "idle"

\* The peer's SendData: one packet, head and body.
SendData(full) ==
  /\ Len(ends) < Ahead
  /\ ends' = Append(ends, LastByte + full)
  /\ wire' = wire + full
  /\ UNCHANGED <<from, len, buf, pc>>

OnData(n) ==
  /\ pc = "idle" /\ pc' = "copy"
  /\ n <= wire
  /\ wire' = wire - n
  /\ len' = n
  /\ UNCHANGED <<ends, from, buf>>

\* A piece that does not fit is copied in parts, of the length by which it is too long.
Part == IF Len(buf) + len <= BufSize THEN len ELSE Len(buf) + len - BufSize

Copy ==
  /\ pc = "copy" /\ pc' = "cut"
  /\ buf' = [i \in 1 .. (Len(buf) + Part) |->
               IF i <= Len(buf) THEN buf[i] ELSE from + (i - Len(buf) - 1)]
  /\ from' = from + Part
  /\ len' = len - Part
  /\ UNCHANGED <<ends, wire>>

\* iFullLength: the head at the start of the buffer is that of the oldest packet, as
\* long as the buffer starts where that packet does (InStep).
FullLength == ends[1]

Complete == ends # <<>> /\ Len(buf) >= PacketHead /\ Len(buf) >= FullLength

\* Mutant: the rest is not moved to the front.
HandlePacketUnmoved ==
  /\ pc = "cut"
  /\ Complete
  /\ buf' = [i \in 1 .. (Len(buf) - FullLength) |-> buf[i] - FullLength]
  /\ from' = from - FullLength
  /\ ends' = [i \in 1 .. (Len(ends) - 1) |-> ends[i + 1] - FullLength]
  /\ UNCHANGED <<wire, len, pc>>

HandlePacket ==
  /\ pc = "cut"
  /\ Complete
  /\ buf' = [i \in 1 .. (Len(buf) - FullLength) |-> buf[i + FullLength] - FullLength]
  /\ from' = from - FullLength
  /\ ends' = [i \in 1 .. (Len(ends) - 1) |-> ends[i + 1] - FullLength]
  /\ UNCHANGED <<wire, len, pc>>

NextPart ==
  /\ pc = "cut" /\ pc' = IF len > 0 THEN "copy" ELSE "idle"
  /\ ~Complete
  /\ UNCHANGED <<ends, wire, from, len, buf>>

\* EasySession::Reset, when the connection is closed: the next one begins a new stream.
Reset ==
  /\ pc = "idle"
  /\ ends' = <<>> /\ wire' = 0
  /\ from' = 1 /\ buf' = <<>>
  /\ UNCHANGED <<len, pc>>

Step == Copy \/ HandlePacket \/ NextPart

Next ==
  \/ \E full \in PacketHead .. PacketMax : SendData(full)
  \/ \E n \in 1 .. PieceMax : OnData(n)
  \/ Step
  \/ Reset

Spec == Init /\ [][Next]_vars

\* OnData runs on: nothing in it waits.
Fairness == WF_vars(Step)

FairSpec == Spec /\ Fairness

-----------------------------------------------------------------------------
\* Types; the ends of the packets are as far apart as packets are long.
TypeOK ==
  /\ ends \in Seq(Nat)
  /\ \A i \in 1 .. Len(ends) :
       ends[i] - (IF i = 1 THEN 0 ELSE ends[i - 1]) \in PacketHead .. PacketMax
  /\ wire \in Nat /\ from \in Nat /\ len \in 0 .. PieceMax
  /\ buf \in Seq(Nat)
  /\ pc \in {"idle", "copy", "cut"}

\* The buffer holds the stream from the start of the oldest packet on, without a gap or
\* a byte twice, and the piece in hand goes on where it ends: every head is read where
\* a head is.
InStep ==
  /\ \A i \in 1 .. Len(buf) : buf[i] = i
  /\ from = Len(buf) + 1

\* No byte is lost or made up: the buffer, the piece in hand and the wire hold exactly
\* the packets that are not handled.
BytesConserved == Len(buf) + len + wire = LastByte

\* The copy stays inside m_RecvBuf ("the incoming length is no more than the last of
\* buffer", easy_session.cpp:61).
BufferBounded == Len(buf) <= BufSize

\* OnData does not return, and does not copy on, while a whole packet is in the buffer.
Drained == pc # "cut" => IF ends = <<>> THEN buf = <<>> ELSE Len(buf) < ends[1]

\* However the stream is cut, EasySession::OnData frames it as it was sent.
Framed == TypeOK /\ InStep /\ BytesConserved /\ BufferBounded /\ Drained

\* OnData returns, whatever the piece: each round of its loop takes a part of it.
OnDataReturns == pc = "copy" ~> pc = "idle"
=============================================================================
