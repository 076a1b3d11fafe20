------------------------------ MODULE DataProofs ------------------------------
(***************************************************************************)
(* Proofs about what becomes of bytes: OnData's framing of a stream, the   *)
(* fields of a message in its streams, the messages of the log and the     *)
(* elements of an array, for every buffer and every length.                *)
(***************************************************************************)
EXTENDS MCData, SequenceTheorems, TLAPS

-----------------------------------------------------------------------------
(* Framing: when a packet and a piece are short enough for the buffer,     *)
(* EasySession::OnData stays in it and never loses its place.              *)

\* What is left of a packet, and a piece too long for the room after it: the copy of the
\* excess then is no longer than that room.
Short == 2 * (PacketMax - 1) + PieceMax <= 2 * BufSize /\ PacketMax <= BufSize

\* Packets end in the order in which they were sent.
Ascending == \A i, j \in 1 .. Len(ends) : i < j => ends[i] < ends[j]

\* Nothing of a piece is left between two calls of OnData.
IdleEmpty == pc = "idle" => len = 0

FramerIInv ==
  TypeOK /\ Ascending /\ IdleEmpty /\ InStep /\ BytesConserved /\ BufferBounded /\ Drained

\* A function on 1 .. n is a sequence of length n.
LEMMA MakeSeq ==
  ASSUME NEW S, NEW n \in Nat, NEW f \in [1 .. n -> S]
  PROVE  f \in Seq(S) /\ Len(f) = n
OBVIOUS

\* Copy takes no more than there is, and stays in the buffer.
LEMMA PartFits ==
  ASSUME Short, FramerIInv, pc = "copy"
  PROVE  Part \in 0 .. len /\ Len(buf) + Part \in 0 .. BufSize
<1>1. Len(buf) \in Nat /\ len \in Nat /\ len <= PieceMax /\ Len(buf) <= BufSize
  BY SizesAssumption DEF FramerIInv, TypeOK, BufferBounded
<1>2. Len(buf) <= PacketMax - 1
  <2>1. CASE ends = <<>>
    BY <2>1, <1>1, SizesAssumption DEF FramerIInv, Drained
  <2>2. CASE ends # <<>>
    <3>1. Len(ends) \in Nat /\ 1 \in 1 .. Len(ends)
      BY <2>2 DEF FramerIInv, TypeOK
    <3>2. ends[1] \in Nat /\ ends[1] - 0 \in PacketHead .. PacketMax
      BY <3>1 DEF FramerIInv, TypeOK
    <3> QED BY <2>2, <3>2, <1>1, SizesAssumption DEF FramerIInv, Drained
  <2> QED BY <2>1, <2>2
<1> QED BY <1>1, <1>2, SizesAssumption DEF Short, Part

LEMMA InitFramer == Init => FramerIInv
<1> SUFFICES ASSUME Init PROVE FramerIInv OBVIOUS
<1>1. ends = <<>> /\ buf = <<>> /\ wire = 0 /\ from = 1 /\ len = 0 /\ pc = "idle"
  BY DEF Init
<1>2. <<>> \in Seq(Nat) /\ Len(<<>>) = 0
  OBVIOUS
<1> QED
  BY <1>1, <1>2, SizesAssumption
  DEF FramerIInv, TypeOK, Ascending, IdleEmpty, InStep, BytesConserved, BufferBounded, Drained,
      LastByte

\* The end of the last packet is a number, and 0 without packets.
LEMMA LastByteType ==
  ASSUME FramerIInv
  PROVE  /\ LastByte \in Nat
         /\ Len(ends) \in Nat
         /\ ends = <<>> <=> Len(ends) = 0
         /\ \A i \in 1 .. Len(ends) : ends[i] \in Nat /\ ends[i] <= LastByte
<1>1. ends \in Seq(Nat)
  BY DEF FramerIInv, TypeOK
<1>2. /\ Len(ends) \in Nat
      /\ ends = <<>> <=> Len(ends) = 0
      /\ \A i \in 1 .. Len(ends) : ends[i] \in Nat
  BY <1>1
<1> QED BY <1>2 DEF FramerIInv, Ascending, LastByte

LEMMA SendDataStep ==
  ASSUME FramerIInv, NEW full \in PacketHead .. PacketMax, SendData(full)
  PROVE  FramerIInv'
<1>1. full \in Nat /\ full > 0
  BY SizesAssumption
<1>2. LastByte \in Nat /\ LastByte + full \in Nat
  BY LastByteType, <1>1
<1>3. ends' = Append(ends, LastByte + full) /\ ends \in Seq(Nat)
  BY DEF SendData, FramerIInv, TypeOK
<1>4. /\ ends' \in Seq(Nat) /\ Len(ends') = Len(ends) + 1 /\ ends' # <<>>
      /\ \A i \in 1 .. Len(ends) : ends'[i] = ends[i]
      /\ ends'[Len(ends) + 1] = LastByte + full
  BY <1>2, <1>3
<1>5. UNCHANGED <<from, len, buf, pc>> /\ wire' = wire + full
  BY DEF SendData
<1>6. LastByte' = LastByte + full
  BY <1>4 DEF LastByte
<1>7. TypeOK'
  <2>1. wire' \in Nat
    BY <1>1, <1>5 DEF FramerIInv, TypeOK
  <2>2. ASSUME NEW i \in 1 .. Len(ends')
        PROVE  ends'[i] - (IF i = 1 THEN 0 ELSE ends'[i - 1]) \in PacketHead .. PacketMax
    <3>1. CASE i \in 1 .. Len(ends)
      <4>1. ends'[i] = ends[i] /\ (i # 1 => ends'[i - 1] = ends[i - 1])
        <5>1. \A k \in 1 .. Len(ends) : ends'[k] = ends[k]
          BY <1>4
        <5>2. i # 1 => i - 1 \in 1 .. Len(ends)
          BY <3>1, LastByteType
        <5> QED BY <3>1, <5>1, <5>2
      <4>2. ends[i] - (IF i = 1 THEN 0 ELSE ends[i - 1]) \in PacketHead .. PacketMax
        <5>1. \A k \in 1 .. Len(ends) :
                ends[k] - (IF k = 1 THEN 0 ELSE ends[k - 1]) \in PacketHead .. PacketMax
          BY DEF FramerIInv, TypeOK
        <5> QED BY <5>1, <3>1
      <4>3. CASE i = 1
        BY <4>1, <4>2, <4>3
      <4>4. CASE i # 1
        BY <4>1, <4>2, <4>4
      <4> QED BY <4>3, <4>4
    <3>2. CASE i = Len(ends) + 1
      <4>1. LastByte = IF i = 1 THEN 0 ELSE ends'[i - 1]
        BY <3>2, <1>4, LastByteType DEF LastByte
      <4> QED BY <4>1, <3>2, <1>1, <1>2, <1>4
    <3> QED BY <3>1, <3>2, <1>4, LastByteType
  <2> QED BY <2>1, <2>2, <1>4, <1>5 DEF FramerIInv, TypeOK
<1>8. Ascending'
  <2>1. ASSUME NEW i \in 1 .. Len(ends'), NEW j \in 1 .. Len(ends'), i < j
        PROVE  ends'[i] < ends'[j]
    <3>1. /\ i \in 1 .. Len(ends) /\ ends'[i] = ends[i]
          /\ ends[i] \in Nat /\ ends[i] <= LastByte
      BY <2>1, <1>4, LastByteType
    <3>2. CASE j \in 1 .. Len(ends)
      BY <2>1, <3>1, <3>2, <1>4 DEF FramerIInv, Ascending
    <3>3. CASE j = Len(ends) + 1
      BY <3>1, <3>3, <1>1, <1>2, <1>4
    <3> QED BY <3>2, <3>3, <1>4, LastByteType
  <2> QED BY <2>1 DEF Ascending
<1>9. InStep' /\ BufferBounded' /\ IdleEmpty'
  BY <1>5 DEF FramerIInv, InStep, BufferBounded, IdleEmpty
<1>10. BytesConserved'
  <2>1. Len(buf) + len + wire = LastByte /\ Len(buf) \in Nat /\ len \in Nat /\ wire \in Nat
    BY SizesAssumption DEF FramerIInv, BytesConserved, TypeOK
  <2> QED BY <2>1, <1>1, <1>5, <1>6 DEF BytesConserved
<1>11. Drained'
  <2>1. CASE ends = <<>>
    <3>1. Len(ends) = 0
      BY <2>1, LastByteType
    <3>2. ends'[1] = LastByte + full
      BY <3>1, <1>4
    <3> QED BY <2>1, <3>2, <1>1, <1>2, <1>4, <1>5 DEF FramerIInv, Drained
  <2>2. CASE ends # <<>>
    BY <2>2, <1>4, <1>5, LastByteType DEF FramerIInv, Drained
  <2> QED BY <2>1, <2>2
<1> QED BY <1>7, <1>8, <1>9, <1>10, <1>11 DEF FramerIInv

LEMMA OnDataStep ==
  ASSUME FramerIInv, NEW n \in 1 .. PieceMax, OnData(n)
  PROVE  FramerIInv'
<1>1. UNCHANGED <<ends, from, buf>> /\ pc = "idle" /\ pc' = "copy"
  BY DEF OnData
<1>2. /\ len = 0 /\ len' = n /\ wire' = wire - n
      /\ n \in Nat /\ wire \in Nat /\ n <= wire /\ n <= PieceMax
  BY SizesAssumption DEF OnData, FramerIInv, TypeOK, IdleEmpty
<1>3. TypeOK'
  BY <1>1, <1>2, SizesAssumption DEF FramerIInv, TypeOK
<1>4. LastByte' = LastByte /\ Len(buf) \in Nat
  BY <1>1 DEF LastByte, FramerIInv, TypeOK
<1>5. BytesConserved'
  BY <1>1, <1>2, <1>4 DEF FramerIInv, BytesConserved
<1> QED
  BY <1>1, <1>3, <1>5 DEF FramerIInv, Ascending, IdleEmpty, InStep, BufferBounded, Drained

LEMMA CopyStep ==
  ASSUME Short, FramerIInv, Copy
  PROVE  FramerIInv'
<1>1. pc = "copy" /\ pc' = "cut" /\ UNCHANGED <<ends, wire>>
  BY DEF Copy
<1>2. Part \in Nat /\ Part <= len /\ len \in Nat /\ len <= PieceMax /\ wire \in Nat
  BY <1>1, PartFits, SizesAssumption DEF FramerIInv, TypeOK
<1>3. Len(buf) \in Nat /\ Len(buf) + Part \in Nat /\ Len(buf) + Part <= BufSize
  BY <1>1, <1>2, PartFits, SizesAssumption DEF FramerIInv, TypeOK
<1>4. from = Len(buf) + 1 /\ \A i \in 1 .. Len(buf) : buf[i] = i
  BY DEF FramerIInv, InStep
<1> DEFINE new == [i \in 1 .. (Len(buf) + Part) |->
                     IF i <= Len(buf) THEN buf[i] ELSE from + (i - Len(buf) - 1)]
<1>5. \A i \in 1 .. (Len(buf) + Part) : new[i] = i
  BY <1>2, <1>3, <1>4
<1>6. new \in [1 .. (Len(buf) + Part) -> Nat]
  BY <1>3, <1>5
<1>7. buf' = new
  BY DEF Copy
<1> HIDE DEF new
<1>8. buf' \in Seq(Nat) /\ Len(buf') = Len(buf) + Part
  BY <1>3, <1>6, <1>7, MakeSeq
<1>9. from' = from + Part /\ len' = len - Part
  BY DEF Copy
<1>10. TypeOK'
  BY <1>1, <1>2, <1>3, <1>4, <1>8, <1>9, SizesAssumption DEF FramerIInv, TypeOK
<1>11. InStep'
  BY <1>2, <1>3, <1>4, <1>5, <1>7, <1>8, <1>9 DEF InStep
<1>12. BufferBounded'
  BY <1>3, <1>8 DEF BufferBounded
<1>13. LastByte' = LastByte
  BY <1>1 DEF LastByte
<1>14. BytesConserved'
  BY <1>1, <1>2, <1>3, <1>8, <1>9, <1>13 DEF FramerIInv, BytesConserved
<1> QED
  BY <1>1, <1>10, <1>11, <1>12, <1>14 DEF FramerIInv, Ascending, IdleEmpty, Drained

LEMMA HandlePacketStep ==
  ASSUME FramerIInv, HandlePacket
  PROVE  FramerIInv'
<1>1. /\ pc = "cut" /\ UNCHANGED <<wire, len, pc>>
      /\ ends # <<>> /\ Len(buf) >= ends[1]
  BY DEF HandlePacket, Complete, FullLength
<1>2. Len(ends) \in Nat /\ Len(ends) >= 1
  BY <1>1, LastByteType
<1>3. ends[1] \in Nat /\ ends[1] > 0
  BY <1>2, SizesAssumption DEF FramerIInv, TypeOK
<1>4. Len(buf) \in Nat /\ Len(buf) - ends[1] \in Nat /\ Len(ends) - 1 \in Nat
  BY <1>1, <1>2, <1>3 DEF FramerIInv, TypeOK
<1> DEFINE rest == [i \in 1 .. (Len(buf) - ends[1]) |-> buf[i + ends[1]] - ends[1]]
           tail == [i \in 1 .. (Len(ends) - 1) |-> ends[i + 1] - ends[1]]
<1>5. ASSUME NEW i \in 1 .. (Len(buf) - ends[1])
      PROVE  rest[i] = i /\ i \in Nat
  <2>1. i + ends[1] \in 1 .. Len(buf)
    BY <1>3, <1>4
  <2>2. buf[i + ends[1]] = i + ends[1]
    BY <2>1 DEF FramerIInv, InStep
  <2> QED BY <2>2, <1>3, <1>4
<1>6. rest \in [1 .. (Len(buf) - ends[1]) -> Nat]
  <2>1. \A i \in 1 .. (Len(buf) - ends[1]) : rest[i] \in Nat
    BY <1>5
  <2> QED BY <2>1
<1>7. ASSUME NEW i \in 1 .. (Len(ends) - 1)
      PROVE  /\ i + 1 \in 1 .. Len(ends) /\ ends[i + 1] \in Nat /\ ends[1] < ends[i + 1]
             /\ tail[i] = ends[i + 1] - ends[1]
  <2>1. i + 1 \in 1 .. Len(ends) /\ 1 \in 1 .. Len(ends) /\ 1 < i + 1
    BY <1>2
  <2> QED BY <2>1, LastByteType DEF FramerIInv, Ascending
<1>8. tail \in [1 .. (Len(ends) - 1) -> Nat]
  BY <1>3, <1>7
<1>9. buf' = rest /\ ends' = tail /\ from' = from - ends[1]
  BY DEF HandlePacket, FullLength
<1> HIDE DEF rest, tail
<1>10. /\ buf' \in Seq(Nat) /\ Len(buf') = Len(buf) - ends[1]
       /\ ends' \in Seq(Nat) /\ Len(ends') = Len(ends) - 1
  <2>1. rest \in Seq(Nat) /\ Len(rest) = Len(buf) - ends[1]
    BY <1>4, <1>6, MakeSeq
  <2>2. tail \in Seq(Nat) /\ Len(tail) = Len(ends) - 1
    BY <1>4, <1>8, MakeSeq
  <2> QED BY <2>1, <2>2, <1>9
<1>11. InStep'
  BY <1>3, <1>4, <1>5, <1>9, <1>10 DEF FramerIInv, InStep
<1>12. BufferBounded'
  BY <1>3, <1>4, <1>10, SizesAssumption DEF FramerIInv, BufferBounded
<1>13. Ascending'
  <2>1. ASSUME NEW i \in 1 .. Len(ends'), NEW j \in 1 .. Len(ends'), i < j
        PROVE  ends'[i] < ends'[j]
    <3>1. i \in 1 .. (Len(ends) - 1) /\ j \in 1 .. (Len(ends) - 1)
      BY <1>10
    <3>2. ends'[i] = ends[i + 1] - ends[1] /\ ends'[j] = ends[j + 1] - ends[1]
      BY <3>1, <1>7, <1>9
    <3>3. i + 1 \in 1 .. Len(ends) /\ j + 1 \in 1 .. Len(ends) /\ i + 1 < j + 1
      BY <2>1, <3>1, <1>7
    <3>4. ends[i + 1] < ends[j + 1] /\ ends[i + 1] \in Nat /\ ends[j + 1] \in Nat
      BY <3>3, LastByteType DEF FramerIInv, Ascending
    <3> QED BY <3>2, <3>4, <1>3
  <2> QED BY <2>1 DEF Ascending
<1>14. TypeOK'
  <2>1. ASSUME NEW i \in 1 .. Len(ends')
        PROVE  ends'[i] - (IF i = 1 THEN 0 ELSE ends'[i - 1]) \in PacketHead .. PacketMax
    <3>1. i \in 1 .. (Len(ends) - 1)
      BY <1>10
    <3>2. ends[i + 1] - ends[i] \in PacketHead .. PacketMax
      <4>1. i + 1 \in 1 .. Len(ends) /\ i + 1 # 1 /\ (i + 1) - 1 = i
        BY <3>1, <1>7
      <4>2. ends[i + 1] - (IF i + 1 = 1 THEN 0 ELSE ends[(i + 1) - 1])
              \in PacketHead .. PacketMax
        BY <4>1 DEF FramerIInv, TypeOK
      <4> QED BY <4>1, <4>2
    <3>3. ends'[i] = ends[i + 1] - ends[1] /\ ends[i + 1] \in Nat
      BY <3>1, <1>7, <1>9
    <3>4. CASE i = 1
      BY <3>2, <3>3, <3>4
    <3>5. CASE i # 1
      <4>1. i - 1 \in 1 .. (Len(ends) - 1) /\ (i - 1) + 1 = i
        BY <3>1, <3>5
      <4>2. ends'[i - 1] = ends[i] - ends[1] /\ ends[i] \in Nat
        BY <4>1, <1>7, <1>9
      <4> QED BY <3>2, <3>3, <3>5, <4>2, <1>3
    <3> QED BY <3>4, <3>5
  <2>2. from' \in Nat
    BY <1>3, <1>4, <1>9 DEF FramerIInv, InStep
  <2> QED BY <1>1, <1>10, <2>1, <2>2 DEF FramerIInv, TypeOK
<1>15. BytesConserved'
  <2>1. LastByte' = LastByte - ends[1]
    <3>1. CASE Len(ends) = 1
      <4>1. Len(ends') = 0
        BY <3>1, <1>10
      <4>2. ends' = <<>> /\ LastByte = ends[1]
        BY <4>1, <3>1, <1>1, <1>10 DEF LastByte
      <4>3. LastByte' = 0
        BY <4>2 DEF LastByte
      <4> QED BY <4>2, <4>3, <1>3
    <3>2. CASE Len(ends) # 1
      <4>1. /\ ends' # <<>> /\ (Len(ends) - 1) + 1 = Len(ends)
            /\ Len(ends) - 1 \in 1 .. (Len(ends) - 1)
        BY <3>2, <1>2, <1>10
      <4>2. ends'[Len(ends')] = ends[Len(ends)] - ends[1]
        BY <4>1, <1>7, <1>9, <1>10
      <4>3. LastByte' = ends'[Len(ends')] /\ LastByte = ends[Len(ends)]
        BY <4>1, <1>1 DEF LastByte
      <4> QED BY <4>2, <4>3
    <3> QED BY <3>1, <3>2
  <2>2. Len(buf) + len + wire = LastByte /\ len \in Nat /\ wire \in Nat
    BY SizesAssumption DEF FramerIInv, BytesConserved, TypeOK
  <2> QED BY <2>1, <2>2, <1>1, <1>3, <1>4, <1>10 DEF BytesConserved
<1> QED
  BY <1>1, <1>11, <1>12, <1>13, <1>14, <1>15 DEF FramerIInv, IdleEmpty, Drained

LEMMA NextPartStep ==
  ASSUME Short, FramerIInv, NextPart
  PROVE  FramerIInv'
<1>1. UNCHANGED <<ends, wire, from, len, buf>> /\ pc = "cut" /\ ~Complete
  BY DEF NextPart
<1>2. pc' = (IF len > 0 THEN "copy" ELSE "idle") /\ len \in Nat
  BY DEF NextPart, FramerIInv, TypeOK
<1>3. TypeOK' /\ IdleEmpty'
  BY <1>1, <1>2 DEF FramerIInv, TypeOK, IdleEmpty
<1>4. BytesConserved'
  BY <1>1 DEF FramerIInv, BytesConserved, LastByte
<1>5. Drained'
  <2>1. Len(buf) \in Nat /\ buf \in Seq(Nat) /\ len \in Nat /\ wire \in Nat
    BY <1>2 DEF FramerIInv, TypeOK
  <2>2. CASE ends = <<>>
    <3>1. Len(buf) = 0
      BY <2>1, <2>2 DEF FramerIInv, BytesConserved, LastByte
    <3> QED BY <2>1, <2>2, <3>1, <1>1 DEF Drained
  <2>3. CASE ends # <<>>
    <3>1. 1 \in 1 .. Len(ends)
      BY <2>3, LastByteType
    <3>2. ends[1] \in Nat /\ ends[1] >= PacketHead
      BY <3>1, SizesAssumption DEF FramerIInv, TypeOK
    <3>3. Len(buf) < ends[1]
      BY <2>1, <2>3, <3>2, <1>1, SizesAssumption DEF Complete, FullLength
    <3> QED BY <2>3, <3>3, <1>1 DEF Drained
  <2> QED BY <2>2, <2>3
<1> QED BY <1>1, <1>3, <1>4, <1>5 DEF FramerIInv, Ascending, InStep, BufferBounded

LEMMA ResetStep ==
  ASSUME FramerIInv, Reset
  PROVE  FramerIInv'
<1>1. /\ ends' = <<>> /\ buf' = <<>> /\ wire' = 0 /\ from' = 1
      /\ UNCHANGED <<len, pc>> /\ pc = "idle"
  BY DEF Reset
<1>2. <<>> \in Seq(Nat) /\ Len(<<>>) = 0
  OBVIOUS
<1>3. len = 0
  BY <1>1 DEF FramerIInv, IdleEmpty
<1> QED
  BY <1>1, <1>2, <1>3, SizesAssumption
  DEF FramerIInv, TypeOK, Ascending, IdleEmpty, InStep, BytesConserved, BufferBounded, Drained,
      LastByte

LEMMA NextFramer == Short /\ FramerIInv /\ [Next]_vars => FramerIInv'
<1> SUFFICES ASSUME Short, FramerIInv, [Next]_vars PROVE FramerIInv' OBVIOUS
<1>1. ASSUME NEW full \in PacketHead .. PacketMax, SendData(full) PROVE FramerIInv'
  BY <1>1, SendDataStep
<1>2. ASSUME NEW n \in 1 .. PieceMax, OnData(n) PROVE FramerIInv'
  BY <1>2, OnDataStep
<1>3. CASE Copy
  BY <1>3, CopyStep
<1>4. CASE HandlePacket
  BY <1>4, HandlePacketStep
<1>5. CASE NextPart
  BY <1>5, NextPartStep
<1>6. CASE Reset
  BY <1>6, ResetStep
<1>7. CASE UNCHANGED vars
  BY <1>7 DEF vars, FramerIInv, TypeOK, Ascending, IdleEmpty, InStep, BytesConserved,
              BufferBounded, Drained, LastByte
<1> QED BY <1>1, <1>2, <1>3, <1>4, <1>5, <1>6, <1>7 DEF Next, Step

-----------------------------------------------------------------------------
\* If what is left of a packet and a piece are together short enough, OnData frames the
\* stream as it was sent, for every buffer, packet and way of cutting the stream: it never
\* writes past the end of m_RecvBuf, starts every packet where a packet starts, loses and
\* doubles no byte, and leaves no whole packet (easy_session.cpp:59-101).
THEOREM FramesInStep == ASSUME Short PROVE Spec => []Framed
<1>1. Init => FramerIInv
  BY InitFramer
<1>2. FramerIInv /\ [Next]_vars => FramerIInv'
  BY NextFramer
<1>3. FramerIInv => Framed
  BY DEF FramerIInv, Framed
<1> QED BY <1>1, <1>2, <1>3, PTL DEF Spec

-----------------------------------------------------------------------------
(* Streams: a message on its way through an OutputStream and an            *)
(* InputStream, whatever its fields and the size of the stream.            *)

\* Where the fields written so far end, each after the one before it.
Laid ==
  /\ \A i \in 1 .. Len(marks) : marks[i] = Begins(i) + Bytes(message[i])
  /\ \A i, j \in 1 .. Len(marks) : i <= j => marks[i] <= marks[j]

\* The reader is at the end of the field it took last.
Placed ==
  /\ index.fields <= Len(marks)
  /\ index.at = IF index.fields = 0 THEN 0 ELSE marks[index.fields]
  /\ step = "idle" => marks = <<>>

StreamIInv == StreamTypeOK /\ Laid /\ Placed /\ SentWhole /\ NeverRefused

\* The length of a field is a number.
LEMMA BytesNat == ASSUME NEW f \in Fields PROVE Bytes(f) \in Nat
<1>1. W16 \in Nat \ {0}
  BY FieldsAssumption
<1>2. /\ f.count \in Nat /\ f.size \in Nat
  BY FieldsAssumption, <1>1
<1>3. f.count * f.size \in Nat
  BY <1>2
<1>4. \A n \in Nat : n % W16 \in Nat
  BY <1>1, SMT
<1> QED
  BY <1>2, <1>3, <1>4 DEF Bytes

\* The length of the stream is a number, and its last field's end.
LEMMA LengthNat == StreamTypeOK => DataLength \in 0 .. MaxOutput
  BY FieldsAssumption DEF StreamTypeOK, DataLength

LEMMA InitStream == StreamInit => StreamIInv
  BY FieldsAssumption DEF StreamInit, Start, StreamIInv, StreamTypeOK, Laid, Placed, SentWhole,
                          NeverRefused

\* Serialize puts the next field behind the others.
LEMMA SerializeIInv == StreamIInv /\ Serialize => StreamIInv'
<1> SUFFICES ASSUME StreamIInv, Serialize PROVE StreamIInv'
  OBVIOUS
<1> DEFINE f == message[Len(marks) + 1]
           e == DataLength + Bytes(f)
<1> USE DEF StreamIInv
<1>1. /\ message \in Seq(Fields) /\ marks \in Seq(0 .. MaxOutput)
      /\ Len(marks) \in Nat /\ Len(marks) < Len(message)
      /\ marks' = Append(marks, e) /\ e <= MaxOutput
      /\ UNCHANGED <<step, message, index>>
  BY DEF Serialize, StreamTypeOK
<1>2. f \in Fields
  BY <1>1
<1>3. /\ Bytes(f) \in Nat /\ DataLength \in 0 .. MaxOutput
  BY <1>2, BytesNat, LengthNat
<1>4. e \in 0 .. MaxOutput
  BY <1>1, <1>3, FieldsAssumption
<1> HIDE DEF e
<1>5. StreamTypeOK'
  BY <1>1, <1>4 DEF StreamTypeOK
<1>6. \A i \in 1 .. Len(marks) : marks'[i] = marks[i] /\ Begins(i)' = Begins(i)
  BY <1>1, <1>4 DEF Begins
<1>7. Len(marks') = Len(marks) + 1 /\ marks'[Len(marks) + 1] = e
  BY <1>1, <1>4
<1>8. ASSUME NEW i \in Nat, i = Len(marks) + 1 PROVE Begins(i)' = DataLength
  <2>1. CASE marks = <<>>
    BY <2>1, <1>8, <1>1 DEF Begins, DataLength
  <2>2. CASE marks # <<>>
    <3>1. Len(marks) \in 1 .. Len(marks) /\ i # 1 /\ i - 1 = Len(marks)
      BY <2>2, <1>8, <1>1
    <3>2. marks'[i - 1] = marks[Len(marks)]
      BY <3>1, <1>6
    <3> QED
      BY <2>2, <3>1, <3>2 DEF Begins, DataLength
  <2> QED
    BY <2>1, <2>2
<1>9. ASSUME NEW i \in 1 .. Len(marks) PROVE marks[i] <= DataLength
  BY <1>1, <1>9 DEF Laid, DataLength
<1>10. Laid'
  <2>1. \A i \in 1 .. Len(marks') : marks'[i] = Begins(i)' + Bytes(message'[i])
    <3> SUFFICES ASSUME NEW i \in 1 .. Len(marks') PROVE marks'[i] = Begins(i)' + Bytes(message'[i])
      OBVIOUS
    <3>1. CASE i \in 1 .. Len(marks)
      BY <3>1, <1>1, <1>6 DEF Laid
    <3>2. CASE i = Len(marks) + 1
      <4>1. i \in Nat /\ Begins(i)' = DataLength
        BY <3>2, <1>1, <1>8
      <4> QED
        BY <4>1, <3>2, <1>1, <1>7 DEF e
    <3> QED
      BY <3>1, <3>2, <1>1, <1>7
  <2>2. ASSUME NEW i \in 1 .. Len(marks) PROVE marks[i] <= e
    <3>1. marks[i] \in Nat /\ marks[i] <= DataLength
      BY <1>1, <1>9, FieldsAssumption
    <3> QED
      BY <3>1, <1>3, FieldsAssumption DEF e
  <2>3. \A i, j \in 1 .. Len(marks') : i <= j => marks'[i] <= marks'[j]
    BY <2>2, <1>1, <1>4, <1>6, <1>7 DEF Laid
  <2> QED
    BY <2>1, <2>3 DEF Laid, Bytes
<1>11. Placed'
  <2>1. index.fields \in Nat /\ index.fields <= Len(marks) /\ step = "write"
    BY DEF StreamTypeOK, Placed, Serialize
  <2>2. index.fields # 0 => marks'[index.fields] = marks[index.fields]
    BY <2>1, <1>1, <1>6
  <2> QED
    BY <2>1, <2>2, <1>1, <1>7 DEF Placed
<1>12. SentWhole' /\ NeverRefused'
  BY <1>1 DEF Serialize, SentWhole, NeverRefused
<1> QED
  BY <1>5, <1>10, <1>11, <1>12

\* The next field is in the stream, where the reader is.
LEMMA NextField ==
  ASSUME StreamIInv, step = "read", index.fields < Len(message)
  PROVE  /\ message[index.fields + 1] \in Fields
         /\ index.at = Begins(index.fields + 1)
         /\ index.at + Bytes(message[index.fields + 1]) = marks[index.fields + 1]
         /\ marks[index.fields + 1] \in 0 .. MaxOutput
         /\ marks[index.fields + 1] <= DataLength
<1> DEFINE k == index.fields + 1
<1>1. /\ index.fields \in Nat /\ marks \in Seq(0 .. MaxOutput) /\ message \in Seq(Fields)
      /\ Len(marks) = Len(message) /\ index.at \in 0 .. MaxOutput
  BY DEF StreamIInv, StreamTypeOK, SentWhole
<1>2. k \in 1 .. Len(marks)
  BY <1>1
<1>3. message[k] \in Fields /\ marks[k] \in 0 .. MaxOutput
  <2>1. message \in Seq(Fields) /\ k \in 1 .. Len(message)
    BY <1>1, <1>2
  <2>2. marks \in Seq(0 .. MaxOutput)
    BY <1>1
  <2> HIDE DEF k
  <2>3. message[k] \in Fields
    BY <2>1
  <2>4. ASSUME NEW S, marks \in Seq(S) PROVE marks[k] \in S
    BY <2>4, <1>2
  <2>5. marks[k] \in 0 .. MaxOutput
    BY <2>2, <2>4
  <2> QED
    BY <2>3, <2>5
<1>4. index.at = Begins(k)
  BY <1>1 DEF StreamIInv, Placed, Begins
<1>5. marks[k] = Begins(k) + Bytes(message[k])
  BY <1>2 DEF StreamIInv, Laid
<1>6. marks[k] <= DataLength
  BY <1>1, <1>2 DEF StreamIInv, Laid, DataLength
<1> QED
  BY <1>3, <1>4, <1>5, <1>6

\* Taking a field leaves the reader at its end.
LEMMA TakeIInv == StreamIInv /\ Take => StreamIInv'
<1> SUFFICES ASSUME StreamIInv, Take PROVE StreamIInv'
  OBVIOUS
<1> DEFINE k == index.fields + 1
<1>1. /\ step = "read" /\ index.fields < Len(message)
      /\ index' = [at |-> index.at + Bytes(message[k]), fields |-> k]
      /\ UNCHANGED <<step, message, marks>>
  BY DEF Take
<1>2. /\ index.fields \in Nat /\ marks \in Seq(0 .. MaxOutput) /\ Len(marks) = Len(message)
  BY <1>1 DEF StreamIInv, StreamTypeOK, SentWhole
<1>3. index.at + Bytes(message[k]) = marks[k] /\ marks[k] \in 0 .. MaxOutput
  BY <1>1, NextField
<1>4. index' = [at |-> marks[k], fields |-> k]
  BY <1>1, <1>3
<1>5. StreamTypeOK'
  BY <1>1, <1>2, <1>3, <1>4 DEF StreamIInv, StreamTypeOK
<1>6. Laid'
  BY <1>1 DEF StreamIInv, Laid, Begins, Bytes
<1>7. Placed'
  BY <1>1, <1>2, <1>4 DEF Placed
<1>8. SentWhole' /\ NeverRefused'
  BY <1>1 DEF StreamIInv, SentWhole, NeverRefused
<1> QED
  BY <1>5, <1>6, <1>7, <1>8 DEF StreamIInv

\* A field is never refused.
LEMMA TakeFailsNot == StreamIInv => ~TakeFails
<1> SUFFICES ASSUME StreamIInv, TakeFails PROVE FALSE
  OBVIOUS
<1> DEFINE k == index.fields + 1
<1>1. step = "read" /\ index.fields < Len(message) /\ DataLength - index.at < Bytes(message[k])
  BY DEF TakeFails
<1>2. /\ message[k] \in Fields
      /\ index.at + Bytes(message[k]) = marks[k] /\ marks[k] <= DataLength
      /\ marks[k] \in 0 .. MaxOutput
  BY <1>1, NextField
<1>3. Bytes(message[k]) \in Nat /\ DataLength \in Nat /\ index.at \in Nat
  <2>1. Bytes(message[k]) \in Nat
    BY <1>2, BytesNat
  <2>2. DataLength \in Nat
    BY LengthNat, FieldsAssumption DEF StreamIInv
  <2>3. index.at \in Nat
    BY FieldsAssumption DEF StreamIInv, StreamTypeOK
  <2> QED
    BY <2>1, <2>2, <2>3
<1> QED
  BY <1>1, <1>2, <1>3

\* A stream begins empty, and is gone after the call or the callback.
LEMMA OtherStream ==
  ASSUME StreamIInv,
         (\E m \in Messages : Call(m)) \/ SerializeFails \/ Packet \/ Handled \/ UNCHANGED streamVars
  PROVE  StreamIInv'
<1> USE FieldsAssumption DEF StreamIInv
<1>1. ASSUME NEW m \in Messages, Call(m) PROVE StreamIInv'
  <2>1. m \in Seq(Fields)
    BY DEF Messages
  <2>2. step = "idle" /\ step' = "write" /\ message' = m /\ marks' = marks /\ index' = index
    BY <1>1 DEF Call
  <2> QED
    BY <2>1, <2>2 DEF StreamTypeOK, Laid, Placed, SentWhole, NeverRefused
<1>2. CASE SerializeFails \/ Handled
  <2>1. Return
    BY <1>2 DEF SerializeFails, Handled
  <2> QED
    BY <2>1 DEF Return, Start, StreamTypeOK, Laid, Placed, SentWhole, NeverRefused
<1>3. CASE Packet
  BY <1>3 DEF Packet, StreamTypeOK, Laid, Placed, SentWhole, NeverRefused, Begins, Bytes
<1>4. CASE UNCHANGED streamVars
  BY <1>4 DEF streamVars, StreamTypeOK, Laid, Placed, SentWhole, NeverRefused, Begins, Bytes
<1> QED
  BY <1>1, <1>2, <1>3, <1>4

LEMMA StepStream == StreamIInv /\ [StreamNext]_streamVars => StreamIInv'
  BY SerializeIInv, TakeIInv, TakeFailsNot, OtherStream DEF StreamNext

LEMMA StreamInvariance == StreamSpec => []StreamIInv
  BY InitStream, StepStream, PTL DEF StreamSpec

\* For every message and size of stream: the stream stays inside its buffer and the reader
\* inside the stream; what is sent has all its fields, and each is taken from where it was
\* put, also when the bytes of an array overflow their count (easy_stream.h).
THEOREM MessagesAreTaken == StreamSpec => []Taken
<1>1. StreamIInv => StreamTypeOK /\ SentWhole /\ NeverRefused
  BY DEF StreamIInv
<1>2. StreamIInv => TakesInStep
  BY NextField DEF TakesInStep
<1> QED
  BY <1>1, <1>2, StreamInvariance, PTL DEF Taken

-----------------------------------------------------------------------------
(* The log, for every size of the buffer that 16 bits can count and for    *)
(* messages of any length.                                                 *)

LogIInv == LogTypeOK /\ WrittenInOrder

\* Popping as many bytes as there are takes the whole buffer.
LEMMA PopAll ==
  ASSUME NEW d \in Seq(Nat)
  PROVE  Popped(d, Len(d)) = d /\ Kept(d, Len(d)) = <<>>
<1>1. Len(d) \in Nat /\ Len(d) - Len(d) + 1 = 1
  OBVIOUS
<1>2. Popped(d, Len(d)) = SubSeq(d, 1, Len(d))
  BY <1>1 DEF Popped, Size
<1>3. SubSeq(d, 1, Len(d)) = d
  BY SubSeqFull
<1>4. Kept(d, Len(d)) = SubSeq(d, 1, 0)
  BY <1>1, <1>2, <1>3 DEF Kept, Size
<1>5. SubSeq(d, 1, 0) = <<>>
  BY SubSeqEmpty
<1> QED
  BY <1>2, <1>3, <1>4, <1>5

\* The size of a buffer fits 16 bits.
LEMMA SizeFits == LogTypeOK => Size(data) % Wrap = Len(data)
<1> SUFFICES ASSUME LogTypeOK PROVE Size(data) % Wrap = Len(data)
  OBVIOUS
<1>1. Len(data) \in Nat /\ Len(data) < Wrap /\ Wrap \in Nat
  BY LogAssumption DEF LogTypeOK, Size
<1>2. \A n \in Nat : n < Wrap => n % Wrap = n
  BY <1>1, SMT
<1> QED
  BY <1>1, <1>2 DEF Size

\* Appending bytes.
LEMMA Appended ==
  ASSUME NEW s \in Seq(Nat), NEW t \in Seq(Nat)
  PROVE  /\ s \o t \in Seq(Nat)
         /\ \A u \in Seq(Nat) : s \o (t \o u) = (s \o t) \o u
<1>1. s \o t \in Seq(Nat)
  BY ConcatProperties
<1>2. ASSUME NEW u \in Seq(Nat) PROVE s \o (t \o u) = (s \o t) \o u
  <2>1. (s \o t) \o u = s \o (t \o u)
    BY <1>2, ConcatAssociative, SMTT(60)
  <2> QED
    BY <2>1
<1> QED
  BY <1>1, <1>2

LEMMA InitLog == LogInit => LogIInv
  BY LogAssumption DEF LogInit, LogIInv, LogTypeOK, WrittenInOrder, Size

LEMMA LogPushIInv ==
  ASSUME LogIInv, NEW n \in Lengths, LogPush(n)
  PROVE  LogIInv'
<1> DEFINE item == [i \in 1 .. n |-> messages + 1]
<1>1. /\ n \in Nat /\ messages \in Nat /\ data \in Seq(Nat)
      /\ written \in Seq(Nat) /\ accepted \in Seq(Nat) /\ written \o data = accepted
  BY LogAssumption DEF LogIInv, LogTypeOK, WrittenInOrder
<1>2. item \in Seq(Nat)
  BY <1>1
<1>3. /\ messages' \in 0 .. MessagesMax /\ written' = written
      /\ thread' \in {"none", "tick", "waiting", "woken"}
  BY LogAssumption DEF LogPush, Notified, LogIInv, LogTypeOK
<1>4. CASE HasRoom(data, item)
  <2>1. data' = data \o item /\ accepted' = accepted \o item
    BY <1>4 DEF LogPush, Push
  <2>2. data' \in Seq(Nat) /\ accepted' \in Seq(Nat) /\ Len(data') < MaxSize
    BY <1>1, <1>2, <1>4, <2>1, LogAssumption DEF HasRoom, Size
  <2>3. written \o (data \o item) = (written \o data) \o item
    <3> HIDE DEF item
    <3>1. \A u \in Seq(Nat) : written \o (data \o u) = (written \o data) \o u
      BY <1>1, Appended
    <3> QED
      BY <3>1, <1>2
  <2>4. WrittenInOrder'
    BY <1>1, <1>3, <2>1, <2>3 DEF WrittenInOrder
  <2> QED
    BY <1>1, <1>3, <2>2, <2>4 DEF LogIInv, LogTypeOK, Size
<1>5. CASE ~HasRoom(data, item)
  <2>1. data' = data /\ accepted' = accepted
    BY <1>5 DEF LogPush
  <2> QED
    BY <1>1, <1>3, <2>1 DEF LogIInv, LogTypeOK, Size, WrittenInOrder
<1> QED
  BY <1>4, <1>5

LEMMA OutputIInv == LogIInv /\ Output => LogIInv'
<1> SUFFICES ASSUME LogIInv, Output PROVE LogIInv'
  OBVIOUS
<1>1. data \in Seq(Nat) /\ written \in Seq(Nat) /\ written \o data = accepted
  BY DEF LogIInv, LogTypeOK, WrittenInOrder
<1>2. data' = <<>> /\ written' = written \o data /\ UNCHANGED <<accepted, messages>>
  BY <1>1, SizeFits, PopAll DEF Output, LogIInv
<1>3. accepted \in Seq(Nat) /\ accepted \o <<>> = accepted
  <2>1. accepted \in Seq(Nat)
    BY DEF LogIInv, LogTypeOK
  <2> QED
    BY <2>1, ConcatEmptySeq
<1>4. data' \in Seq(Nat) /\ Len(data') < MaxSize
  BY <1>2, LogAssumption
<1>5. thread' = "tick" /\ messages' \in 0 .. MessagesMax
  BY <1>2 DEF Output, LogIInv, LogTypeOK
<1>6. LogTypeOK'
  BY <1>1, <1>2, <1>3, <1>4, <1>5 DEF LogTypeOK, Size
<1>7. WrittenInOrder'
  BY <1>1, <1>2, <1>3 DEF WrittenInOrder
<1> QED
  BY <1>6, <1>7 DEF LogIInv

\* Everything else leaves the buffer and what was written alone.
LEMMA OtherLog ==
  ASSUME LogIInv, StartThread \/ Wait \/ SpuriousWake \/ UNCHANGED logVars
  PROVE  LogIInv'
<1>1. /\ UNCHANGED <<data, written, accepted, messages>>
      /\ thread' \in {"none", "tick", "waiting", "woken"}
  BY DEF StartThread, Wait, SpuriousWake, logVars, LogIInv, LogTypeOK
<1> QED
  BY <1>1 DEF LogIInv, LogTypeOK, WrittenInOrder, Size

\* What the log accepts is written in order, whole and once, whenever its thread runs.
THEOREM LogInOrder == LogSpec => []WrittenInOrder
<1>1. LogIInv /\ [LogNext]_logVars => LogIInv'
  BY LogPushIInv, OutputIInv, OtherLog DEF LogNext, LogThread
<1>2. LogIInv => WrittenInOrder
  BY DEF LogIInv
<1> QED
  BY <1>1, <1>2, InitLog, PTL DEF LogSpec

-----------------------------------------------------------------------------
(* Arrays: DyArray is the sequence of what was put into it.                *)

\* The content of an array, as far as n of its slots s.
Front(s, n) == [i \in 1 .. n |-> s[i]]

Slot == Elements \union {Raw}

\* With TypeOK of both instances: the block is never smaller than the slots in the object.
ArrayTypes ==
  /\ slots \in Seq(Slot)
  /\ m_iCount \in 0 .. Len(slots)
  /\ N <= Len(slots)
  /\ dynamic \in BOOLEAN /\ lost \in BOOLEAN /\ misused \in BOOLEAN
  /\ dynamic <=> Len(slots) > N

ArrayInv == ArrayTypes /\ (setup = "objects" => Objects!ElementsLive)

LEMMA ArrayConstants ==
  /\ N \in Nat \ {0} /\ SizeMax \in Nat
  /\ Zero \in Elements /\ Raw \notin Elements
  /\ Resizes \subseteq Nat /\ Data \subseteq Seq(Elements)
BY Instances DEF Scalars!DyArrayAssumption

\* The slots in use are a sequence.
LEMMA FrontIsSeq ==
  ASSUME NEW S, NEW s \in Seq(S), NEW n \in 0 .. Len(s)
  PROVE  Front(s, n) \in Seq(S) /\ Len(Front(s, n)) = n /\ \A i \in 1 .. n : Front(s, n)[i] = s[i]
<1>1. n \in Nat /\ Front(s, n) \in [1 .. n -> S]
  BY DEF Front
<1> QED
  BY <1>1, MakeSeq DEF Front

\* Sequences with the same elements are one.
LEMMA SameElements ==
  ASSUME NEW S, NEW s \in Seq(S), NEW t \in Seq(S), Len(s) = Len(t),
         \A i \in 1 .. Len(s) : s[i] = t[i]
  PROVE  s = t
OBVIOUS

\* One element more behind those in use.
LEMMA PushedBehind ==
  ASSUME slots \in Seq(Slot), slots' \in Seq(Slot), m_iCount \in 0 .. Len(slots),
         m_iCount' = m_iCount + 1, m_iCount' <= Len(slots'), NEW v \in Slot,
         \A i \in 1 .. m_iCount : slots'[i] = slots[i], slots'[m_iCount + 1] = v
  PROVE  Front(slots', m_iCount') = Front(slots, m_iCount) \o [i \in 1 .. 1 |-> v]
<1> DEFINE n == m_iCount
           a == Front(slots, n)
           b == [i \in 1 .. 1 |-> v]
           e == a \o b
           c == Front(slots', n + 1)
<1>1. n \in Nat /\ n + 1 \in 0 .. Len(slots')
  OBVIOUS
<1>2. a \in Seq(Slot) /\ Len(a) = n /\ \A i \in 1 .. n : a[i] = slots[i]
  BY FrontIsSeq
<1>3. c \in Seq(Slot) /\ Len(c) = n + 1 /\ \A i \in 1 .. (n + 1) : c[i] = slots'[i]
  BY <1>1, FrontIsSeq
<1>4. b \in Seq(Slot) /\ Len(b) = 1 /\ b[1] = v
  <2>1. b \in [1 .. 1 -> Slot] /\ 1 \in Nat OBVIOUS
  <2> QED BY <2>1, MakeSeq
<1> HIDE DEF a, b, c
<1>5. /\ e \in Seq(Slot) /\ Len(e) = Len(a) + Len(b)
      /\ \A i \in 1 .. (Len(a) + Len(b)) : e[i] = IF i <= Len(a) THEN a[i] ELSE b[i - Len(a)]
  <2>1. a \in Seq(Slot) /\ b \in Seq(Slot)
    BY <1>2, <1>4
  <2> QED BY <2>1, ConcatProperties, Zenon
<1> HIDE DEF e
<1>6. Len(e) = n + 1
  BY <1>1, <1>2, <1>4, <1>5
<1>7. ASSUME NEW i \in 1 .. (n + 1) PROVE c[i] = e[i]
  <2>1. CASE i \in 1 .. n
    <3>1. e[i] = a[i]
      BY <2>1, <1>1, <1>2, <1>4, <1>5
    <3> QED BY <3>1, <2>1, <1>1, <1>2, <1>3
  <2>2. CASE i = n + 1
    <3>1. e[i] = b[1]
      BY <2>2, <1>1, <1>2, <1>4, <1>5
    <3> QED BY <3>1, <2>2, <1>3, <1>4
  <2> QED BY <1>1, <2>1, <2>2
<1>8. c = e
  BY <1>3, <1>5, <1>6, <1>7, SameElements
<1> QED BY <1>8 DEF a, b, c, e

\* Those behind a range, moved to its beginning.
LEMMA CutOut ==
  ASSUME slots \in Seq(Slot), slots' \in Seq(Slot), m_iCount \in 0 .. Len(slots),
         NEW first \in 0 .. m_iCount, NEW last \in 0 .. m_iCount, first <= last,
         m_iCount' \in 0 .. Len(slots'), m_iCount' = m_iCount - (last - first),
         \A i \in 1 .. first : slots'[i] = slots[i],
         \A i \in (first + 1) .. m_iCount' : slots'[i] = slots[i + (last - first)]
  PROVE  Front(slots', m_iCount') = SubSeq(Front(slots, m_iCount), 1, first)
                                      \o SubSeq(Front(slots, m_iCount), last + 1, m_iCount)
<1> DEFINE n == m_iCount
           m == n - (last - first)
           a == Front(slots, n)
           b == SubSeq(a, 1, first)
           d == SubSeq(a, last + 1, n)
           e == b \o d
           c == Front(slots', m)
<1>1. n \in Nat /\ m \in Nat /\ first \in Nat /\ last \in Nat
  OBVIOUS
<1>2. a \in Seq(Slot) /\ Len(a) = n /\ \A i \in 1 .. n : a[i] = slots[i]
  BY FrontIsSeq
<1>3. c \in Seq(Slot) /\ Len(c) = m /\ \A i \in 1 .. m : c[i] = slots'[i]
  BY FrontIsSeq
<1> HIDE DEF a, c
<1>4. b \in Seq(Slot) /\ Len(b) = first /\ \A i \in 1 .. first : b[i] = a[i]
  BY <1>2
<1>5. d \in Seq(Slot) /\ Len(d) = n - last /\ \A i \in 1 .. (n - last) : d[i] = a[i + last]
  BY <1>2
<1> HIDE DEF b, d
<1>6. /\ e \in Seq(Slot) /\ Len(e) = Len(b) + Len(d)
      /\ \A i \in 1 .. (Len(b) + Len(d)) : e[i] = IF i <= Len(b) THEN b[i] ELSE d[i - Len(b)]
  <2>1. b \in Seq(Slot) /\ d \in Seq(Slot)
    BY <1>4, <1>5
  <2> QED BY <2>1, ConcatProperties, Zenon
<1> HIDE DEF e
<1>7. Len(e) = m
  BY <1>1, <1>4, <1>5, <1>6
<1>8. ASSUME NEW i \in 1 .. m PROVE c[i] = e[i]
  <2>1. CASE i \in 1 .. first
    <3>1. e[i] = b[i]
      BY <2>1, <1>1, <1>4, <1>5, <1>6
    <3>2. i \in 1 .. n
      BY <2>1, <1>1
    <3> QED BY <3>1, <3>2, <2>1, <1>2, <1>3, <1>4
  <2>2. CASE i \in (first + 1) .. m
    <3>1. e[i] = d[i - first]
      BY <2>2, <1>1, <1>4, <1>5, <1>6
    <3>2. i - first \in 1 .. (n - last) /\ (i - first) + last = i + (last - first)
      BY <2>2, <1>1
    <3>3. d[i - first] = a[i + (last - first)]
      BY <3>2, <1>5
    <3>4. i + (last - first) \in 1 .. n
      BY <2>2, <1>1
    <3> QED BY <2>2, <3>1, <3>3, <3>4, <1>2, <1>3
  <2> QED BY <1>1, <2>1, <2>2
<1>9. c = e
  BY <1>3, <1>6, <1>7, <1>8, SameElements
<1> QED BY <1>9 DEF a, b, c, d, e

\* The slots after push_back and resize, whatever the block holds.
Lengthened(n, v) == IF Scalars!Extra(n) > 0 THEN Scalars!Grown(n, v) ELSE Scalars!Filled(v)

\* The elements stay, and the block is long enough for those that come.
LEMMA LengthenedKeeps ==
  ASSUME ArrayTypes, NEW n \in Nat, NEW v \in Elements
  PROVE  /\ Lengthened(n, v) \in Seq(Slot)
         /\ Scalars!Extra(n) \in Nat
         /\ Len(Lengthened(n, v)) = Len(slots) + Scalars!Extra(n)
         /\ m_iCount + n <= Len(Lengthened(n, v))
         /\ \A i \in 1 .. m_iCount : Lengthened(n, v)[i] = slots[i]
         /\ n = 1 => Lengthened(n, v)[m_iCount + 1] = v
<1> DEFINE x == Scalars!Extra(n)
           r == Lengthened(n, v)
<1>1. m_iCount \in Nat /\ Len(slots) \in Nat /\ m_iCount <= Len(slots)
  BY DEF ArrayTypes
<1>2. x \in Nat /\ m_iCount + n <= Len(slots) + x /\ (x > 0 => m_iCount + n = Len(slots) + x)
  BY <1>1 DEF Scalars!Extra, Scalars!m_iMaxSize
<1> HIDE DEF x
<1>3. \A i \in 1 .. Len(slots) : slots[i] \in Slot
  BY DEF ArrayTypes
<1>4. v \in Slot /\ Raw \in Slot
  BY DEF Slot
<1>5. r \in Seq(Slot) /\ Len(r) = Len(slots) + x
  <2>1. CASE x > 0
    <3> DEFINE g == [i \in 1 .. (Len(slots) + x) |->
                       IF i <= Len(slots) THEN IF i > m_iCount THEN v ELSE slots[i]
                       ELSE IF i = m_iCount + 1 THEN v ELSE Raw]
    <3>1. r = g
      BY <2>1, <1>1 DEF Lengthened, Scalars!Grown, Scalars!Filled, Scalars!m_iMaxSize, x
    <3>2. g \in [1 .. (Len(slots) + x) -> Slot] /\ Len(slots) + x \in Nat
      BY <1>1, <1>2, <1>3, <1>4
    <3> HIDE DEF g
    <3> QED BY <3>1, <3>2, MakeSeq
  <2>2. CASE ~(x > 0)
    <3> DEFINE g == [i \in 1 .. Len(slots) |-> IF i > m_iCount THEN v ELSE slots[i]]
    <3>1. r = g
      BY <2>2 DEF Lengthened, Scalars!Filled, Scalars!m_iMaxSize, x
    <3>2. g \in [1 .. Len(slots) -> Slot] /\ Len(slots) \in Nat
      BY <1>1, <1>3, <1>4
    <3> HIDE DEF g
    <3> QED BY <3>1, <3>2, <2>2, <1>1, <1>2, MakeSeq
  <2> QED BY <2>1, <2>2
<1>6. ASSUME NEW i \in 1 .. (Len(slots) + x)
      PROVE  /\ i <= m_iCount => r[i] = slots[i]
             /\ i = m_iCount + 1 => r[i] = v
  <2>1. CASE x > 0
    BY <2>1, <1>1, <1>2 DEF Lengthened, Scalars!Grown, Scalars!Filled, Scalars!m_iMaxSize, x
  <2>2. CASE ~(x > 0)
    BY <2>2, <1>1, <1>2 DEF Lengthened, Scalars!Filled, Scalars!m_iMaxSize, x
  <2> QED BY <2>1, <2>2
<1> HIDE DEF r
<1>7. \A i \in 1 .. m_iCount : r[i] = slots[i]
  BY <1>1, <1>2, <1>6
<1>8. n = 1 => r[m_iCount + 1] = v
  BY <1>1, <1>2, <1>6
<1> QED
  BY <1>2, <1>5, <1>7, <1>8 DEF x, r

\* A block that got longer is not the one in the object.
LEMMA DynamicKept ==
  ASSUME ArrayTypes, NEW x \in Nat, Len(slots') = Len(slots) + x,
         dynamic' = (dynamic \/ x > 0)
  PROVE  /\ dynamic' \in BOOLEAN /\ (dynamic' <=> Len(slots') > N)
         /\ N <= Len(slots')
<1>1. N \in Nat /\ Len(slots) \in Nat /\ N <= Len(slots)
  BY ArrayConstants DEF ArrayTypes
<1>2. Len(slots) > N \/ x > 0 <=> Len(slots') > N
  BY <1>1
<1>3. dynamic' \in BOOLEAN /\ (dynamic' <=> Len(slots) > N \/ x > 0)
  BY Zenon DEF ArrayTypes
<1>4. N <= Len(slots')
  BY <1>1
<1> QED
  BY <1>2, <1>3, <1>4, Zenon

\* What push_back and resize do, of scalars and of objects.
Pushed(n, v) ==
  /\ slots' = Lengthened(n, v)
  /\ dynamic' = (dynamic \/ Scalars!Extra(n) > 0)
  /\ m_iCount' = m_iCount + n

LEMMA PushPushes ==
  ASSUME NEW n, NEW v, Scalars!Push(n, v) \/ Objects!Push(n, v)
  PROVE  Pushed(n, v)
BY DEF Pushed, Lengthened,
       Scalars!Push, Scalars!Extra, Scalars!Grown, Scalars!Filled, Scalars!m_iMaxSize,
       Objects!Push, Objects!Extra, Objects!Grown, Objects!Filled, Objects!m_iMaxSize

\* What erase and clear do: those from last on are moved to first.
Erased(first, last) ==
  /\ slots' \in Seq(Slot) /\ Len(slots') = Len(slots)
  /\ m_iCount' = m_iCount - (last - first) /\ dynamic' = dynamic
  /\ \A j \in 1 .. first : slots'[j] = slots[j]
  /\ \A j \in (first + 1) .. m_iCount' : slots'[j] = slots[j + (last - first)]

LEMMA EraseErases ==
  ASSUME ArrayTypes, NEW i \in 1 .. m_iCount, Scalars!Erase(i) \/ Objects!Erase(i)
  PROVE  Erased(i - 1, i)
<1>1. m_iCount \in Nat /\ Len(slots) \in Nat /\ m_iCount <= Len(slots)
  BY DEF ArrayTypes
<1>2. PICK isClass \in BOOLEAN :
        slots' = [j \in 1 .. Len(slots) |->
                    IF j >= i /\ j < m_iCount THEN slots[j + 1]
                    ELSE IF j = m_iCount /\ isClass THEN Raw ELSE slots[j]]
  BY DEF Scalars!Erase, Scalars!m_iMaxSize, Objects!Erase, Objects!m_iMaxSize
<1>3. m_iCount' = m_iCount - 1 /\ dynamic' = dynamic
  BY DEF Scalars!Erase, Objects!Erase
<1>4. \A j \in 1 .. Len(slots) : slots[j] \in Slot
  BY DEF ArrayTypes
<1>5. slots' \in [1 .. Len(slots) -> Slot]
  BY <1>1, <1>2, <1>4 DEF Slot
<1>6. slots' \in Seq(Slot) /\ Len(slots') = Len(slots)
  BY <1>1, <1>5, MakeSeq
<1>7. \A j \in 1 .. (i - 1) : slots'[j] = slots[j]
  BY <1>1, <1>2
<1>8. \A j \in i .. (m_iCount - 1) : slots'[j] = slots[j + 1]
  BY <1>1, <1>2
<1> QED
  BY <1>1, <1>3, <1>6, <1>7, <1>8 DEF Erased

LEMMA RangeErases ==
  ASSUME ArrayTypes, NEW first \in 0 .. m_iCount, NEW last \in 0 .. m_iCount,
         Scalars!EraseRange(first, last) \/ Objects!EraseRange(first, last)
  PROVE  Erased(first, last) /\ first <= last
<1> DEFINE off == last - first
           kept == m_iCount - last
<1>1. m_iCount \in Nat /\ Len(slots) \in Nat /\ m_iCount <= Len(slots)
  BY DEF ArrayTypes
<1>2. PICK isClass \in BOOLEAN :
        /\ first <= last
        /\ isClass => first < last
        /\ slots' = [j \in 1 .. Len(slots) |->
                       IF j > first /\ j <= first + kept /\ (off > 0 \/ ~isClass)
                       THEN slots[j + off]
                       ELSE IF j > last /\ j <= m_iCount /\ isClass THEN Raw
                       ELSE slots[j]]
  BY DEF Scalars!EraseRange, Scalars!m_iMaxSize, Objects!EraseRange, Objects!m_iMaxSize
<1>3. m_iCount' = m_iCount - off /\ dynamic' = dynamic
  BY DEF Scalars!EraseRange, Objects!EraseRange
<1>4. \A j \in 1 .. Len(slots) : slots[j] \in Slot
  BY DEF ArrayTypes
<1>5. slots' \in [1 .. Len(slots) -> Slot]
  <2>1. \A j \in 1 .. Len(slots) : j > first /\ j <= first + kept => j + off \in 1 .. Len(slots)
    BY <1>1, <1>2
  <2> QED BY <1>1, <1>2, <1>4, <2>1 DEF Slot
<1>6. slots' \in Seq(Slot) /\ Len(slots') = Len(slots)
  BY <1>1, <1>5, MakeSeq
<1>7. \A j \in 1 .. first : slots'[j] = slots[j]
  BY <1>1, <1>2
<1>8. \A j \in (first + 1) .. (m_iCount - off) : slots'[j] = slots[j + off]
  BY <1>1, <1>2
<1> QED
  BY <1>1, <1>2, <1>3, <1>6, <1>7, <1>8 DEF Erased

LEMMA ErasedKeeps ==
  ASSUME ArrayTypes, NEW first \in 0 .. m_iCount, NEW last \in 0 .. m_iCount, first <= last,
         Erased(first, last), lost' \in BOOLEAN, misused' \in BOOLEAN
  PROVE  /\ ArrayTypes'
         /\ Front(slots, m_iCount)' = SubSeq(Front(slots, m_iCount), 1, first)
                                        \o SubSeq(Front(slots, m_iCount), last + 1, m_iCount)
<1>1. /\ m_iCount \in Nat /\ m_iCount \in 0 .. Len(slots) /\ Len(slots) \in Nat
      /\ slots \in Seq(Slot)
  BY DEF ArrayTypes
<1>2. m_iCount' \in 0 .. Len(slots') /\ m_iCount' = m_iCount - (last - first)
  BY <1>1 DEF Erased
<1>3. ArrayTypes'
  BY <1>2 DEF Erased, ArrayTypes
<1>4. Front(slots', m_iCount') = SubSeq(Front(slots, m_iCount), 1, first)
                                   \o SubSeq(Front(slots, m_iCount), last + 1, m_iCount)
  <2>1. /\ slots' \in Seq(Slot)
        /\ \A j \in 1 .. first : slots'[j] = slots[j]
        /\ \A j \in (first + 1) .. m_iCount' : slots'[j] = slots[j + (last - first)]
    BY DEF Erased
  <2> QED BY <1>1, <1>2, <2>1, CutOut
<1> QED
  BY <1>3, <1>4 DEF Front

LEMMA PushedKeeps ==
  ASSUME ArrayTypes, NEW n \in Nat, NEW v \in Elements, Pushed(n, v),
         lost' \in BOOLEAN, misused' \in BOOLEAN
  PROVE  /\ ArrayTypes'
         /\ n = 1 => Front(slots, m_iCount)' = Front(slots, m_iCount) \o [i \in 1 .. n |-> v]
<1>1. /\ m_iCount \in Nat /\ m_iCount \in 0 .. Len(slots) /\ Len(slots) \in Nat
      /\ slots \in Seq(Slot) /\ v \in Slot
  BY DEF ArrayTypes, Slot
<1>2. /\ slots' \in Seq(Slot) /\ m_iCount + n <= Len(slots')
      /\ m_iCount' = m_iCount + n
      /\ \A i \in 1 .. m_iCount : slots'[i] = slots[i]
      /\ n = 1 => slots'[m_iCount + 1] = v
  BY LengthenedKeeps DEF Pushed
<1>3. dynamic' \in BOOLEAN /\ (dynamic' <=> Len(slots') > N) /\ N <= Len(slots')
  <2>1. Scalars!Extra(n) \in Nat /\ Len(slots') = Len(slots) + Scalars!Extra(n)
    BY LengthenedKeeps DEF Pushed
  <2> QED BY <2>1, DynamicKept DEF Pushed
<1>4. m_iCount' \in 0 .. Len(slots')
  BY <1>1, <1>2
<1>5. ArrayTypes'
  BY <1>2, <1>3, <1>4 DEF ArrayTypes
<1>6. ASSUME n = 1
      PROVE  Front(slots', m_iCount') = Front(slots, m_iCount) \o [i \in 1 .. n |-> v]
  <2>1. m_iCount + 1 <= Len(slots') /\ slots'[m_iCount + 1] = v /\ m_iCount' = m_iCount + 1
    BY <1>2, <1>6
  <2>2. Front(slots', m_iCount') = Front(slots, m_iCount) \o [i \in 1 .. 1 |-> v]
    BY <1>1, <1>2, <2>1, PushedBehind
  <2> QED BY <1>6, <2>1, <2>2
<1> QED
  BY <1>5, <1>6 DEF Front

\* The calls on arrays of scalars only.
LEMMA OverlaidIs ==
  ASSUME NEW s \in Seq(Slot), NEW d \in Seq(Elements), NEW pos \in Nat
  PROVE  /\ Scalars!Overlaid(s, d, pos) \in Seq(Slot)
         /\ Len(Scalars!Overlaid(s, d, pos)) = Len(s)
         /\ \A i \in 1 .. Len(s) :
              /\ i <= pos \/ i > pos + Len(d) => Scalars!Overlaid(s, d, pos)[i] = s[i]
              /\ i > pos /\ i <= pos + Len(d) => Scalars!Overlaid(s, d, pos)[i] = d[i - pos]
<1>1. Scalars!Overlaid(s, d, pos) \in [1 .. Len(s) -> Slot] /\ Len(s) \in Nat
  <2>1. \A i \in 1 .. Len(d) : d[i] \in Slot
    BY DEF Slot
  <2>2. \A i \in 1 .. Len(s) : s[i] \in Slot
    OBVIOUS
  <2> QED BY <2>1, <2>2 DEF Scalars!Overlaid
<1>2. Scalars!Overlaid(s, d, pos) \in Seq(Slot) /\ Len(Scalars!Overlaid(s, d, pos)) = Len(s)
  BY <1>1, MakeSeq
<1>3. \A i \in 1 .. Len(s) :
        /\ i <= pos \/ i > pos + Len(d) => Scalars!Overlaid(s, d, pos)[i] = s[i]
        /\ i > pos /\ i <= pos + Len(d) => Scalars!Overlaid(s, d, pos)[i] = d[i - pos]
  BY DEF Scalars!Overlaid
<1> QED
  BY <1>2, <1>3

\* resize inside a call: as long as is asked for, with what it held.
LEMMA RoomyIs ==
  ASSUME ArrayTypes, NEW size \in Nat
  PROVE  /\ Scalars!Roomy(size) \in Seq(Slot)
         /\ \E x \in Nat : Len(Scalars!Roomy(size)) = Len(slots) + x
         /\ size <= Len(Scalars!Roomy(size))
         /\ \A i \in 1 .. m_iCount : Scalars!Roomy(size)[i] = slots[i]
<1>1. m_iCount \in Nat /\ Len(slots) \in Nat /\ m_iCount <= Len(slots)
  BY DEF ArrayTypes
<1>2. CASE size > m_iCount
  <2>1. size - m_iCount \in Nat /\ Zero \in Elements
    BY <1>1, <1>2, ArrayConstants
  <2>2. Scalars!Roomy(size) = Lengthened(size - m_iCount, Zero)
    BY <1>2 DEF Scalars!Roomy, Lengthened
  <2>3. /\ Lengthened(size - m_iCount, Zero) \in Seq(Slot)
        /\ Scalars!Extra(size - m_iCount) \in Nat
        /\ Len(Lengthened(size - m_iCount, Zero)) = Len(slots) + Scalars!Extra(size - m_iCount)
        /\ m_iCount + (size - m_iCount) <= Len(Lengthened(size - m_iCount, Zero))
        /\ \A i \in 1 .. m_iCount : Lengthened(size - m_iCount, Zero)[i] = slots[i]
    BY <2>1, LengthenedKeeps
  <2>4. m_iCount + (size - m_iCount) = size
    BY <1>1
  <2> QED BY <2>2, <2>3, <2>4
<1>3. CASE ~(size > m_iCount)
  <2>1. Scalars!Roomy(size) = slots
    BY <1>3 DEF Scalars!Roomy
  <2>2. Len(slots) = Len(slots) + 0 /\ 0 \in Nat /\ size <= Len(slots)
    BY <1>1, <1>3
  <2> QED BY <2>1, <2>2 DEF ArrayTypes
<1> QED
  BY <1>2, <1>3

\* The histories stay truth values.
LEMMA HistoriesKept ==
  ASSUME ArrayTypes, Scalars!Next \/ Objects!Next
  PROVE  lost' \in BOOLEAN /\ misused' \in BOOLEAN
<1> USE DEF Scalars!Loses, Scalars!Misuses, Objects!Loses, Objects!Misuses
<1>1. lost \in BOOLEAN /\ misused \in BOOLEAN
  BY DEF ArrayTypes
<1>2. ASSUME NEW n, NEW v, Scalars!Push(n, v) \/ Objects!Push(n, v)
      PROVE  lost' \in BOOLEAN /\ misused' \in BOOLEAN
  BY <1>1, <1>2, Zenon DEF Scalars!Push, Objects!Push
<1>3. ASSUME NEW i, Scalars!Erase(i) \/ Objects!Erase(i)
      PROVE  lost' \in BOOLEAN /\ misused' \in BOOLEAN
  BY <1>1, <1>3, Zenon DEF Scalars!Erase, Objects!Erase
<1>4. ASSUME NEW first, NEW last,
             Scalars!EraseRange(first, last) \/ Objects!EraseRange(first, last)
      PROVE  lost' \in BOOLEAN /\ misused' \in BOOLEAN
  BY <1>1, <1>4, Zenon DEF Scalars!EraseRange, Objects!EraseRange
<1>5. ASSUME NEW d, \/ Scalars!Assign(d) \/ Scalars!CopyOver(d)
                    \/ \E pos : Scalars!AppendAt(d, pos)
      PROVE  lost' \in BOOLEAN /\ misused' \in BOOLEAN
  BY <1>1, <1>5 DEF Scalars!Assign, Scalars!CopyOver, Scalars!AppendAt
<1>6. ASSUME NEW size, Scalars!Resize(size) \/ Objects!Resize(size)
      PROVE  lost' \in BOOLEAN /\ misused' \in BOOLEAN
  BY <1>1, <1>2, <1>6, Zenon DEF Scalars!Resize, Objects!Resize
<1>7. ASSUME Scalars!Next PROVE lost' \in BOOLEAN /\ misused' \in BOOLEAN
  BY <1>2, <1>3, <1>4, <1>5, <1>6, <1>7 DEF Scalars!Next, Scalars!PushBack
<1>8. ASSUME Objects!Next PROVE lost' \in BOOLEAN /\ misused' \in BOOLEAN
  BY <1>2, <1>3, <1>4, <1>6, <1>8 DEF Objects!Next, Objects!PushBack
<1> QED
  BY <1>7, <1>8

LEMMA ScalarsResize ==
  ASSUME ArrayTypes, NEW size \in Resizes, Scalars!Resize(size),
         lost' \in BOOLEAN, misused' \in BOOLEAN
  PROVE  ArrayTypes' /\ size \in 0 .. SizeMax /\ Scalars!Array!Resize(size)
<1>1. /\ m_iCount \in Nat /\ m_iCount \in 0 .. Len(slots) /\ Len(slots) \in Nat
      /\ slots \in Seq(Slot)
  BY DEF ArrayTypes
<1>2. size \in Nat /\ size <= SizeMax /\ SizeMax \in Nat /\ call' = <<"resize", size>>
  BY ArrayConstants DEF Scalars!Resize
<1>3. CASE size <= m_iCount
  <2>1. m_iCount' = size /\ slots' = slots /\ dynamic' = dynamic
    BY <1>3 DEF Scalars!Resize
  <2>2. ArrayTypes'
    BY <1>1, <1>2, <1>3, <2>1 DEF ArrayTypes
  <2>3. Scalars!Array!Resize(size)
    <3>1. /\ Len(Front(slots, m_iCount)) = m_iCount
          /\ \A i \in 1 .. m_iCount : Front(slots, m_iCount)[i] = slots[i]
      BY <1>1, FrontIsSeq
    <3>2. /\ Len(Front(slots, size)) = size
          /\ \A i \in 1 .. size : Front(slots, size)[i] = slots[i]
      <4>1. size \in 0 .. Len(slots) BY <1>1, <1>2, <1>3
      <4> QED BY <4>1, <1>1, FrontIsSeq
    <3>3. Scalars!Array!Shorter(size, m_iCount) = size
      BY <1>1, <1>2, <1>3 DEF Scalars!Array!Shorter
    <3>4. Front(slots', m_iCount') = Front(slots, size)
      BY <2>1
    <3>5. \A i \in 1 .. size : Front(slots, m_iCount)[i] = Front(slots', m_iCount')[i]
      BY <1>1, <1>2, <1>3, <3>1, <3>2, <3>4
    <3> QED
      BY <1>2, <3>1, <3>2, <3>3, <3>4, <3>5
      DEF Scalars!Array!Resize, Scalars!Array!AgreeUpTo, Front
  <2> QED BY <1>2, <2>2, <2>3
<1>4. CASE ~(size <= m_iCount)
  <2> DEFINE n == size - m_iCount
  <2>1. n \in Nat /\ Zero \in Elements /\ m_iCount + n = size
    BY <1>1, <1>2, <1>4, ArrayConstants
  <2>2. Pushed(n, Zero)
    BY <1>4, PushPushes DEF Scalars!Resize
  <2> HIDE DEF n
  <2>3. ArrayTypes'
    BY <2>1, <2>2, PushedKeeps
  <2>4. m_iCount' = size /\ \A i \in 1 .. m_iCount : slots'[i] = slots[i]
    BY <2>1, <2>2, LengthenedKeeps DEF Pushed
  <2>5. Scalars!Array!Resize(size)
    <3>1. /\ Len(Front(slots, m_iCount)) = m_iCount
          /\ \A i \in 1 .. m_iCount : Front(slots, m_iCount)[i] = slots[i]
      BY <1>1, FrontIsSeq
    <3>2. /\ Len(Front(slots', m_iCount')) = size
          /\ \A i \in 1 .. size : Front(slots', m_iCount')[i] = slots'[i]
      <4>1. slots' \in Seq(Slot) /\ size \in 0 .. Len(slots')
        BY <2>3, <2>4 DEF ArrayTypes
      <4> QED BY <2>4, <4>1, FrontIsSeq
    <3>3. Scalars!Array!Shorter(size, m_iCount) = m_iCount
      BY <1>1, <1>2, <1>4 DEF Scalars!Array!Shorter
    <3>5. \A i \in 1 .. m_iCount : Front(slots, m_iCount)[i] = Front(slots', m_iCount')[i]
      BY <1>1, <1>2, <1>4, <2>4, <3>1, <3>2
    <3> QED
      BY <1>2, <3>1, <3>2, <3>3, <3>5
      DEF Scalars!Array!Resize, Scalars!Array!AgreeUpTo, Front
  <2> QED BY <1>2, <2>3, <2>5
<1> QED
  BY <1>3, <1>4

\* assign, append and copy: d is put over what the slots hold, perhaps longer ones.
LEMMA PutOver ==
  ASSUME ArrayTypes, NEW d \in Data, NEW pos \in 0 .. m_iCount, NEW size \in Nat,
         NEW full \in BOOLEAN,
         slots' = Scalars!Overlaid(IF full THEN Scalars!Roomy(size) ELSE slots, d, pos),
         IF full THEN Scalars!Grows(size) ELSE UNCHANGED dynamic
  PROVE  /\ slots' \in Seq(Slot) /\ Len(slots') \in Nat /\ Len(slots) <= Len(slots')
         /\ full => size <= Len(slots')
         /\ dynamic' \in BOOLEAN /\ (dynamic' <=> Len(slots') > N) /\ N <= Len(slots')
         /\ \A i \in 1 .. m_iCount : i <= pos \/ i > pos + Len(d) => slots'[i] = slots[i]
         /\ \A i \in 1 .. Len(d) : pos + i <= Len(slots') => slots'[pos + i] = d[i]
<1> DEFINE s == IF full THEN Scalars!Roomy(size) ELSE slots
<1>1. /\ m_iCount \in Nat /\ m_iCount <= Len(slots) /\ Len(slots) \in Nat
      /\ slots \in Seq(Slot) /\ d \in Seq(Elements) /\ pos \in Nat
  BY ArrayConstants DEF ArrayTypes
<1>2. PICK x \in Nat : Len(s) = Len(slots) + x /\ (~full => x = 0)
  <2>1. CASE full
    BY <2>1, RoomyIs
  <2>2. CASE ~full
    BY <2>2, <1>1
  <2> QED BY <2>1, <2>2
<1>3. /\ s \in Seq(Slot) /\ (full => size <= Len(s))
      /\ \A i \in 1 .. m_iCount : s[i] = slots[i]
  <2>1. CASE full
    BY <2>1, RoomyIs
  <2>2. CASE ~full
    BY <2>2, <1>1
  <2> QED BY <2>1, <2>2
<1>4. dynamic' = (dynamic \/ x > 0)
  <2>1. CASE full
    <3>1. Len(s) > Len(slots) <=> x > 0
      BY <1>1, <1>2
    <3>2. dynamic' = (dynamic \/ Len(s) > Len(slots))
      BY <2>1 DEF Scalars!Grows, Scalars!m_iMaxSize
    <3> QED BY <3>1, <3>2, Zenon
  <2>2. CASE ~full
    <3>1. ~(x > 0)
      BY <1>2, <2>2
    <3>2. dynamic' = dynamic /\ dynamic \in BOOLEAN
      BY <2>2 DEF ArrayTypes
    <3> QED BY <3>1, <3>2, Zenon
  <2> QED BY <2>1, <2>2
<1> HIDE DEF s
<1>5. /\ slots' \in Seq(Slot) /\ Len(slots') = Len(s)
      /\ \A i \in 1 .. Len(s) :
           /\ i <= pos \/ i > pos + Len(d) => slots'[i] = s[i]
           /\ i > pos /\ i <= pos + Len(d) => slots'[i] = d[i - pos]
  <2>1. slots' = Scalars!Overlaid(s, d, pos)
    BY DEF s
  <2> QED BY <2>1, <1>1, <1>3, OverlaidIs
<1>6. dynamic' \in BOOLEAN /\ (dynamic' <=> Len(slots') > N) /\ N <= Len(slots')
  BY <1>2, <1>4, <1>5, DynamicKept
<1>7. Len(slots') \in Nat /\ Len(slots) <= Len(slots')
  BY <1>1, <1>2, <1>5
<1>8. \A i \in 1 .. m_iCount : i <= pos \/ i > pos + Len(d) => slots'[i] = slots[i]
  BY <1>1, <1>3, <1>5, <1>7
<1>9. ASSUME NEW i \in 1 .. Len(d), pos + i <= Len(slots') PROVE slots'[pos + i] = d[i]
  <2>1. pos + i \in 1 .. Len(s) /\ pos + i > pos /\ pos + i <= pos + Len(d) /\ (pos + i) - pos = i
    BY <1>1, <1>5, <1>9
  <2> QED BY <2>1, <1>5
<1> QED
  BY <1>3, <1>5, <1>6, <1>7, <1>8, <1>9

LEMMA ScalarsAssign ==
  ASSUME ArrayTypes, NEW d \in Data, Scalars!Assign(d), lost' \in BOOLEAN, misused' \in BOOLEAN
  PROVE  ArrayTypes' /\ Scalars!Array!Assign(d)
<1> DEFINE full == Len(d) >= Len(slots)
<1>1. /\ m_iCount \in Nat /\ m_iCount <= Len(slots) /\ Len(slots) \in Nat
      /\ d \in Seq(Elements) /\ Len(d) \in Nat /\ 0 \in 0 .. m_iCount /\ full \in BOOLEAN
  BY ArrayConstants DEF ArrayTypes
<1>2. /\ call' = <<"assign", d>> /\ m_iCount' = Len(d)
      /\ slots' = Scalars!Overlaid(IF full THEN Scalars!Roomy(Len(d)) ELSE slots, d, 0)
      /\ IF full THEN Scalars!Grows(Len(d)) ELSE UNCHANGED dynamic
  BY DEF Scalars!Assign, Scalars!m_iMaxSize
<1>3. /\ slots' \in Seq(Slot) /\ Len(slots') \in Nat /\ Len(slots) <= Len(slots')
      /\ full => Len(d) <= Len(slots')
      /\ dynamic' \in BOOLEAN /\ (dynamic' <=> Len(slots') > N) /\ N <= Len(slots')
      /\ \A i \in 1 .. Len(d) : 0 + i <= Len(slots') => slots'[0 + i] = d[i]
  <2> HIDE DEF full
  <2> QED BY <1>1, <1>2, PutOver
<1>4. m_iCount' \in 0 .. Len(slots')
  BY <1>1, <1>2, <1>3
<1>5. ArrayTypes'
  BY <1>3, <1>4 DEF ArrayTypes
<1>6. Front(slots', m_iCount') = d
  <2>1. /\ Front(slots', m_iCount') \in Seq(Slot) /\ Len(Front(slots', m_iCount')) = Len(d)
        /\ \A i \in 1 .. Len(d) : Front(slots', m_iCount')[i] = slots'[i]
    BY <1>2, <1>3, <1>4, FrontIsSeq
  <2>2. \A i \in 1 .. Len(d) : slots'[i] = d[i]
    BY <1>1, <1>2, <1>3, <1>4
  <2>3. d \in Seq(Slot)
    BY <1>1 DEF Slot
  <2> QED BY <2>1, <2>2, <2>3, SameElements
<1> QED
  BY <1>2, <1>5, <1>6 DEF Scalars!Array!Assign, Front

LEMMA ScalarsAppend ==
  ASSUME ArrayTypes, NEW d \in Data, NEW pos \in 0 .. m_iCount, Scalars!AppendAt(d, pos),
         lost' \in BOOLEAN, misused' \in BOOLEAN
  PROVE  ArrayTypes' /\ Scalars!Array!AppendAt(d, pos)
<1> DEFINE size == Len(d) + m_iCount
<1>1. /\ m_iCount \in Nat /\ m_iCount \in 0 .. Len(slots) /\ Len(slots) \in Nat
      /\ slots \in Seq(Slot) /\ d \in Seq(Elements) /\ Len(d) \in Nat /\ size \in Nat
      /\ pos \in Nat /\ pos <= m_iCount
  BY ArrayConstants DEF ArrayTypes
<1>2. /\ call' = <<"append", d, pos>> /\ m_iCount' = size
      /\ slots' = Scalars!Overlaid(slots, d, pos) /\ dynamic' = dynamic /\ size < Len(slots)
  BY <1>1 DEF Scalars!AppendAt, Scalars!m_iMaxSize
<1>3. /\ slots' \in Seq(Slot) /\ Len(slots') \in Nat /\ Len(slots) <= Len(slots')
      /\ dynamic' \in BOOLEAN /\ (dynamic' <=> Len(slots') > N) /\ N <= Len(slots')
      /\ \A i \in 1 .. m_iCount : i <= pos \/ i > pos + Len(d) => slots'[i] = slots[i]
      /\ \A i \in 1 .. Len(d) : pos + i <= Len(slots') => slots'[pos + i] = d[i]
  <2>1. /\ FALSE \in BOOLEAN
        /\ slots' = Scalars!Overlaid(IF FALSE THEN Scalars!Roomy(size) ELSE slots, d, pos)
        /\ IF FALSE THEN Scalars!Grows(size) ELSE UNCHANGED dynamic
    BY <1>2
  <2> HIDE DEF size
  <2> QED BY <1>1, <2>1, PutOver
<1>4. m_iCount' \in 0 .. Len(slots')
  BY <1>1, <1>2, <1>3
<1>5. ArrayTypes'
  BY <1>3, <1>4 DEF ArrayTypes
<1> DEFINE a == Front(slots, m_iCount)
           b == Front(slots', m_iCount')
<1>6. Len(a) = m_iCount /\ \A i \in 1 .. m_iCount : a[i] = slots[i]
  BY <1>1, FrontIsSeq
<1>7. Len(b) = size /\ \A i \in 1 .. size : b[i] = slots'[i]
  BY <1>2, <1>3, <1>4, FrontIsSeq
<1>8. \A i \in 1 .. pos : a[i] = b[i]
  <2> HIDE DEF a, b
  <2> QED BY <1>1, <1>3, <1>6, <1>7
<1>9. \A i \in 1 .. Len(d) : b[pos + i] = d[i]
  <2> HIDE DEF a, b
  <2> QED BY <1>1, <1>2, <1>3, <1>4, <1>7
<1>10. Len(b) = Len(a) + Len(d)
  <2> HIDE DEF a, b
  <2> QED BY <1>1, <1>6, <1>7
<1> QED
  BY <1>2, <1>5, <1>8, <1>9, <1>10 DEF Scalars!Array!AppendAt, Scalars!Array!AgreeUpTo, Front

LEMMA ScalarsCopy ==
  ASSUME ArrayTypes, NEW d \in Data, Scalars!CopyOver(d), lost' \in BOOLEAN, misused' \in BOOLEAN
  PROVE  ArrayTypes' /\ Scalars!Array!Copy(d)
<1> DEFINE full == Len(d) >= Len(slots)
           size == IF m_iCount > Len(d) THEN m_iCount ELSE Len(d)
<1>1. /\ m_iCount \in Nat /\ m_iCount \in 0 .. Len(slots) /\ Len(slots) \in Nat
      /\ slots \in Seq(Slot) /\ d \in Seq(Elements) /\ Len(d) \in Nat
      /\ 0 \in 0 .. m_iCount /\ full \in BOOLEAN
  BY ArrayConstants DEF ArrayTypes
<1>2. /\ call' = <<"copy", d>>
      /\ slots' = Scalars!Overlaid(IF full THEN Scalars!Roomy(Len(d)) ELSE slots, d, 0)
      /\ IF full THEN Scalars!Grows(Len(d)) ELSE UNCHANGED dynamic
  BY DEF Scalars!CopyOver, Scalars!m_iMaxSize
<1>3. m_iCount' = size
  BY <1>1 DEF Scalars!CopyOver, Scalars!m_iMaxSize
<1>4. /\ slots' \in Seq(Slot) /\ Len(slots') \in Nat /\ Len(slots) <= Len(slots')
      /\ full => Len(d) <= Len(slots')
      /\ dynamic' \in BOOLEAN /\ (dynamic' <=> Len(slots') > N) /\ N <= Len(slots')
      /\ \A i \in 1 .. m_iCount : i <= 0 \/ i > 0 + Len(d) => slots'[i] = slots[i]
      /\ \A i \in 1 .. Len(d) : 0 + i <= Len(slots') => slots'[0 + i] = d[i]
  <2> HIDE DEF full
  <2> QED BY <1>1, <1>2, PutOver
<1>5. m_iCount' \in 0 .. Len(slots')
  BY <1>1, <1>3, <1>4
<1>6. ArrayTypes'
  BY <1>4, <1>5 DEF ArrayTypes
<1> DEFINE a == Front(slots, m_iCount)
           b == Front(slots', m_iCount')
<1>7. Len(a) = m_iCount /\ \A i \in 1 .. m_iCount : a[i] = slots[i]
  BY <1>1, FrontIsSeq
<1>8. Len(b) = size /\ \A i \in 1 .. size : b[i] = slots'[i]
  BY <1>3, <1>4, <1>5, FrontIsSeq
<1> HIDE DEF a, b
<1>9. \A i \in 1 .. Len(d) : d[i] = b[i]
  <2> TAKE i \in 1 .. Len(d)
  <2>1. i \in 1 .. size /\ 0 + i = i /\ i <= Len(slots')
    BY <1>1, <1>3, <1>5
  <2> QED BY <2>1, <1>4, <1>8
<1>10. \A i \in (Len(d) + 1) .. m_iCount : b[i] = a[i]
  <2> TAKE i \in (Len(d) + 1) .. m_iCount
  <2>1. i \in 1 .. size /\ i \in 1 .. m_iCount /\ i > 0 + Len(d)
    BY <1>1
  <2> QED BY <2>1, <1>4, <1>7, <1>8
<1>11. Len(b) = Len(a) + Len(d) - Scalars!Array!Shorter(Len(d), Len(a))
  BY <1>1, <1>7, <1>8 DEF Scalars!Array!Shorter
<1> QED
  BY <1>2, <1>6, <1>7, <1>9, <1>10, <1>11
  DEF Scalars!Array!Copy, Scalars!Array!AgreeUpTo, Front, a, b

\* What erase does to the content, of scalars and of objects.
LEMMA EraseStep ==
  ASSUME ArrayTypes, lost' \in BOOLEAN, misused' \in BOOLEAN,
         NEW first \in 0 .. m_iCount, NEW last \in 0 .. m_iCount, first <= last,
         Erased(first, last), call' = <<"erase", first, last>>
  PROVE  ArrayTypes' /\ Scalars!Array!Next
<1>1. m_iCount \in 0 .. Len(slots) /\ slots \in Seq(Slot)
  BY DEF ArrayTypes
<1>2. Len(Front(slots, m_iCount)) = m_iCount
  BY <1>1, FrontIsSeq
<1>3. /\ ArrayTypes'
      /\ Front(slots, m_iCount)' = SubSeq(Front(slots, m_iCount), 1, first)
                                     \o SubSeq(Front(slots, m_iCount), last + 1, m_iCount)
  BY ErasedKeeps
<1>4. Scalars!Array!Erase(first, last)
  BY <1>2, <1>3 DEF Scalars!Array!Erase, Front
<1>5. first \in 0 .. Len(Front(slots, m_iCount)) /\ last \in 0 .. Len(Front(slots, m_iCount))
  BY <1>2
<1> QED
  BY <1>3, <1>4, <1>5, Zenon DEF Scalars!Array!Next, Front

\* What push_back does to it.
LEMMA PushStep ==
  ASSUME ArrayTypes, lost' \in BOOLEAN, misused' \in BOOLEAN,
         NEW v \in Elements, Pushed(1, v), m_iCount + 1 <= SizeMax,
         call' = <<"push_back", 1, v>>
  PROVE  ArrayTypes' /\ Scalars!Array!Next
<1>1. /\ ArrayTypes'
      /\ Front(slots, m_iCount)' = Front(slots, m_iCount) \o [i \in 1 .. 1 |-> v]
  BY PushedKeeps
<1>2. Scalars!Array!PushBack(1, v)
  BY <1>1 DEF Scalars!Array!PushBack, Front
<1>3. 1 \in 0 .. SizeMax
  BY ArrayConstants DEF ArrayTypes
<1> QED
  BY <1>1, <1>2, <1>3, Zenon DEF Scalars!Array!Next

LEMMA ScalarsStep ==
  ASSUME ArrayTypes, Scalars!Next
  PROVE  ArrayTypes' /\ Scalars!Array!Next
<1>1. lost' \in BOOLEAN /\ misused' \in BOOLEAN
  BY HistoriesKept
<1>2. m_iCount \in Nat /\ m_iCount \in 0 .. Len(slots) /\ slots \in Seq(Slot)
  BY DEF ArrayTypes
<1>3. Len(Front(slots, m_iCount)) = m_iCount
  BY <1>2, FrontIsSeq
<1>4. ASSUME NEW v \in Elements, Scalars!PushBack(1, v) PROVE ArrayTypes' /\ Scalars!Array!Next
  <2>1. Pushed(1, v) /\ m_iCount + 1 <= SizeMax /\ call' = <<"push_back", 1, v>>
    BY <1>4, PushPushes DEF Scalars!PushBack
  <2> QED BY <1>1, <2>1, PushStep
<1>5. ASSUME NEW i \in 1 .. m_iCount, Scalars!Erase(i) PROVE ArrayTypes' /\ Scalars!Array!Next
  <2>1. Erased(i - 1, i) /\ call' = <<"erase", i - 1, i>>
    BY <1>5, EraseErases DEF Scalars!Erase
  <2>2. i - 1 \in 0 .. m_iCount /\ i \in 0 .. m_iCount /\ i - 1 <= i
    BY <1>2
  <2> QED BY <1>1, <2>1, <2>2, EraseStep
<1>6. ASSUME NEW first \in 0 .. m_iCount, NEW last \in 0 .. m_iCount,
             Scalars!EraseRange(first, last)
      PROVE  ArrayTypes' /\ Scalars!Array!Next
  <2>1. Erased(first, last) /\ first <= last /\ call' = <<"erase", first, last>>
    BY <1>6, RangeErases DEF Scalars!EraseRange
  <2> QED BY <1>1, <2>1, EraseStep
<1>7. ASSUME NEW size \in Resizes, Scalars!Resize(size) PROVE ArrayTypes' /\ Scalars!Array!Next
  <2>1. ArrayTypes' /\ size \in 0 .. SizeMax /\ Scalars!Array!Resize(size)
    BY <1>1, <1>7, ScalarsResize
  <2> QED BY <2>1, Zenon DEF Scalars!Array!Next
<1>8. ASSUME NEW d \in Data, Scalars!Assign(d) PROVE ArrayTypes' /\ Scalars!Array!Next
  BY <1>1, <1>8, ScalarsAssign DEF Scalars!Array!Next
<1>9. ASSUME NEW d \in Data, Scalars!CopyOver(d) PROVE ArrayTypes' /\ Scalars!Array!Next
  BY <1>1, <1>9, ScalarsCopy DEF Scalars!Array!Next
<1>10. ASSUME NEW d \in Data, NEW pos \in 0 .. m_iCount, Scalars!AppendAt(d, pos)
       PROVE  ArrayTypes' /\ Scalars!Array!Next
  <2>1. ArrayTypes' /\ Scalars!Array!AppendAt(d, pos)
    BY <1>1, <1>10, ScalarsAppend
  <2>2. pos \in 0 .. Len(Front(slots, m_iCount))
    BY <1>3
  <2> QED BY <2>1, <2>2, Zenon DEF Scalars!Array!Next, Front
<1> QED
  BY <1>4, <1>5, <1>6, <1>7, <1>8, <1>9, <1>10, Zenon DEF Scalars!Next

\* A slot that is counted holds an object, and none is used that does not.
LEMMA ObjectsStep ==
  ASSUME ArrayTypes, Objects!ElementsLive, Objects!Next
  PROVE  ArrayTypes' /\ Objects!ElementsLive' /\ Scalars!Array!Next
<1>1. lost' \in BOOLEAN /\ misused' \in BOOLEAN
  BY HistoriesKept
<1>2. /\ m_iCount \in Nat /\ Len(slots) \in Nat /\ m_iCount <= Len(slots)
      /\ m_iCount \in 0 .. Len(slots)
  BY DEF ArrayTypes
<1>3. ~misused /\ \A i \in 1 .. m_iCount : slots[i] # Raw
  BY DEF Objects!ElementsLive
<1>4. ASSUME NEW v \in Elements, Objects!PushBack(1, v)
      PROVE  ArrayTypes' /\ Objects!ElementsLive' /\ Scalars!Array!Next
  <2>1. Pushed(1, v) /\ m_iCount + 1 <= SizeMax /\ call' = <<"push_back", 1, v>>
    BY <1>4, PushPushes DEF Objects!PushBack
  <2>2. v # Raw
    BY ArrayConstants
  <2>3. \A i \in 1 .. Len(slots) : Objects!Filled(v)[i] # Raw
    BY <1>2, <1>3, <2>2 DEF Objects!Filled, Objects!m_iMaxSize
  <2>4. ~misused'
    BY <1>3, <1>4, <2>3 DEF Objects!PushBack, Objects!Push, Objects!Misuses, Objects!m_iMaxSize
  <2>5. /\ \A i \in 1 .. m_iCount : slots'[i] = slots[i]
        /\ slots'[m_iCount + 1] = v /\ m_iCount' = m_iCount + 1
    BY <2>1, LengthenedKeeps DEF Pushed
  <2>6. \A i \in 1 .. m_iCount' : slots'[i] # Raw
    BY <1>2, <1>3, <2>2, <2>5
  <2> QED BY <1>1, <2>1, <2>4, <2>6, PushStep DEF Objects!ElementsLive
<1>5. ASSUME NEW first \in 0 .. m_iCount, NEW last \in 0 .. m_iCount, first <= last,
             Erased(first, last)
      PROVE  \A j \in 1 .. m_iCount' : slots'[j] # Raw
  <2>1. m_iCount' = m_iCount - (last - first)
    BY <1>5 DEF Erased
  <2> TAKE j \in 1 .. m_iCount'
  <2>2. CASE j <= first
    BY <1>2, <1>3, <1>5, <2>1, <2>2 DEF Erased
  <2>3. CASE j > first
    <3>1. slots'[j] = slots[j + (last - first)]
      BY <1>5, <1>2, <2>1, <2>3 DEF Erased
    <3>2. j + (last - first) \in 1 .. m_iCount
      BY <1>2, <2>1, <2>3
    <3> QED BY <1>3, <3>1, <3>2
  <2> QED BY <1>2, <2>1, <2>2, <2>3
<1>6. ASSUME NEW i \in 1 .. m_iCount, Objects!Erase(i)
      PROVE  ArrayTypes' /\ Objects!ElementsLive' /\ Scalars!Array!Next
  <2>1. Erased(i - 1, i) /\ call' = <<"erase", i - 1, i>>
    BY <1>6, EraseErases DEF Objects!Erase
  <2>2. i - 1 \in 0 .. m_iCount /\ i \in 0 .. m_iCount /\ i - 1 <= i
    BY <1>2
  <2>3. ~misused'
    <3>1. ~(\E j \in i .. m_iCount : slots[j] = Raw)
      BY <1>2, <1>3
    <3> QED BY <1>3, <1>6, <3>1, Zenon DEF Objects!Erase, Objects!Misuses
  <2>4. \A j \in 1 .. m_iCount' : slots'[j] # Raw
    BY <1>5, <2>1, <2>2
  <2> QED BY <1>1, <2>1, <2>2, <2>3, <2>4, EraseStep DEF Objects!ElementsLive
<1>7. ASSUME NEW first \in 0 .. m_iCount, NEW last \in 0 .. m_iCount,
             Objects!EraseRange(first, last)
      PROVE  ArrayTypes' /\ Objects!ElementsLive' /\ Scalars!Array!Next
  <2>1. Erased(first, last) /\ first <= last /\ call' = <<"erase", first, last>>
    BY <1>7, RangeErases DEF Objects!EraseRange
  <2>2. ~misused'
    <3>1. ~(\E j \in (last + 1) .. m_iCount : slots[j] = Raw)
      BY <1>2, <1>3
    <3> QED BY <1>3, <1>7, <3>1, Zenon DEF Objects!EraseRange, Objects!Misuses
  <2>3. \A j \in 1 .. m_iCount' : slots'[j] # Raw
    BY <1>5, <2>1
  <2> QED BY <1>1, <2>1, <2>2, <2>3, EraseStep DEF Objects!ElementsLive
<1> QED
  BY <1>4, <1>6, <1>7 DEF Objects!Next

\* Arrays of scalars and of objects, inside the object or in a block, are the sequence of
\* what was put into them, and no slot that is counted is without its object (dy_array.h,
\* array_base.h:49): if one element is pushed at a time, append is called with room for what
\* it appends, and objects are not erased by an empty range.
THEOREM ArraysAreSequences == MCSpec => ArraysOK
<1>1. MCInit => ArrayInv /\ Scalars!Array!Init
  <2> SUFFICES ASSUME MCInit PROVE ArrayInv /\ Scalars!Array!Init
    OBVIOUS
  <2>1. Scalars!Init \/ Objects!Init
    BY DEF MCInit
  <2>2. PICK z \in Slot : slots = [i \in 1 .. N |-> z]
    BY <2>1, ArrayConstants DEF Scalars!Init, Objects!Init, Slot
  <2>3. slots \in [1 .. N -> Slot] /\ N \in Nat
    BY <2>2, ArrayConstants
  <2>4. slots \in Seq(Slot) /\ Len(slots) = N
    BY <2>3, MakeSeq
  <2>5. m_iCount = 0 /\ dynamic = FALSE /\ call = <<"none">> /\ lost = FALSE /\ misused = FALSE
    BY <2>1 DEF Scalars!Init, Objects!Init
  <2>6. ArrayTypes
    <3>1. dynamic \in BOOLEAN /\ lost \in BOOLEAN /\ misused \in BOOLEAN /\ ~dynamic
      BY <2>5, Zenon
    <3>2. m_iCount \in 0 .. Len(slots) /\ N <= Len(slots) /\ ~(Len(slots) > N)
      BY <2>3, <2>4, <2>5
    <3> QED BY <2>4, <3>1, <3>2, Zenon DEF ArrayTypes
  <2>7. Objects!ElementsLive
    BY <2>5 DEF Objects!ElementsLive
  <2>8. [i \in 1 .. 0 |-> slots[i]] = <<>>
    OBVIOUS
  <2> QED BY <2>5, <2>6, <2>7, <2>8 DEF ArrayInv, Scalars!Array!Init
<1>2. ArrayInv /\ [MCNext]_allVars =>
        ArrayInv' /\ [Scalars!Array!Next]_<<[i \in 1 .. m_iCount |-> slots[i]], call>>
  <2> SUFFICES ASSUME ArrayInv, [MCNext]_allVars
               PROVE  /\ ArrayInv'
                      /\ [Scalars!Array!Next]_<<[i \in 1 .. m_iCount |-> slots[i]], call>>
    OBVIOUS
  <2>1. CASE UNCHANGED <<setup, arrayVars>>
    BY <2>1 DEF ArrayInv, ArrayTypes, arrayVars, Objects!ElementsLive
  <2>2. CASE setup = "scalars" /\ Scalars!Next /\ setup' = setup
    BY <2>2, ScalarsStep DEF ArrayInv
  <2>3. CASE setup = "objects" /\ Objects!Next /\ setup' = setup
    BY <2>3, ObjectsStep DEF ArrayInv
  <2> QED
    BY <2>1, <2>2, <2>3 DEF MCNext, allVars, arrayVars
<1>3. ArrayInv => /\ setup = "objects" => Objects!TypeOK /\ Objects!ElementsLive
                  /\ setup # "objects" => Scalars!TypeOK
  BY DEF ArrayInv, ArrayTypes, Objects!TypeOK, Objects!m_iMaxSize, Scalars!TypeOK,
         Scalars!m_iMaxSize, Slot
<1> QED
  BY <1>1, <1>2, <1>3, PTL DEF MCSpec, ArraysOK, Scalars!IsSequence, Scalars!Array!Spec
===============================================================================
