------------------------------ MODULE EasyBuffer ------------------------------
(***************************************************************************)
(* EasyBuffer, and easynet's EasyBuf in C, which is the same: a buffer     *)
(* that is filled at its tail and emptied from its tail.  A byte is known  *)
(* by the message it belongs to.                                           *)
(***************************************************************************)
EXTENDS Naturals, Sequences

CONSTANT MaxSize    \* m_iMaxSize

\* The m_iSize bytes between m_pData and m_pTail.
Size(data) == Len(data)

\* Push refuses what would fill the last byte.
HasRoom(data, item) == Size(data) + Len(item) < MaxSize

Push(data, item) == data \o item

\* Pop: the last length bytes, or all there are, and what stays.
Popped(data, length) ==
  LET n == IF Size(data) < length THEN Size(data) ELSE length
  IN SubSeq(data, Size(data) - n + 1, Size(data))

Kept(data, length) == SubSeq(data, 1, Size(data) - Len(Popped(data, length)))
=============================================================================
