-------------------------------- MODULE DyArray --------------------------------
(***************************************************************************)
(* DyArray: elements in m_Elements, inside the object, until there are     *)
(* more than N, then in a block of their own that grows by what is needed. *)
(* Scalars are copied byte by byte; objects (of a class) are constructed   *)
(* and destructed in their slots.                                          *)
(*                                                                         *)
(* A slot holds a value or Raw: memory not initialised, or whose object    *)
(* was destructed.                                                         *)
(***************************************************************************)
EXTENDS Naturals, Sequences

CONSTANTS
  IsClass,      \* TypeTraits<T>::isClass, and not isScalar
  N,            \* the slots in the object
  Elements,     \* values of elements
  Zero, Raw,    \* T(), and a slot without a value
  PushNs,       \* the n of push_back(n, value)
  Data,         \* what assign, append and copy are given (scalars)
  Resizes,      \* the sizes resize is given
  EmptyErase,   \* erase(first, last) is called with first = last, too
  AppendGrows,  \* append is called when there is no room, too
  SizeMax       \* bound: elements

DyArrayAssumption ==
  /\ IsClass \in BOOLEAN /\ EmptyErase \in BOOLEAN /\ AppendGrows \in BOOLEAN
  /\ N \in Nat \ {0} /\ SizeMax \in Nat
  /\ Zero \in Elements /\ Raw \notin Elements
  /\ PushNs \subseteq Nat /\ Resizes \subseteq Nat /\ Data \subseteq Seq(Elements)
  /\ IsClass => Data = {}

VARIABLES
  slots,      \* m_pHead, up to m_iMaxSize
  m_iCount,
  dynamic,    \* m_pDynamicElements is not 0
  call,       \* history: the call just made
  lost,       \* history: an object was never destructed
  misused     \* history: an object was used or destructed that was not there

vars == <<slots, m_iCount, dynamic, call, lost, misused>>

m_iMaxSize == Len(slots)

Init ==
  /\ slots = [i \in 1 .. N |-> IF IsClass THEN Raw ELSE Zero]
  /\ m_iCount = 0 /\ dynamic = FALSE
  /\ call = <<"none">> /\ lost = FALSE /\ misused = FALSE

\* A constructor runs in some slot that holds an object, an object is left behind ...
Loses(cond) == lost' = (lost \/ (IsClass /\ cond))

\* ... or an object that is not there is copied or destructed.
Misuses(cond) == misused' = (misused \/ (IsClass /\ cond))

\* The slots push_back(n, value) lacks.
Extra(n) == IF m_iCount + n > m_iMaxSize THEN m_iCount + n - m_iMaxSize ELSE 0

\* _insert_n: every slot that is not used.
Filled(v) == [i \in 1 .. m_iMaxSize |-> IF i > m_iCount THEN v ELSE slots[i]]

\* _grow_n: of the new slots, at most one gets a value, that after the old m_iCount.
Grown(n, v) ==
  [i \in 1 .. (m_iMaxSize + Extra(n)) |->
     IF i <= m_iMaxSize THEN Filled(v)[i] ELSE IF i = m_iCount + 1 THEN v ELSE Raw]

\* What push_back(n, value) does to the slots; resize does the same.
Push(n, v) ==
  /\ slots' = IF Extra(n) > 0 THEN Grown(n, v) ELSE Filled(v)
  /\ dynamic' = (dynamic \/ Extra(n) > 0)
  /\ m_iCount' = m_iCount + n
  /\ Loses(\/ \E i \in (m_iCount + 1) .. m_iMaxSize : slots[i] # Raw
           \/ Extra(n) > 0 /\ (m_iCount < m_iMaxSize \/ ~dynamic))
  /\ Misuses(Extra(n) > 0 /\ \E i \in 1 .. m_iMaxSize : Filled(v)[i] = Raw)

PushBack(n, v) ==
  /\ m_iCount + n <= SizeMax
  /\ call' = <<"push_back", n, v>>
  /\ Push(n, v)

\* erase(where) of the i-th element: those behind it are moved one by one, objects by
\* constructing them over their predecessor; the last is destructed.
Erase(i) ==
  /\ i <= m_iCount
  /\ call' = <<"erase", i - 1, i>>
  /\ slots' = [j \in 1 .. m_iMaxSize |->
                 IF j >= i /\ j < m_iCount THEN slots[j + 1]
                 ELSE IF j = m_iCount /\ IsClass THEN Raw ELSE slots[j]]
  /\ m_iCount' = m_iCount - 1
  /\ Loses(i < m_iCount) /\ Misuses(\E j \in i .. m_iCount : slots[j] = Raw)
  /\ UNCHANGED dynamic

\* erase(first, last), and clear: objects are constructed off slots before and destructed
\* where they were, step by step.
EraseRange(first, last) ==
  LET off == last - first
      kept == m_iCount - last
  IN /\ first <= last /\ last <= m_iCount
     /\ EmptyErase \/ first < last
     /\ call' = <<"erase", first, last>>
     /\ slots' = [j \in 1 .. m_iMaxSize |->
                    IF j > first /\ j <= first + kept /\ (off > 0 \/ ~IsClass) THEN slots[j + off]
                    ELSE IF j > last /\ j <= m_iCount /\ IsClass THEN Raw
                    ELSE slots[j]]
     /\ m_iCount' = m_iCount - off
     /\ Loses(off > 0 \/ kept > 0)
     /\ Misuses(\E j \in (last + 1) .. m_iCount : slots[j] = Raw)
     /\ UNCHANGED dynamic

\* resize: what is cut off is not destructed.
Resize(size) ==
  /\ size <= SizeMax
  /\ call' = <<"resize", size>>
  /\ IF size <= m_iCount
     THEN m_iCount' = size /\ UNCHANGED <<slots, dynamic, lost, misused>>
     ELSE Push(size - m_iCount, Zero)

\* resize(len) inside assign, append and copy, as the slots and the block it leaves.
Roomy(size) ==
  IF size > m_iCount
  THEN IF Extra(size - m_iCount) > 0 THEN Grown(size - m_iCount, Zero) ELSE Filled(Zero)
  ELSE slots

Grows(size) == dynamic' = (dynamic \/ Len(Roomy(size)) > m_iMaxSize)

\* memcpy of d behind the pos-th slot.
Overlaid(s, d, pos) ==
  [i \in 1 .. Len(s) |-> IF i > pos /\ i <= pos + Len(d) THEN d[i - pos] ELSE s[i]]

\* The first m_iMaxSize bytes are set to 0 first, which no element shows afterwards.
Assign(d) ==
  /\ call' = <<"assign", d>>
  /\ slots' = Overlaid(IF Len(d) >= m_iMaxSize THEN Roomy(Len(d)) ELSE slots, d, 0)
  /\ m_iCount' = Len(d)
  /\ IF Len(d) >= m_iMaxSize THEN Grows(Len(d)) ELSE UNCHANGED dynamic
  /\ UNCHANGED <<lost, misused>>

\* Mutant: the elements are put behind the last one.
AppendAtEnd(d, pos) ==
  LET size == Len(d) + m_iCount
  IN /\ size < m_iMaxSize
     /\ call' = <<"append", d, pos>>
     /\ slots' = Overlaid(slots, d, m_iCount)
     /\ m_iCount' = size
     /\ UNCHANGED <<dynamic, lost, misused>>

\* append at pos; when it has to make room, resize has already counted the new elements.
AppendAt(d, pos) ==
  LET size == Len(d) + m_iCount
      full == size >= m_iMaxSize
  IN /\ pos <= m_iCount /\ size <= SizeMax
     /\ full => AppendGrows
     /\ call' = <<"append", d, pos>>
     /\ slots' = Overlaid(IF full THEN Roomy(size) ELSE slots, d, pos)
     /\ m_iCount' = IF full THEN size + Len(d) ELSE size
     /\ IF full THEN Grows(size) ELSE UNCHANGED dynamic
     /\ UNCHANGED <<lost, misused>>

\* copy, over the first elements; resize has counted the new ones.
CopyOver(d) ==
  LET full == Len(d) >= m_iMaxSize
      count == IF full THEN Len(d) ELSE m_iCount
  IN /\ call' = <<"copy", d>>
     /\ slots' = Overlaid(IF full THEN Roomy(Len(d)) ELSE slots, d, 0)
     /\ m_iCount' = IF count > Len(d) THEN count ELSE Len(d)
     /\ IF full THEN Grows(Len(d)) ELSE UNCHANGED dynamic
     /\ UNCHANGED <<lost, misused>>

Next ==
  \/ \E n \in PushNs, v \in Elements : PushBack(n, v)
  \/ \E i \in 1 .. m_iCount : Erase(i)
  \/ \E first, last \in 0 .. m_iCount : EraseRange(first, last)
  \/ \E size \in Resizes : Resize(size)
  \/ \E d \in Data : Assign(d) \/ CopyOver(d) \/ \E pos \in 0 .. m_iCount : AppendAt(d, pos)

Spec == Init /\ [][Next]_vars

-----------------------------------------------------------------------------
\* Types; there is a slot for every element, on the block or in the object.
TypeOK ==
  /\ slots \in Seq(Elements \union {Raw})
  /\ m_iCount \in 0 .. m_iMaxSize
  /\ dynamic \in BOOLEAN /\ lost \in BOOLEAN /\ misused \in BOOLEAN
  /\ dynamic <=> m_iMaxSize > N

\* An array is the sequence of what was put into it, whatever calls were made and wherever
\* its slots are.
Array == INSTANCE ArraySpec
           WITH content <- [i \in 1 .. m_iCount |-> slots[i]], Nats <- 0 .. SizeMax

IsSequence == Array!Spec

\* Every element is an object, and no object is copied or destructed that is not there:
\* "i < size()" is in range (array_base.h:49).
ElementsLive == ~misused /\ \A i \in 1 .. m_iCount : slots[i] # Raw

\* There is a slot for every i < size().
InStorage == m_iCount <= m_iMaxSize

\* "one construct means one destruct" (dy_array.h:324).
OneDestruct == ~lost
=============================================================================
