------------------------------- MODULE ArraySpec -------------------------------
(***************************************************************************)
(* What an array of the interface ArrayBase promises: its elements are a   *)
(* sequence.  What resize adds, and what append leaves behind the appended *)
(* elements, is not specified.                                             *)
(***************************************************************************)
EXTENDS Naturals, Sequences

CONSTANTS
  Elements,   \* the values of elements
  Nats,       \* numbers a call may have as its argument
  Data        \* the sequences a caller assigns, appends or copies

VARIABLES
  content,    \* the elements
  call        \* the call just made, with its arguments

\* s and t agree up to the n-th element.
AgreeUpTo(n, s, t) == \A i \in 1 .. n : s[i] = t[i]

Shorter(m, n) == IF m < n THEN m ELSE n

Init == content = <<>> /\ call = <<"none">>

PushBack(n, v) ==
  /\ call' = <<"push_back", n, v>>
  /\ content' = content \o [i \in 1 .. n |-> v]

\* Elements first + 1 to last, counted from 1.
Erase(first, last) ==
  /\ call' = <<"erase", first, last>>
  /\ content' = SubSeq(content, 1, first) \o SubSeq(content, last + 1, Len(content))

Assign(d) == call' = <<"assign", d>> /\ content' = d

AppendAt(d, pos) ==
  /\ call' = <<"append", d, pos>>
  /\ Len(content') = Len(content) + Len(d)
  /\ AgreeUpTo(pos, content, content')
  /\ \A i \in 1 .. Len(d) : content'[pos + i] = d[i]

Copy(d) ==
  /\ call' = <<"copy", d>>
  /\ Len(content') = Len(content) + Len(d) - Shorter(Len(d), Len(content))
  /\ AgreeUpTo(Len(d), d, content')
  /\ \A i \in (Len(d) + 1) .. Len(content) : content'[i] = content[i]

Resize(n) ==
  /\ call' = <<"resize", n>>
  /\ Len(content') = n
  /\ AgreeUpTo(Shorter(n, Len(content)), content, content')

Next ==
  \/ \E n \in Nats, v \in Elements : PushBack(n, v)
  \/ \E first, last \in 0 .. Len(content) : first <= last /\ Erase(first, last)
  \/ \E d \in Data : Assign(d) \/ Copy(d) \/ \E pos \in 0 .. Len(content) : AppendAt(d, pos)
  \/ \E n \in Nats : Resize(n)

Spec == Init /\ [][Next]_<<content, call>>
=============================================================================
