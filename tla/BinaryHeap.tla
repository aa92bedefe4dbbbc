----------------------------- MODULE BinaryHeap -----------------------------
(***************************************************************************)
(* stats/lib/binary_heap.js as operators on its array `content', a         *)
(* sequence of elements with a priority, which is their score.  Indexes    *)
(* are one higher than in the code.  A loop that has ended goes on without  *)
(* a change here: as many turns as there are elements are always enough.   *)
(***************************************************************************)
EXTENDS Integers, Sequences, SequencesExt

(* Priorities are integers in the order of the numbers they stand for, but *)
(* comparisons with JavaScript's NaN are false.                            *)
NaN == 1000000
Less(a, b) == NaN \notin {a.priority, b.priority} /\ a.priority < b.priority

Swap(s, i, j) == [s EXCEPT ![i] = s[j], ![j] = s[i]]

(* A turn of the loop of bubbleUp(), which is at `at': what is there and     *)
(* its parent are in order, or they change places.                         *)
Raised(h) ==
  LET parent == h.at \div 2
  IN IF h.at > 1 /\ Less(h.content[h.at], h.content[parent])
     THEN [content |-> Swap(h.content, h.at, parent), at |-> parent] ELSE h

bubbleUp(s, i) ==
  LET loop[n \in 0 .. Len(s)] == IF n = 0 THEN [content |-> s, at |-> i] ELSE Raised(loop[n - 1])
  IN loop[Len(s)].content

(* A turn of the loop of sinkDown(). *)
Sunk(h) ==
  LET s == h.content
      child1 == 2 * h.at
      child2 == 2 * h.at + 1
      least1 == IF child1 <= Len(s) /\ Less(s[child1], s[h.at]) THEN child1 ELSE h.at
      swap == IF child2 <= Len(s) /\ Less(s[child2], s[least1]) THEN child2 ELSE least1
  IN IF swap = h.at THEN h ELSE [content |-> Swap(s, h.at, swap), at |-> swap]

sinkDown(s, i) ==
  LET loop[n \in 0 .. Len(s)] == IF n = 0 THEN [content |-> s, at |-> i] ELSE Sunk(loop[n - 1])
  IN loop[Len(s)].content

push(s, e) == bubbleUp(Append(s, e), Len(s) + 1)

(* The rest of the heap after pop(), which returns the first element. *)
pop(s) ==
  IF Len(s) = 1 THEN <<>> ELSE sinkDown([Front(s) EXCEPT ![1] = Last(s)], 1)

(* remove() of an element that is in the heap; it throws for another. *)
remove(s, e) ==
  LET i == CHOOSE n \in DOMAIN s : s[n] = e
      hole == [Front(s) EXCEPT ![i] = Last(s)]
  IN IF i = Len(s) THEN Front(s)
     ELSE IF Less(Last(s), e) THEN bubbleUp(hole, i) ELSE sinkDown(hole, i)

(* No child goes before its parent. *)
Ordered(s) == \A i \in DOMAIN s : i > 1 => ~Less(s[i], s[i \div 2])
=============================================================================
