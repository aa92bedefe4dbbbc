---------------------------- MODULE PriorityQueue ----------------------------
(***************************************************************************)
(* Any sequence of calls of a BinaryHeap, next to the set of elements that *)
(* it should hold.                                                         *)
(***************************************************************************)
EXTENDS BinaryHeap, FiniteSets

CONSTANT Element   \* records with a priority
ElementAssumption == \A e \in Element : e.priority \in Int \ {NaN}

VARIABLES content, members, popped
vars == <<content, members, popped>>

Init == content = <<>> /\ members = {} /\ popped = <<>>

Push(e) ==
  /\ e \notin members
  /\ content' = push(content, e) /\ members' = members \cup {e}
  /\ UNCHANGED popped

Pop ==
  /\ content # <<>>
  /\ content' = pop(content) /\ members' = members \ {content[1]}
  /\ popped' = <<content[1]>>

RemoveNode(e) ==
  /\ e \in members
  /\ content' = remove(content, e) /\ members' = members \ {e}
  /\ UNCHANGED popped

Next == Pop \/ \E e \in Element : Push(e) \/ RemoveNode(e)
Spec == Init /\ [][Next]_vars
-----------------------------------------------------------------------------
(* Nothing is lost or doubled by the moves inside the array. *)
SameMembers == Len(content) = Cardinality(members) /\ ToSet(content) = members

(* The array stays a heap, also when the last element or one with equal    *)
(* neighbours is removed, or a parent has a single child.                  *)
HeapOrdered == Ordered(content)

(* pop() returns an element that none of the others goes before. *)
PopsLeast == [][popped' # popped => \A e \in members : ~Less(e, popped'[1])]_vars
=============================================================================
