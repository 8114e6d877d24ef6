------------------------------- MODULE CList -------------------------------
(***************************************************************************)
(* The concurrent linked list of libs/clist/clist.go: elements are pushed  *)
(* at the back and removed anywhere while goroutines traverse the list.    *)
(* An element is the number of its push; 0 is the nil pointer.  A removed  *)
(* element keeps its next pointer, so that a goroutine standing on it can  *)
(* go on.                                                                  *)
(***************************************************************************)
EXTENDS Integers, Sequences

\* New, Init.
EmptyList == [head |-> 0, tail |-> 0, next |-> <<>>, prev |-> <<>>, gone |-> {}]

Pushed(l) == 1..Len(l.next)
Live(l) == Pushed(l) \ l.gone

\* PushBack: the new element is linked from the tail before it becomes the tail.
PushBack(l) ==
  LET e == Len(l.next) + 1 IN
  [head |-> IF l.tail = 0 THEN e ELSE l.head,
   tail |-> e,
   next |-> Append([i \in Pushed(l) |-> IF i = l.tail THEN e ELSE l.next[i]], 0),
   prev |-> Append(l.prev, l.tail),
   gone |-> l.gone]

\* The panics at the top of Remove.
FalseRemove(l, e) ==
  \/ l.head = 0
  \/ l.prev[e] = 0 /\ l.head # e
  \/ l.next[e] = 0 /\ l.tail # e

\* The successor keeps its pointer to the removed element.
Remove_KeepsPrev(l, e) ==
  [head |-> IF l.prev[e] = 0 THEN l.next[e] ELSE l.head,
   tail |-> IF l.next[e] = 0 THEN l.prev[e] ELSE l.tail,
   next |-> [i \in Pushed(l) |-> IF i = l.prev[e] THEN l.next[e] ELSE l.next[i]],
   prev |-> [i \in Pushed(l) |-> IF i = e THEN 0 ELSE l.prev[i]],
   gone |-> l.gone \cup {e}]

\* Remove and DetachPrev: the neighbours are linked, the element keeps only its next.
Remove(l, e) ==
  [head |-> IF l.prev[e] = 0 THEN l.next[e] ELSE l.head,
   tail |-> IF l.next[e] = 0 THEN l.prev[e] ELSE l.tail,
   next |-> [i \in Pushed(l) |-> IF i = l.prev[e] THEN l.next[e] ELSE l.next[i]],
   prev |-> [i \in Pushed(l) |-> IF i = e THEN 0
                                 ELSE IF i = l.next[e] THEN l.prev[e] ELSE l.prev[i]],
   gone |-> l.gone \cup {e}]

\* The elements met from the head on: n of them, or up to the end.
Walk(l) ==
  LET walk[n \in 0..Len(l.next)] ==
        IF n = 0 THEN <<>>
        ELSE LET w == walk[n - 1]
                 e == IF w = <<>> THEN l.head ELSE l.next[w[Len(w)]]
             IN IF Len(w) < n - 1 \/ e = 0 THEN w ELSE Append(w, e)
  IN walk[Len(l.next)]
=============================================================================
