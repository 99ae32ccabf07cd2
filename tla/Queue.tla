------------------------------- MODULE Queue -------------------------------
(***************************************************************************)
(* shared/queue.h: the generic circular list every component of the kernel *)
(* queues its elements in.  A list is the sequence of its elements from    *)
(* head->next to head->prev: the keys grow along it, the element that      *)
(* leaves first is the last one, and of two elements with equal keys the   *)
(* one added first is nearer the end.  `cle` maps an element to its key    *)
(* (the priofield of the macros).                                          *)
(***************************************************************************)
EXTENDS Naturals, SequencesExt

\* With <= where queue_add has <, e would overtake its equals.
PlaceLIFO(q, e, cle) ==
    Min({i \in 1 .. Len(q) : cle[q[i]] > cle[e]} \cup {Len(q) + 1})

\* The index queue_add inserts e at: in front of the first element whose key
\* is not smaller than e's, at the end when there is none.
Place(q, e, cle) ==
    Min({i \in 1 .. Len(q) : cle[q[i]] >= cle[e]} \cup {Len(q) + 1})

QueueAdd(q, e, cle) == InsertAt(q, Place(q, e, cle), e)

\* queue_out on a list that is not empty: the element it takes, and the list
\* it leaves.
QueueTop(q) == Last(q)
QueueOut(q) == Front(q)

QueueDel(q, e) == RemoveAt(q, CHOOSE i \in 1 .. Len(q) : q[i] = e)

\* A loop that calls queue_add for w[1], w[2], ... in turn.
QueueAddTous(q, w, cle) ==
    LET passe[i \in 0 .. Len(w)] ==
            IF i = 0 THEN q ELSE QueueAdd(passe[i - 1], w[i], cle)
    IN  passe[Len(w)]

\* The order queue_add keeps up as long as no key changes behind its back.
Triee(q, cle) ==
    \A i, j \in 1 .. Len(q) : i < j => cle[q[i]] <= cle[q[j]]
=============================================================================
