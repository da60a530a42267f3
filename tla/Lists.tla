------------------------------- MODULE Lists --------------------------------
(***************************************************************************)
(* The linked lists of basic/list.h, as sequences: the sessions of a seat  *)
(* and those of a user are kept in them, newest first.                     *)
(***************************************************************************)
EXTENDS Naturals, Sequences

CONSTANT Nil    \* the NULL pointer

\* The items of a list.
Linked(l) == {l[i] : i \in DOMAIN l}

LIST_PREPEND(l, s) == <<s>> \o l

\* Mutant: the item stays linked.
LIST_REMOVE_missed(l, s) == l

LIST_REMOVE(l, s) ==
    LET k == CHOOSE k \in DOMAIN l : l[k] = s
    IN  SubSeq(l, 1, k - 1) \o SubSeq(l, k + 1, Len(l))

\* The first member of S that a walk over the list l meets, or NULL.
FirstIn(l, S) ==
    LET first == {s \in S : \E i \in DOMAIN l :
                    l[i] = s /\ \A j \in 1 .. i - 1 : l[j] \notin S}
    IN  IF first = {} THEN Nil ELSE CHOOSE s \in first : TRUE
=============================================================================
