------------------------------ MODULE KeyOrder ------------------------------
(***************************************************************************)
(* What holding keys promises (key-holding.md, "Keys behind a held key"):  *)
(* the transitions the user makes reach the application in the order made, *)
(* one held back ahead of every later one, except the ones in free, which  *)
(* may overtake: lock keys, and transitions made where nothing is held.    *)
(***************************************************************************)
EXTENDS Naturals, Sequences

CONSTANT Ids           \* the transitions, numbered in the order made

VARIABLES waiting,     \* held back, in order
          got,         \* what the application was given, in order
          free         \* the transitions that may overtake

ovars == <<waiting, got, free>>

Init == waiting = <<>> /\ got = <<>> /\ free = {}

Reached == {got[i] : i \in DOMAIN got}
IsNew(id) == /\ \A i \in DOMAIN waiting : waiting[i] < id
             /\ \A seen \in Reached : seen < id \/ seen \in free

HoldBack(ids) == /\ waiting' = waiting \o ids
                 /\ \A i \in DOMAIN ids : IsNew(ids[i])
                 /\ UNCHANGED <<got, free>>
Give(id) == /\ waiting = <<>> /\ IsNew(id) /\ got' = Append(got, id)
            /\ UNCHANGED <<waiting, free>>
Overtake(id) == /\ IsNew(id) /\ got' = Append(got, id) /\ free' = free \cup {id}
                /\ UNCHANGED waiting
Arrive(n) == /\ got' = got \o SubSeq(waiting, 1, n)
             /\ waiting' = SubSeq(waiting, n + 1, Len(waiting))
             /\ UNCHANGED free
Lose(from, to) == /\ waiting' = SubSeq(waiting, 1, from - 1) \o SubSeq(waiting, to + 1, Len(waiting))
                  /\ UNCHANGED <<got, free>>

Next == \/ \E id \in Ids : Give(id) \/ Overtake(id) \/ HoldBack(<<id>>) \/ HoldBack(<<id, id>>)
        \/ \E n \in 1..Len(waiting) : Arrive(n) \/ \E from \in 1..n : Lose(from, n)

Spec == Init /\ [][Next]_ovars
=============================================================================
