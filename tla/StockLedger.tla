---------------------------- MODULE StockLedger ----------------------------
(***************************************************************************)
(* What Master promises about serialized stock across the franchises: an   *)
(* item is with one franchise, on its way from one to another, or retired  *)
(* in favour of a new label at the same franchise.  It never changes hands *)
(* except by leaving one franchise for another and arriving there.         *)
(***************************************************************************)
CONSTANTS Item, Node

VARIABLE place   \* per item: its state, the node that has it and, while it
                 \* moves, the node it goes to

vars == <<place>>

New          == [state |-> "new"]
At(n)        == [state |-> "at", node |-> n]
Moving(n, d) == [state |-> "moving", node |-> n, to |-> d]
Retired      == [state |-> "retired"]

Init == place = [i \in Item |-> New]

\* Labels are issued to a franchise.
Issue(n, S) ==
    /\ \A i \in S : place[i] = New
    /\ place' = [i \in Item |-> IF i \in S THEN At(n) ELSE place[i]]

\* Goods leave n for d.
Send(n, d, S) ==
    /\ n # d
    /\ \A i \in S : place[i] = At(n)
    /\ place' = [i \in Item |-> IF i \in S THEN Moving(n, d) ELSE place[i]]

\* Goods on the way from n arrive at d.
Arrive(n, d, S) ==
    /\ \A i \in S : place[i] = Moving(n, d)
    /\ place' = [i \in Item |-> IF i \in S THEN At(d) ELSE place[i]]

\* A label at n is replaced by a new one at n.
Relabel(n, old, new) ==
    /\ place[old] = At(n)
    /\ place[new] = New
    /\ place' = [place EXCEPT ![old] = Retired, ![new] = At(n)]

Next == \E n \in Node :
    \/ \E S \in SUBSET Item : Issue(n, S)
    \/ \E d \in Node, S \in SUBSET Item : Send(n, d, S) \/ Arrive(n, d, S)
    \/ \E old, new \in Item : Relabel(n, old, new)

Spec == Init /\ [][Next]_vars
=============================================================================
