---------------------------- MODULE CentralQueue ----------------------------
(***************************************************************************)
(* What the central Tally queue promises, without threads, leases, ORM     *)
(* sessions or failures: vouchers are imported one at a time, a voucher    *)
(* whose import is in doubt holds the queue, it is queued again only if    *)
(* Tally does not have it, and it is done only if Tally has it once.       *)
(***************************************************************************)
EXTENDS Naturals

CONSTANT Batch

VARIABLES
    phase,     \* "absent", "waiting", "doubt" or "done", per batch
    vouchers   \* how many vouchers of the batch Tally has

vars == <<phase, vouchers>>

Init ==
    /\ phase = [b \in Batch |-> "absent"]
    /\ vouchers = [b \in Batch |-> 0]

\* A franchise's event creates the batch.
Submit(b) ==
    /\ phase[b] = "absent"
    /\ phase' = [phase EXCEPT ![b] = "waiting"]
    /\ UNCHANGED vouchers

\* An import starts only when no other is in doubt.
Begin(b) ==
    /\ phase[b] = "waiting"
    /\ \A a \in Batch : phase[a] # "doubt"
    /\ phase' = [phase EXCEPT ![b] = "doubt"]
    /\ UNCHANGED vouchers

\* Tally imports the voucher, unnoticed by Master.
Import(b) ==
    /\ phase[b] = "doubt"
    /\ vouchers[b] = 0
    /\ vouchers' = [vouchers EXCEPT ![b] = 1]
    /\ UNCHANGED phase

\* Master learns that the voucher is in Tally, from Tally's answer (which
\* imports it in the same step) or from the operator.
Done(b) ==
    /\ phase[b] = "doubt"
    /\ phase' = [phase EXCEPT ![b] = "done"]
    /\ vouchers' = [vouchers EXCEPT ![b] = 1]

\* Master learns that the voucher is not in Tally.
GiveBack(b) ==
    /\ phase[b] = "doubt"
    /\ vouchers[b] = 0
    /\ phase' = [phase EXCEPT ![b] = "waiting"]
    /\ UNCHANGED vouchers

Next == \E b \in Batch : Submit(b) \/ Begin(b) \/ Import(b) \/ Done(b) \/ GiveBack(b)

Spec == Init /\ [][Next]_vars
=============================================================================
