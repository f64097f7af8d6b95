---------------------------- MODULE HashTimelock ----------------------------
(***************************************************************************)
(* What every hash-time-locked contract of the bridge promises, whatever   *)
(* it holds and whoever calls it: a lock is opened once with a deadline in *)
(* the future, and then either its preimage is shown no later than the     *)
(* deadline or it is returned after the deadline, and nothing else ever    *)
(* happens to it.  The Soroban HTLC and the legacy Ethereum contract are   *)
(* shown to implement it.                                                  *)
(***************************************************************************)
EXTENDS Naturals

CONSTANT Locks

VARIABLES
    lock,      \* [Locks -> state and deadline]
    clock

htVars == <<lock, clock>>

Unopened == [state |-> "none", deadline |-> 0]

OpenLock(l) ==
    LET deadline == lock'[l].deadline IN
    /\ lock[l] = Unopened
    /\ deadline > clock
    /\ lock' = [lock EXCEPT ![l] = [state |-> "open", deadline |-> deadline]]
    /\ UNCHANGED clock

ShowPreimage(l) ==
    /\ lock[l].state = "open" /\ clock <= lock[l].deadline
    /\ lock' = [lock EXCEPT ![l].state = "claimed"]
    /\ UNCHANGED clock

GiveBack(l) ==
    /\ lock[l].state = "open" /\ clock > lock[l].deadline
    /\ lock' = [lock EXCEPT ![l].state = "refunded"]
    /\ UNCHANGED clock

ClockMoves == clock' > clock /\ UNCHANGED lock

HTInit == lock = [l \in Locks |-> Unopened] /\ clock = 0

HTNext ==
    \/ ClockMoves
    \/ \E l \in Locks : OpenLock(l) \/ ShowPreimage(l) \/ GiveBack(l)

HTSpec == HTInit /\ [][HTNext]_htVars
=============================================================================
