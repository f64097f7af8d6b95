-------------------------- MODULE ResolverPlanner --------------------------
(***************************************************************************)
(* The resolver at run time: every order the Ethereum listener observes is *)
(* handed to the fill planner, and a plan made for one of the              *)
(* coordinator's orders is checked against that order again when it is     *)
(* submitted, after the clock and the order may have moved.                *)
(*                                                                         *)
(* A leg is its timelock and its terms: chain, asset and amount, which the *)
(* validator compares one by one and for equality only.                    *)
(***************************************************************************)
EXTENDS Integers

CONSTANTS
    SourceAmounts,  \* amounts of observed source orders
    Timelocks,      \* absolute timelocks of source orders and legs
    MinTimelock,    \* 300 seconds
    MaxTimelock,    \* 86400 seconds
    Buffer,         \* DEFAULT_TIMELOCK_BUFFER
    FeeDivisor,     \* 10000 / DEFAULT_FEE_BASIS_POINTS
    MaxNow,         \* bound on the clock
    MaxSent         \* bound on the plans submitted

VARIABLES
    now,        \* wall clock in seconds
    keys,       \* the private keys are configured (dry-run needs none)
    dryRun,     \* RESOLVER_DRY_RUN
    fill,       \* the last FillPlan, or NoPlan when the planner rejected
    order,      \* the coordinator's order: hashlock, src and dst
    plan,       \* a ResolverPlan waiting to be submitted, or NoPlan
    sent        \* number of plans handed to the submit callback

plannerVars == <<now, keys, dryRun, fill, order, plan, sent>>

NoPlan == [action |-> "none"]
Hashes == {"h1", "h2"}
Leg == [terms : {"t1", "t2"}, timelock : Timelocks]
Order == [hashlock : Hashes, src : Leg, dst : Leg]

-----------------------------------------------------------------------------
(* The fill planner: a pure function of the observed source order.         *)
computeTimelockSeconds(sourceTimelock) ==
    LET clamped == sourceTimelock - now - Buffer
    IN  IF clamped < MinTimelock THEN MinTimelock
        ELSE IF clamped > MaxTimelock THEN MaxTimelock ELSE clamped

computeDestinationAmount(amount) == amount - amount \div FeeDivisor

validateResolverConfig == dryRun \/ keys

validateDestinationParams(amount, timelockSeconds) ==
    amount > 0 /\ timelockSeconds \in MinTimelock..MaxTimelock

(* buildPlan: a fill or a list of errors; an order is created with its     *)
(* timelock ahead.                                                         *)
buildPlan(sourceAmount, sourceTimelock) ==
    LET amount == computeDestinationAmount(sourceAmount)
        timelockSeconds == computeTimelockSeconds(sourceTimelock)
    IN  /\ sourceTimelock > now
        /\ fill' = IF /\ validateResolverConfig
                      /\ validateDestinationParams(amount, timelockSeconds)
                   THEN [action |-> "fill", left |-> sourceTimelock - now,
                         spread |-> sourceAmount - amount, timelockSeconds |-> timelockSeconds]
                   ELSE NoPlan
        /\ UNCHANGED <<now, keys, dryRun, order, plan, sent>>

(* The run command plans and logs every order the listener sees.           *)
onOrderCreated ==
    \E amount \in SourceAmounts, timelock \in Timelocks : buildPlan(amount, timelock)

-----------------------------------------------------------------------------
(* Plans for the coordinator's orders.  A plan is a snapshot of the order, *)
(* good until the earlier of its timelocks.                                *)
MinOf(a, b) == IF a < b THEN a ELSE b

buildOrderPlan ==
    /\ plan = NoPlan
    /\ plan' = [action |-> "fill", hashlock |-> order.hashlock,
                src |-> order.src, dst |-> order.dst,
                expiresAt |-> MinOf(order.src.timelock, order.dst.timelock)]
    /\ UNCHANGED <<now, keys, dryRun, fill, order, sent>>

compareLegs_TermsOnly(planLeg, orderLeg) == planLeg.terms = orderLeg.terms
compareLegs(planLeg, orderLeg) ==
    /\ planLeg.terms = orderLeg.terms
    /\ planLeg.timelock = orderLeg.timelock

validatePlan(p, o) ==
    /\ p.hashlock = o.hashlock
    /\ compareLegs(p.src, o.src)
    /\ compareLegs(p.dst, o.dst)
    /\ now <= p.expiresAt

(* submitValidatedPlan: the callback runs for a valid plan only; otherwise *)
(* PlanValidationError is thrown and the plan is dropped.                  *)
submitValidatedPlan ==
    /\ plan # NoPlan
    /\ sent < MaxSent
    /\ sent' = IF validatePlan(plan, order) THEN sent + 1 ELSE sent
    /\ plan' = NoPlan
    /\ UNCHANGED <<now, keys, dryRun, fill, order>>

(* External: the coordinator's order changes after the plan was built.     *)
OrderDrifts ==
    /\ plan # NoPlan
    /\ \/ \E hashlock \in Hashes : order' = [order EXCEPT !.hashlock = hashlock]
       \/ \E leg \in Leg : order' = [order EXCEPT !.src = leg]
       \/ \E leg \in Leg : order' = [order EXCEPT !.dst = leg]
    /\ UNCHANGED <<now, keys, dryRun, fill, plan, sent>>

Second ==
    /\ now < MaxNow
    /\ now' = now + 1
    /\ UNCHANGED <<keys, dryRun, fill, order, plan, sent>>

PlannerInit ==
    /\ now = 0
    /\ keys \in BOOLEAN
    /\ dryRun \in BOOLEAN
    /\ fill = NoPlan
    /\ order = CHOOSE o \in Order : TRUE
    /\ plan = NoPlan
    /\ sent = 0

PlannerNext ==
    \/ onOrderCreated
    \/ buildOrderPlan
    \/ submitValidatedPlan
    \/ OrderDrifts
    \/ Second

PlannerSpec == PlannerInit /\ [][PlannerNext]_plannerVars

-----------------------------------------------------------------------------
(* Clock, order and submissions stay in range.                             *)
PlannerTypeOK ==
    /\ now \in 0..MaxNow
    /\ order \in Order
    /\ sent \in 0..MaxSent
    /\ fill # NoPlan => fill.timelockSeconds \in MinTimelock..MaxTimelock

(* "A stale timelock could let the resolver lock funds that expire before  *)
(* the counterparty can claim them" (validate.ts): the submit callback     *)
(* never runs once either leg of the order as it now stands has expired,   *)
(* nor for another hashlock, whatever happened after the plan was built.   *)
SubmitsInTime ==
    [][sent' > sent => /\ plan.hashlock = order.hashlock
                       /\ now <= order.src.timelock
                       /\ now <= order.dst.timelock]_plannerVars

(* "The resolver must have a shorter timelock on its fill" (planner):      *)
(* a planned fill expires before its source order, provided the source     *)
(* order leaves room for the contract's minimum timelock.                  *)
FillExpiresFirst ==
    fill # NoPlan /\ fill.left > MinTimelock => fill.timelockSeconds < fill.left

=============================================================================
