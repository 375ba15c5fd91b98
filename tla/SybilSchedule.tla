----------------------------- MODULE SybilSchedule -----------------------------
(***************************************************************************)
(* The simulation of experiment E6, src/poi_mpp/experiments/e6_sybil.py:   *)
(* an attacker of fixed capacity and collateral competes with honest       *)
(* operators for the credit of tasks, as one identity or as several.       *)
(* Scenarios of a group differ in the number of identities and are         *)
(* simulated from the same seed: two lanes, in lockstep as long as their   *)
(* generators have answered the same calls.                                *)
(***************************************************************************)
EXTENDS Integers, Sequences, FiniteSets, SequencesExt

CONSTANTS
    Identities,      \* attacker_identity_count of the lane that splits
    Units,           \* attacker_total_capacity_units
    Operators,       \* honest_operator_count; one capacity unit each
    TaskCount, Budget, Simulations,
    AttackerCollateral, HonestCollateral, Beta, ConcentrationCap

SybilScenario ==
    /\ Identities \in 1..64 /\ {Units, Operators, TaskCount, Budget, Simulations, Beta} \subseteq Nat \ {0}
    /\ {AttackerCollateral, HonestCollateral, ConcentrationCap} \subseteq Nat

ASSUME SybilAssumption == SybilScenario

CapacityModels ==
    {"CAPACITY_COMMITTED", "OPERATOR_SLOT", "IDENTITY_UNIFORM", "TASK_BUDGET_ONLY_ABLATION",
     "COLLATERAL_CAP_ABLATION", "CONCENTRATION_CAP_ABLATION"}
Lanes == {"single", "split"}
Count(lane) == IF lane = "single" THEN 1 ELSE Identities

VARIABLES
    capacityModel,
    lockstep,       \* both generators have answered the same calls so far
    byIdentity,     \* per lane, attacker_credit_by_identity of this simulation
    byOperator,     \* per lane, honest_credit_by_operator
    allocated,      \* per lane, allocated_task_count
    task,           \* tasks of this simulation so far
    trials          \* per lane, what each simulation ended with

sybilVars == <<capacityModel, lockstep, byIdentity, byOperator, allocated, task, trials>>

Fresh ==
    [byIdentity |-> [l \in Lanes |-> [i \in 1..Count(l) |-> 0]],
     byOperator |-> [l \in Lanes |-> [o \in 1..Operators |-> 0]],
     allocated |-> [l \in Lanes |-> 0]]

SybilInit ==
    /\ capacityModel \in CapacityModels
    /\ lockstep = TRUE
    /\ byIdentity = Fresh.byIdentity /\ byOperator = Fresh.byOperator /\ allocated = Fresh.allocated
    /\ task = 0
    /\ trials = [l \in Lanes |-> <<>>]

Total(seq) == FoldSeq(+, 0, seq)

\* _split_evenly
SplitEvenly(total, parts) ==
    [i \in 1..parts |-> total \div parts + IF i <= total % parts THEN 1 ELSE 0]

-----------------------------------------------------------------------------
(* The choice of a task's winner *)

\* What the generator says of every capacity unit, drawn before the split.
Draws == [units : [1..Units -> {0, 1}], honest : [1..Operators -> {0, 1}]]

IdentitySuccesses(units, lane) ==
    LET share == SplitEvenly(Units, Count(lane))
        before(i) == Total(SubSeq(share, 1, i - 1))
    IN  [i \in 1..Count(lane) |-> Total(SubSeq(units, before(i) + 1, before(i) + share[i]))]

\* In ascending order: the n-th has n - 1 before it.
Eligible(successes) ==
    LET some == {i \in DOMAIN successes : successes[i] > 0}
    IN  [n \in 1..Cardinality(some) |-> CHOOSE i \in some : Cardinality({j \in some : j < i}) = n - 1]
Repeated(x, times) == [i \in 1..times |-> x]

Honest == [kind |-> "honest"]
Attacker(i) == [kind |-> "attacker", identity |-> i]
Some(successes) == IF Eligible(successes) = <<>> THEN <<>> ELSE <<Attacker(Eligible(successes)[1])>>
HonestTickets(honest) == [i \in 1..Len(Eligible(honest)) |-> Honest]

\* Faulty variant: the attacker weighs as many tickets as it has eligible identities.
TicketsByIdentity(attacker, honest) ==
    FlattenSeq([i \in 1..Len(Eligible(attacker)) |-> Some(attacker)]) \o Repeated(Honest, Total(honest))

\* _winner_for_task: the outcomes of the roll, each as often as it is drawn.  The
\* default weighs the attacker as one operator, whichever identities succeeded.
Tickets(attacker, honest) ==
    CASE capacityModel = "IDENTITY_UNIFORM" ->
            [i \in 1..Len(Eligible(attacker)) |-> Attacker(Eligible(attacker)[i])] \o HonestTickets(honest)
      [] capacityModel = "OPERATOR_SLOT" -> Some(attacker) \o HonestTickets(honest)
      [] OTHER -> FlattenSeq(Repeated(Some(attacker), Total(attacker))) \o Repeated(Honest, Total(honest))

\* The winner and, when it is honest, who: a second roll over the successes.
Outcomes(attacker, honest) ==
    LET tickets == Tickets(attacker, honest)
        operators == Eligible(honest)
    IN  IF tickets = <<>> THEN {[winner |-> "nobody", calls |-> 0]}
        ELSE {[winner |-> "attacker", identity |-> tickets[r].identity, roll |-> r, of |-> Len(tickets)] :
                 r \in {t \in DOMAIN tickets : tickets[t] # Honest}}
             \cup
             {[winner |-> "honest", operator |-> operators[second], roll |-> r, of |-> Len(tickets)] :
                 r \in {t \in DOMAIN tickets : tickets[t] = Honest}, second \in DOMAIN operators}

\* Same calls, same answers: rolls over as many tickets agree.
Agree(a, b) ==
    IF a.winner = "nobody" \/ b.winner = "nobody" THEN a = b
    ELSE a.of = b.of => /\ a.roll = b.roll
                        /\ (a.winner = "honest" /\ b.winner = "honest") => a.operator = b.operator

SameCalls(a, b) ==
    IF a.winner = "nobody" THEN TRUE ELSE a.of = b.of /\ a.winner = b.winner

\* A pair out of step is followed no further.
RunTask ==
    /\ lockstep /\ Len(trials["single"]) < Simulations /\ task < TaskCount
    /\ \E draw \in Draws :
       \E single \in Outcomes(IdentitySuccesses(draw.units, "single"), draw.honest),
          split \in Outcomes(IdentitySuccesses(draw.units, "split"), draw.honest) :
          LET won == [l \in Lanes |-> IF l = "single" THEN single ELSE split]
          IN  /\ Agree(single, split)
              /\ lockstep' = SameCalls(single, split)
              /\ byIdentity' = [l \in Lanes |->
                    IF won[l].winner # "attacker" THEN byIdentity[l]
                    ELSE [byIdentity[l] EXCEPT ![won[l].identity] = @ + Budget]]
              /\ byOperator' = [l \in Lanes |->
                    IF won[l].winner # "honest" THEN byOperator[l]
                    ELSE [byOperator[l] EXCEPT ![won[l].operator] = @ + Budget]]
              /\ allocated' = [l \in Lanes |->
                    IF won[l].winner = "nobody" THEN allocated[l] ELSE allocated[l] + 1]
    /\ task' = task + 1
    /\ UNCHANGED <<capacityModel, trials>>

-----------------------------------------------------------------------------
(* Weights, at the end of a simulation *)

LeastOf(a, b) == IF a <= b THEN a ELSE b

\* protocol/credit.py, derive_active_weight
ActiveWeight(credit, collateral) ==
    IF credit = 0 THEN 0 ELSE LeastOf(LeastOf(credit, collateral \div Beta), ConcentrationCap)

HonestWeight(credit) ==
    CASE capacityModel = "TASK_BUDGET_ONLY_ABLATION" -> credit
      [] capacityModel = "COLLATERAL_CAP_ABLATION" -> LeastOf(credit, ConcentrationCap)
      [] OTHER -> ActiveWeight(credit, HonestCollateral)

\* The attacker's identities are weighed together, but for the ablation that weighs
\* each with its share of the collateral and a cap of its own.
AttackerWeight(credits) ==
    LET collateral == SplitEvenly(AttackerCollateral, Len(credits))
    IN  CASE capacityModel = "TASK_BUDGET_ONLY_ABLATION" -> Total(credits)
          [] capacityModel = "COLLATERAL_CAP_ABLATION" -> LeastOf(Total(credits), ConcentrationCap)
          [] capacityModel = "CONCENTRATION_CAP_ABLATION" ->
                Total([i \in DOMAIN credits |-> ActiveWeight(credits[i], collateral[i])])
          [] OTHER -> ActiveWeight(Total(credits), AttackerCollateral)

Trial(lane) ==
    [credit |-> Total(byIdentity[lane]), honest |-> Total(byOperator[lane]), allocated |-> allocated[lane],
     weight |-> AttackerWeight(byIdentity[lane]),
     honestWeight |-> Total([o \in 1..Operators |-> HonestWeight(byOperator[lane][o])])]

EndSimulation ==
    /\ lockstep /\ task = TaskCount
    /\ trials' = [l \in Lanes |-> Append(trials[l], Trial(l))]
    /\ byIdentity' = Fresh.byIdentity /\ byOperator' = Fresh.byOperator /\ allocated' = Fresh.allocated
    /\ task' = 0
    /\ UNCHANGED <<capacityModel, lockstep>>

SybilNext == RunTask \/ EndSimulation

-----------------------------------------------------------------------------
(* Properties *)

\* What a capacity model gives an attacker does not depend on how many identities
\* it declares: from one seed the two runs never part, and agree in credit and
\* allocation simulation by simulation, in every model but the scheduler that draws
\* identities; and in weight, so in the share, in every model but that one and the
\* ablation that weighs identities apart.
SplitNeutral ==
    /\ capacityModel # "IDENTITY_UNIFORM" => lockstep
    /\ \A t \in 1..Len(trials["single"]) :
          LET one == trials["single"][t]
              many == trials["split"][t]
          IN  /\ <<one.credit, one.honest, one.allocated>> = <<many.credit, many.honest, many.allocated>>
              /\ capacityModel \notin {"IDENTITY_UNIFORM", "CONCENTRATION_CAP_ABLATION"} => one = many
=============================================================================
