------------------------------ MODULE WatcherGame ------------------------------
(***************************************************************************)
(* The simulation of experiment E5, src/poi_mpp/experiments/e5_watcher.py: *)
(* may a fraud mature although watchers, and perhaps a bonded auditor, are *)
(* paid to challenge it?  A trial is one random walk of _trial_utilities;  *)
(* here it is the walk of the whole distribution, so that what a run       *)
(* estimates is known exactly.  Probabilities are numerators over Scale.   *)
(***************************************************************************)
EXTENDS Integers, Functions

CONSTANTS
    Scale,
    Watchers,                 \* bound: watcher_count
    SharedRates, OnlineRates, NoticeRates, SuccessRates, AuditRates,  \* bounds: probabilities
    Offers,                   \* bound: attacker_bribe_micros, challenge_subsidy_micros
    WatchCost, OwnCosts, Bond, Reward,
    AuditorCost, AuditorReward

ASSUME WatcherAssumption ==
    /\ {Scale, Watchers} \subseteq Nat \ {0}
    /\ SharedRates \cup OnlineRates \cup NoticeRates \cup SuccessRates \cup AuditRates \subseteq 0..Scale
    /\ OwnCosts \in [1..Watchers -> Nat]
    /\ Offers \subseteq Nat /\ {WatchCost, Bond, Reward, AuditorCost, AuditorReward} \subseteq Nat

WatcherFamilies == {"INDEPENDENT", "CORRELATED_OUTAGE", "SHARED_INFRASTRUCTURE", "HETEROGENEOUS_COST",
             "COLLUSION", "BRIBERY_SUBSIDY", "BONDED_AUDITOR"}

\* WatcherScenario.validate_contract; the walk does not read correlation_model and
\* assumption_label, which follow the family where they are not free.
ValidFamily(s) ==
    CASE s.family = "INDEPENDENT" ->
            /\ s.outage = 0 /\ s.infrastructure = 0
            /\ s.colluding = 0 /\ ~s.ownCosts /\ s.detection = 0 /\ s.conviction = 0
      [] s.family = "CORRELATED_OUTAGE" -> s.outage > 0
      [] s.family = "SHARED_INFRASTRUCTURE" -> s.infrastructure > 0
      [] s.family = "HETEROGENEOUS_COST" -> s.ownCosts
      [] s.family = "COLLUSION" -> s.colluding > 0
      [] s.family = "BRIBERY_SUBSIDY" -> s.bribe + s.subsidy > 0 /\ (s.bribe > 0 => s.colluding > 0)
      [] s.family = "BONDED_AUDITOR" -> s.detection > 0 /\ s.conviction > 0

Scenarios ==
    {s \in [family : WatcherFamilies, outage : SharedRates, infrastructure : SharedRates,
            online : OnlineRates, discovery : NoticeRates, challenge : NoticeRates, success : SuccessRates,
            colluding : 0..Watchers, bribe : Offers, subsidy : Offers, ownCosts : BOOLEAN,
            detection : AuditRates, conviction : AuditRates] : ValidFamily(s)}

VARIABLES
    game,        \* the scenario
    watched,     \* watchers who had their turn; Watchers + 1 after the auditor
    mass,        \* weight of each state of a trial
    utility      \* expected utility of the watchers and of the auditor, same scale

watcherVars == <<game, watched, mass, utility>>

Walk == [silenced : BOOLEAN, challenged : BOOLEAN, stopped : BOOLEAN]
Chance(p, event) == IF event THEN p ELSE Scale - p
MassOf(states) == SumFunctionOnSet(mass, states)

\* Shared failures are drawn once per trial, before the watchers' turns.
Shared(s) ==
    LET spared == (Scale - s.outage) * (Scale - s.infrastructure)
    IN  [t \in Walk |-> IF t.challenged \/ t.stopped THEN 0
                         ELSE IF t.silenced THEN Scale * Scale - spared ELSE spared]

WatcherInit ==
    /\ game \in Scenarios
    /\ watched = 0
    /\ mass = Shared(game)
    /\ utility = [watchers |-> 0, auditor |-> 0]

-----------------------------------------------------------------------------
(* One watcher's turn *)

Square == Scale * Scale
Full == Square * Square

Turns == [online : BOOLEAN, discovers : BOOLEAN, challenges : BOOLEAN, wins : BOOLEAN]
TurnChance(d) ==
    Chance(game.online, d.online) * Chance(game.discovery, d.discovers)
        * Chance(game.challenge, d.challenges) * Chance(game.success, d.wins)

Aware(t, d) == ~t.silenced /\ d.online /\ d.discovers
Challenges(t, d, w) == Aware(t, d) /\ w > game.colluding /\ d.challenges

AfterTurn(t, d, w) ==
    IF Challenges(t, d, w) THEN [t EXCEPT !.challenged = TRUE, !.stopped = t.stopped \/ d.wins] ELSE t

\* _watcher_cost_vector; a watcher pays for watching whatever follows.
Cost(w) == IF game.ownCosts THEN OwnCosts[w] ELSE WatchCost

Earned(t, d, w) ==
    (CASE Aware(t, d) /\ w <= game.colluding -> game.bribe
       [] Challenges(t, d, w) -> IF d.wins THEN Reward + game.subsidy ELSE -Bond
       [] OTHER -> 0) - Cost(w)

WatcherTurn ==
    /\ watched < Watchers
    /\ LET w == watched + 1
           cases == Walk \X Turns
           weight == [x \in cases |-> mass[x[1]] * TurnChance(x[2])]
           earned == [x \in cases |-> weight[x] * Earned(x[1], x[2], w)]
       IN  /\ mass' = [t \in Walk |-> SumFunctionOnSet(weight, {x \in cases : AfterTurn(x[1], x[2], w) = t})]
           /\ utility' = [watchers |-> utility.watchers * Full + SumFunctionOnSet(earned, cases), auditor |-> 0]
    /\ watched' = watched + 1
    /\ UNCHANGED game

-----------------------------------------------------------------------------
(* The bonded auditor, after the watchers *)

\* Faulty variant: a challenge that failed keeps the auditor away too.
AuditsUnchallenged(t) == game.detection > 0 /\ ~t.challenged

Audits(t) == game.detection > 0 /\ ~t.stopped

Checks == [detects : BOOLEAN, wins : BOOLEAN]
CheckChance(c) == Chance(game.detection, c.detects) * Chance(game.conviction, c.wins)

AfterAudit(t, c) ==
    IF Audits(t) /\ c.detects THEN [t EXCEPT !.challenged = TRUE, !.stopped = c.wins] ELSE t

AuditorEarned(t, c) ==
    IF ~Audits(t) THEN 0 ELSE (IF c.detects /\ c.wins THEN AuditorReward ELSE 0) - AuditorCost

AuditorTurn ==
    /\ watched = Watchers
    /\ LET cases == Walk \X Checks
           weight == [x \in cases |-> mass[x[1]] * CheckChance(x[2])]
           earned == [x \in cases |-> weight[x] * AuditorEarned(x[1], x[2])]
       IN  /\ mass' = [t \in Walk |-> SumFunctionOnSet(weight, {x \in cases : AfterAudit(x[1], x[2]) = t})]
           /\ utility' = [watchers |-> utility.watchers * Square, auditor |-> SumFunctionOnSet(earned, cases)]
    /\ watched' = watched + 1
    /\ UNCHANGED game

WatcherNext == WatcherTurn \/ AuditorTurn

-----------------------------------------------------------------------------
(* The row's rates and the closed forms *)

NoChallenge == MassOf({t \in Walk : ~t.challenged})
InvalidMaturity == MassOf({t \in Walk : ~t.stopped})

\* base ** times
Power(base, times) ==
    LET power[n \in 0..times] == IF n = 0 THEN 1 ELSE base * power[n - 1]
    IN  power[times]

\* independent_no_challenge_probability, independent_invalid_maturity_probability
\* and _attempt_probability, over Full for each watcher.
Attempt == game.online * game.discovery * game.challenge
IndependentNoChallenge == Power(Full - Attempt * Scale, Watchers)
IndependentInvalidMaturity == Power(Full - Attempt * game.success, Watchers)

-----------------------------------------------------------------------------
(* Properties *)

Spared == (Scale - game.outage) * (Scale - game.infrastructure)
Alert == Watchers - game.colluding
Costs == [w \in 1..Watchers |-> Cost(w)]

\* The walk of a trial and the closed forms of the row agree: of independent
\* watchers, the two the code states; in every family, a fraud matures unless one
\* watcher out of the spared and unbribed, or else the auditor, succeeds; and
\* the utilities are what each such watcher and the auditor earns on average.
SimulatesClosedForm ==
    watched = Watchers + 1 =>
        LET all == Power(Full, Watchers)
            silent == (Square - Spared) * all
            unstopped == silent + Spared * Power(Full - Attempt * game.success, Alert) * Power(Full, game.colluding)
        IN  /\ game.family = "INDEPENDENT" =>
                  /\ NoChallenge = IndependentNoChallenge * Full
                  /\ InvalidMaturity = IndependentInvalidMaturity * Full
            /\ InvalidMaturity = unstopped * (Square - game.detection * game.conviction)
            /\ utility.watchers =
                  Square * (Power(Full, Watchers - 1)
                    * Spared * (game.colluding * game.online * game.discovery * Square * game.bribe
                                + Alert * Attempt * (game.success * (Reward + game.subsidy)
                                                     - (Scale - game.success) * Bond))
                    - Square * all * SumFunctionOnSet(Costs, 1..Watchers))
            /\ utility.auditor = IF game.detection = 0 THEN 0
                  ELSE unstopped * (game.detection * game.conviction * AuditorReward - Square * AuditorCost)
=============================================================================
