-------------------------- MODULE CircuitBreaker --------------------------
(***************************************************************************)
(* The circuit breaker of an account (core/risk/circuit_breaker.py) as the *)
(* live tick runs it: the day changes, a first equity of the day becomes   *)
(* the day's baseline, the breaker is checked, its checkpoint is saved and *)
(* only then is an action planned and may orders be opened.  Any of the    *)
(* writes may fail, the process may crash between them, and the clock may  *)
(* be set back.                                                            *)
(*                                                                         *)
(* Equity is a small number and thresholds are percentages.  A checkpoint  *)
(* of an older schema, and days kept without one, are left out; what a     *)
(* planned action does to the positions is the subject of RiskActions.     *)
(***************************************************************************)
EXTENDS Integers, CircuitBreakerState

Action == {"normal", "reduce", "block_new", "liquidate", "locked"}
Terminal == {"liquidate", "locked"}
None == -1

vars == <<now, latest, breaker, stored, baseline, day, equity, phase, resumes, faults, moves, acted, halts>>

Days == 0 .. (MaxTime \div DayLength)

(* move numbers the change that gave the id, since is when a block began:   *)
(* the code keeps neither.                                                  *)
Breaker == [action : Action, high : Equities \cup {None}, probation : Equities \cup {None},
            until : Nat \cup {None}, daily : BOOLEAN, triggered : BOOLEAN,
            epoch : Nat, sequence : Nat, id : {"none", "transition", "recovery"}, move : Nat, since : Nat]
Fresh == [action |-> "normal", high |-> None, probation |-> None, until |-> None,
          daily |-> FALSE, triggered |-> FALSE, epoch |-> 0, sequence |-> 0,
          id |-> "none", move |-> 0, since |-> 0]
NotStored == [state |-> Fresh, day |-> None]

(* What restore_breaker_checkpoint accepts. *)
Restorable(b) == b.probation # None => b.action = "reduce"

TypeOK ==
    /\ now \in 0 .. MaxTime /\ latest \in now .. MaxTime /\ day \in Days \cup {None}
    /\ breaker \in Breaker
    /\ stored \in [state : Breaker, day : Days \cup {None}] /\ Restorable(stored.state)
    /\ baseline \in [Days -> Equities \cup {None}]
    /\ equity \in Equities \cup {None}
    /\ phase \in {"down", "idle", "start", "check", "save", "act"}
    /\ resumes \in 0 .. MaxResumes /\ faults \in 0 .. MaxFaults /\ moves \in 0 .. MaxMoves
    /\ halts \in [daily : SUBSET Days, final : BOOLEAN, until : Nat]

NoHalts == [daily |-> {}, final |-> FALSE, until |-> 0]

Init ==
    /\ now = 0 /\ latest = 0 /\ breaker = Fresh /\ stored = NotStored
    /\ baseline = [d \in Days |-> None] /\ day = None /\ equity = None
    /\ phase = "down" /\ resumes = 0 /\ faults = 0
    /\ moves = 0 /\ acted = {} /\ halts = NoHalts

Fault == faults < MaxFaults /\ faults' = faults + 1
history == <<moves, acted, halts>>

-----------------------------------------------------------------------------
(* Start, and the change of the day.                                        *)

(* restore_breaker_checkpoint *)
Restored_ActionOnly == [Fresh EXCEPT !.action = stored.state.action, !.high = stored.state.high]
Restored == stored.state

StartEngine ==
    /\ phase = "down"
    /\ breaker' = Restored
    /\ phase' = "idle"
    /\ UNCHANGED <<now, latest, stored, baseline, day, equity, resumes, faults, history>>

(* reset_daily_breaker *)
DailyReset(b) == [b EXCEPT !.daily = FALSE, !.triggered = Rank[b.action] >= Rank["block_new"]]

(* A checkpoint of a day to come stops the tick; one of another day loses   *)
(* its daily halt.                                                          *)
NewDay ==
    /\ phase = "idle" /\ day # Today
    /\ stored.day <= Today
    /\ LET b == IF stored.day # Today THEN DailyReset(breaker) ELSE breaker IN
       /\ breaker' = b
       /\ \/ /\ stored' = IF stored.day = None THEN stored ELSE [state |-> b, day |-> Today]
             /\ day' = Today /\ phase' = "start" /\ UNCHANGED faults
          \/ Fault /\ UNCHANGED <<stored, day, phase>>
    /\ UNCHANGED <<now, latest, baseline, equity, resumes, history>>

SameDay ==
    /\ phase = "idle" /\ day = Today
    /\ phase' = "start"
    /\ UNCHANGED <<now, latest, breaker, stored, baseline, day, equity, resumes, faults, history>>

-----------------------------------------------------------------------------
(* check_circuit_breaker                                                    *)

Down(from, to, percent) == 100 * (from - to) >= percent * from

Target(high, e) ==
    LET met == {a \in Action \ {"normal"} : Down(high, e, Threshold[a])} IN
    IF met = {} THEN "normal" ELSE CHOOSE a \in met : \A b \in met : Rank[b] <= Rank[a]

(* _recovery_transition to REDUCE, the change numbered m.                   *)
Recovered(b, m) ==
    [b EXCEPT !.action = "reduce", !.triggered = b.daily,
              !.sequence = @ + 1, !.id = "recovery", !.move = m, !.since = 0]

CooldownOver_AtOnce(b, e, healthy) ==
    b.action = "block_new" /\ healthy /\ ~b.daily /\ ~Down(baseline[Today], e, DailyLimit)
(* The cooldown is over, on a day without trouble. *)
CooldownOver(b, e, healthy) ==
    /\ b.action = "block_new"
    /\ now >= b.until
    /\ healthy /\ ~b.daily /\ ~Down(baseline[Today], e, DailyLimit)

(* Old deadlines are set, a cooldown ends in a probation. *)
Cooled(b, e, healthy) ==
    LET waiting == IF b.action = "block_new" /\ b.until = None
                     THEN [b EXCEPT !.until = now + Cooldown] ELSE b IN
    IF CooldownOver(waiting, e, healthy)
      THEN Recovered([waiting EXCEPT !.probation = e, !.until = None], moves + 1)
      ELSE waiting

(* What a probation makes of the breaker and of the target. *)
Relapses(b, e) == b.probation # None /\ Down(b.probation, e, Probation)
Recovers(b, e) == b.probation # None /\ ~Relapses(b, e) /\ ~Down(b.high, e, Threshold["reduce"])
OnProbation(b, e) ==
    IF Relapses(b, e) THEN [b EXCEPT !.probation = None]
    ELSE IF Recovers(b, e) THEN Recovered([b EXCEPT !.probation = None], moves + 2)
    ELSE b
ProbationTarget(b, e, target) ==
    IF b.probation = None THEN target
    ELSE IF Relapses(b, e) THEN "block_new" ELSE "reduce"

(* Escalations are sticky; every one has an id of its own. *)
Escalated(b, target) ==
    IF Rank[target] <= Rank[b.action] THEN b
    ELSE [b EXCEPT !.action = target,
                   !.until = IF target = "block_new"
                               THEN IF Recovery THEN now + Cooldown ELSE None
                               ELSE @,
                   !.probation = IF target = "reduce" THEN @ ELSE None,
                   !.sequence = @ + 1, !.id = "transition", !.move = moves + 3,
                   !.since = IF target = "block_new" THEN now ELSE 0]

DailyChecked(b, e) ==
    IF Down(baseline[Today], e, DailyLimit)
      THEN [b EXCEPT !.daily = TRUE, !.triggered = TRUE] ELSE b

Marked(b, e) == [b EXCEPT !.high = IF @ = None \/ e > @ THEN e ELSE @]

Checked(e, healthy) ==
    LET b == Marked(breaker, e)
        target == Target(b.high, e)
        eased == Recovery /\ b.action \notin Terminal /\ target \notin Terminal
        cooled == IF eased THEN Cooled(b, e, healthy) ELSE b
        tried == IF eased THEN OnProbation(cooled, e) ELSE b
        aim == IF eased THEN ProbationTarget(cooled, e, target) ELSE target
    IN DailyChecked(Escalated(tried, aim), e)

-----------------------------------------------------------------------------
(* The tick.                                                                *)

(* The first equity of a day is its baseline, also after a restart. *)
Baseline(e) ==
    /\ phase = "start"
    /\ \/ /\ equity' = e
          /\ baseline' = IF baseline[Today] = None THEN [baseline EXCEPT ![Today] = e] ELSE baseline
          /\ phase' = "check" /\ UNCHANGED faults
       \/ baseline[Today] = None /\ Fault /\ phase' = "idle" /\ UNCHANGED <<baseline, equity>>
    /\ UNCHANGED <<now, latest, breaker, stored, day, resumes, history>>

Check(healthy) ==
    /\ phase = "check"
    /\ breaker' = Checked(equity, healthy)
    /\ breaker'.sequence - breaker.sequence \in 0 .. MaxMoves - moves
    /\ moves' = moves + breaker'.sequence - breaker.sequence
    /\ phase' = "save"
    /\ UNCHANGED <<now, latest, stored, baseline, day, equity, resumes, faults, acted, halts>>

(* _save_breaker_checkpoint; from here on the block counts. *)
Save ==
    /\ phase = "save"
    /\ \/ /\ stored' = [state |-> breaker, day |-> Today]
          /\ halts' = [halts EXCEPT !.until =
                         IF breaker.action = "block_new" /\ stored.state.action # "block_new"
                           THEN breaker.since + Cooldown ELSE @]
          /\ phase' = "act" /\ UNCHANGED faults
       \/ Fault /\ phase' = "idle" /\ UNCHANGED <<stored, halts>>
    /\ equity' = None
    /\ UNCHANGED <<now, latest, breaker, baseline, day, resumes, moves, acted>>

(* plan_risk_action: id, what is to remain, and the change it belongs to.   *)
PlanOf(b) ==
    LET plan(remaining) == {[id |-> <<b.id, b.epoch, b.sequence>>,
                             remaining |-> remaining, move |-> b.move]} IN
    IF b.daily THEN {[id |-> <<"daily", Today, 0>>, remaining |-> "none", move |-> 0]}
    ELSE IF b.action \in Terminal THEN plan("none")
    ELSE IF b.action = "reduce" /\ b.probation = None /\ b.id # "recovery" THEN plan("part")
    ELSE {}

(* The action is handed over, and orders may be opened or not. *)
Act ==
    /\ phase = "act"
    /\ acted' = acted \cup PlanOf(breaker)
    /\ halts' = [halts EXCEPT !.daily = IF breaker.daily THEN @ \cup {Today} ELSE @,
                              !.final = @ \/ breaker.action \in Terminal]
    /\ phase' = "idle"
    /\ UNCHANGED <<now, latest, breaker, stored, baseline, day, equity, resumes, faults, moves>>

-----------------------------------------------------------------------------

Resumed_SameEpoch(b, e, rebase) ==
    [Fresh EXCEPT !.high = IF rebase \/ b.high = None THEN e ELSE b.high, !.epoch = b.epoch]
Resumed(b, e, rebase) ==
    [Fresh EXCEPT !.high = IF rebase \/ b.high = None THEN e ELSE b.high, !.epoch = b.epoch + 1]

(* manual_resume, by an operator, between two ticks; the next tick saves it.*)
Resume(e, rebase) ==
    /\ phase = "idle" /\ resumes < MaxResumes
    /\ breaker' = Resumed(breaker, e, rebase)
    /\ resumes' = resumes + 1
    /\ halts' = NoHalts
    /\ UNCHANGED <<now, latest, stored, baseline, day, equity, phase, faults, moves, acted>>

TimePasses ==
    /\ phase \in {"down", "idle"} /\ now < MaxTime
    /\ now' = now + 1 /\ latest' = IF latest > now THEN latest ELSE now + 1
    /\ UNCHANGED <<breaker, stored, baseline, day, equity, phase, resumes, faults, history>>

ClockBack ==
    /\ phase \in {"down", "idle"} /\ now > 0 /\ Fault
    /\ now' = now - 1
    /\ UNCHANGED <<latest, breaker, stored, baseline, day, equity, phase, resumes, history>>

Crash ==
    /\ phase # "down" /\ Fault
    /\ breaker' = Fresh /\ day' = None /\ equity' = None /\ phase' = "down"
    /\ UNCHANGED <<now, latest, stored, baseline, resumes, history>>

Next ==
    \/ StartEngine \/ NewDay \/ SameDay
    \/ (\E e \in Equities : Baseline(e)) \/ (\E healthy \in BOOLEAN : Check(healthy))
    \/ Save \/ Act
    \/ \E e \in Equities, rebase \in BOOLEAN : Resume(e, rebase)
    \/ TimePasses \/ ClockBack \/ Crash

Spec == Init /\ [][Next]_vars
=============================================================================
