--------------------------- MODULE StrategyHealth ---------------------------
(***************************************************************************)
(* The health machine of a strategy that stops it after losing days, lets  *)
(* it back at reduced risk and judges it again, with its row in the state  *)
(* store, and the way the live engine asks it: closes reach it symbol by   *)
(* symbol, each symbol that is flat asks for leave to enter, and what was  *)
(* proposed is sized when the batch is allocated.                          *)
(*                                                                         *)
(* A cohort is what one controller, the strategy's own exits or the router,*)
(* closed on one day; cohorts of controllers that are not counted are left *)
(* out.  Times are the number of days since (started, age) or until (left);*)
(* None is a time not known.                                               *)
(***************************************************************************)
EXTENDS Integers, Sequences, FiniteSets, StrategyParameters

CONSTANTS
    Controllers,     \* counted_controllers
    StreakLimit,     \* consecutive_negative_cohorts
    CooldownDays, ExtendedDays,
    Required,        \* probation_required_cohorts
    MinSymbols,      \* probation_min_distinct_symbols
    MaxFailed,       \* max_failed_probation_cycles
    Extends,         \* repeated_failure_action: TRUE extended_cooldown, FALSE manual_lock
    Unified,         \* unified_recovery
    WithoutBest,     \* probation_require_positive_without_best
    Stages,          \* recovery_stages, in percent
    StageDays,       \* recovery_stage_min_days
    ProbationRisk, RecoveryRisk,
    OldRows,         \* multipliers of probations in checkpoints of schema v2
    MaxCohorts,      \* bound: cohorts since the last boundary
    LateDays         \* bound: how many days late a close may be delivered
\* Faults: "crash", "write", "lock"

\* __post_init__
ASSUME StrategyHealthAssumption ==
    /\ StreakLimit \in Nat \ {0} /\ Required \in Nat \ {0} /\ MinSymbols \in Nat \ {0}
    /\ MaxFailed \in Nat \ {0} /\ StageDays \in Nat \ {0} /\ MaxCohorts \in Nat /\ LateDays \in 0 .. 1
    /\ CooldownDays \in Nat /\ ExtendedDays \in Nat \ {0}
    /\ Extends \in BOOLEAN /\ Unified \in BOOLEAN /\ WithoutBest \in BOOLEAN
    /\ Stages \in Seq(1 .. 100) /\ ProbationRisk \in 0 .. 100 /\ RecoveryRisk \in 1 .. 100
    /\ Stages # <<>> =>
          /\ Extends /\ Stages[1] = RecoveryRisk /\ Stages[Len(Stages)] = 100
          /\ \A i, j \in DOMAIN Stages : i < j => Stages[i] < Stages[j]
    /\ Unified => Len(Stages) > 1
    /\ Extends => CooldownDays <= ExtendedDays /\ RecoveryRisk <= ProbationRisk
    /\ OldRows \subseteq 1 .. 100

VARIABLES
    mem,         \* the machine in memory
    row,         \* its checkpoint, strategy_health:<name>
    candidates,  \* symbols with an entry proposal in this tick
    risk,        \* the multiplier an entry was sized with in the last step, or 0
    owed,        \* history: days left of a cooldown that was saved
    locked,      \* history: a manual lock was saved, and nobody has resumed
    faults

vars == <<mem, row, candidates, risk, owed, locked, faults>>

None == -1
Min2(a, b) == IF a <= b THEN a ELSE b
Max2(a, b) == IF a >= b THEN a ELSE b

\* Days at the stages before the last, which is ACTIVE.
Climb == IF Unified THEN StageDays * (Len(Stages) - 1) ELSE 0

(* One record for memory and row.  fresh: the counted cohorts since the     *)
(* baseline, in the order they were created; base: age and controller of    *)
(* those of the baseline that may still get a close; failed: failed cycles, *)
(* up to the limit they are compared with; old: the multiplier in a row of  *)
(* schema v2, or 0.  rest is history: days since the last stop.             *)
Machine(status, stage) ==
    [status |-> status, stage |-> stage, failed |-> 0, left |-> None, started |-> None,
     fresh |-> <<>>, base |-> {}, old |-> 0, rest |-> Climb]

-----------------------------------------------------------------------------
(* What the machine reads off its cohorts.                                  *)

Sign(n) == IF n > 0 THEN 1 ELSE IF n < 0 THEN -1 ELSE 0

\* r of a cohort without recorded risk; recorded risk scales it.
R(cohort) == Sign(cohort.net)

consecutive_negative_cohorts(m) ==
    Cardinality({i \in DOMAIN m.fresh : \A j \in i .. Len(m.fresh) : m.fresh[j].net < 0})

\* A cohort closed before the probation began says nothing of it.
_probation_cohorts(m) == {i \in DOMAIN m.fresh : m.fresh[i].age <= m.started}

Winners(m) == {i \in _probation_cohorts(m) : R(m.fresh[i]) > 0}
Losers(m) == {i \in _probation_cohorts(m) : R(m.fresh[i]) < 0}
probation_total_r(m) == Cardinality(Winners(m)) - Cardinality(Losers(m))
probation_symbols(m) == UNION {m.fresh[i].symbols : i \in _probation_cohorts(m)}
probation_r_without_best(m) == probation_total_r(m) - (IF Winners(m) = {} THEN 0 ELSE 1)

_extended_recovery(m) == Extends /\ m.failed >= MaxFailed
_cooldown_days(m) == IF _extended_recovery(m) THEN ExtendedDays ELSE CooldownDays

risk_multiplier(m) ==
    CASE m.status = "active" -> 100
      [] m.status = "probation" ->
            IF m.stage >= 0 THEN Stages[m.stage + 1]
            ELSE IF _extended_recovery(m) THEN RecoveryRisk ELSE ProbationRisk
      [] OTHER -> 0

Allowed(m) == m.status \in {"active", "probation"}

-----------------------------------------------------------------------------
(* evaluate.  judged is history: the cohort was part of a verdict.          *)

Judged(m, evidence) ==
    [m EXCEPT !.fresh = [i \in DOMAIN @ |->
        IF i \in evidence THEN [@[i] EXCEPT !.judged = TRUE] ELSE @[i]]]

\* The days, as ages, and controllers that may still get a close.
Open == (0 .. LateDays) \X Controllers

\* In place of the controller, once no close can come; no controller.
Shut == "shut"

\* All counted cohorts become the baseline.
Rebased(m) ==
    [m EXCEPT !.fresh = <<>>,
              !.base = @ \cup (Open \cap {<<m.fresh[i].age, m.fresh[i].by>> : i \in DOMAIN m.fresh})]

_enter_cooldown(m) ==
    [m EXCEPT !.status = "cooldown", !.left = _cooldown_days(m), !.started = None,
              !.stage = IF Unified THEN 0 ELSE @, !.rest = 0]

ToProbation_KeepsClock(m, stage) ==
    [Rebased(m) EXCEPT !.status = "probation", !.started = IF @ = None THEN 0 ELSE @, !.stage = stage]

ToProbation(m, stage) ==
    [Rebased(m) EXCEPT !.status = "probation", !.started = 0, !.stage = stage]

\* A new probation under unified recovery begins with the lowest stage.
EntryStage(m) == IF Unified THEN 0 ELSE m.stage

Resumed_KeepsEvidence(m) ==
    [m EXCEPT !.status = "active", !.stage = -1, !.left = None, !.started = None, !.failed = 0]

Resumed(m) ==
    [Rebased(m) EXCEPT !.status = "active", !.stage = -1, !.left = None, !.started = None,
                       !.failed = 0]

_fail_probation(m) ==
    LET f == [Judged(m, _probation_cohorts(m)) EXCEPT !.failed = Min2(@ + 1, MaxFailed)] IN
    IF f.failed < MaxFailed THEN _enter_cooldown(f)
    ELSE IF Extends THEN _enter_cooldown([f EXCEPT !.stage = IF Stages = <<>> THEN -1 ELSE 0])
    ELSE [f EXCEPT !.status = "manual_lock", !.left = None, !.rest = 0]

EvaluateCooldown_Unanchored(m) ==
    IF m.left = 0 THEN ToProbation(m, EntryStage(m)) ELSE m

EvaluateCooldown(m) ==
    LET anchored == IF m.left = None THEN [m EXCEPT !.left = _cooldown_days(m)] ELSE m
    IN  IF anchored.left = 0 THEN ToProbation(anchored, EntryStage(m)) ELSE anchored

Passed(m) ==
    LET j == Judged(m, _probation_cohorts(m)) IN
    IF m.stage >= 0 /\ m.stage < Len(Stages) - 2 THEN ToProbation(j, m.stage + 1)
    ELSE Resumed(j)

EvaluateProbation(unclocked) ==
    LET m == IF unclocked.started = None THEN [unclocked EXCEPT !.started = 0] ELSE unclocked
        waits == \/ Cardinality(_probation_cohorts(m)) < Required
                 \/ /\ probation_total_r(m) > 0
                    /\ \/ m.stage >= 0 /\ m.started < StageDays
                       \/ Cardinality(probation_symbols(m)) < MinSymbols
                       \/ WithoutBest /\ probation_r_without_best(m) <= 0
    IN  IF waits THEN m
        ELSE IF probation_total_r(m) <= 0 THEN _fail_probation(m)
        ELSE Passed(m)

EvaluateActive(m) ==
    LET streak == consecutive_negative_cohorts(m) IN
    IF streak < StreakLimit THEN m
    ELSE _enter_cooldown(Judged(m, (Len(m.fresh) - streak + 1) .. Len(m.fresh)))

Evaluate(m) ==
    CASE m.status = "active" -> EvaluateActive(m)
      [] m.status = "cooldown" -> EvaluateCooldown(m)
      [] m.status = "probation" -> EvaluateProbation(m)
      [] OTHER -> m

-----------------------------------------------------------------------------
(* load.  A probation of schema v2 goes on at the highest stage that is no  *)
(* higher than its multiplier, on new evidence and with a new clock.        *)

Eligible(prior) == {i \in 0 .. Len(Stages) - 2 : Stages[i + 1] <= prior}

Migrated(r) ==
    LET stages == Eligible(r.old)
        top == CHOOSE i \in stages : \A j \in stages : j <= i
        m == [Rebased(r) EXCEPT !.started = None, !.old = 0]
    IN  IF stages = {} THEN [m EXCEPT !.status = "cooldown", !.stage = 0, !.left = None, !.rest = 0]
        ELSE [m EXCEPT !.stage = top, !.rest = top * StageDays]

load(r) ==
    IF Unified /\ r.old > 0 /\ r.status = "probation" THEN Migrated(r)
    ELSE [r EXCEPT !.old = 0]

OldProbation(prior) ==
    [Machine("probation", -1) EXCEPT !.old = prior, !.started = 0, !.rest = 0]
OldCooldown == [Machine("cooldown", -1) EXCEPT !.left = CooldownDays, !.rest = 0, !.old = 1]

Init ==
    /\ row \in {Machine("active", -1)} \cup
               (IF OldRows = {} THEN {} ELSE {OldCooldown} \cup {OldProbation(p) : p \in OldRows})
    /\ mem = load(row)
    /\ candidates = {} /\ risk = 0
    /\ owed = (IF row.status = "cooldown" THEN row.left ELSE 0) /\ locked = FALSE
    /\ faults = 0

Statuses == {"active", "cooldown", "probation", "manual_lock"}
Cohorts ==
    [age : 0 .. StageDays + 1, by : Controllers \cup {Shut}, net : Int,
     symbols : SUBSET Symbols, judged : BOOLEAN]
Machines ==
    [status : Statuses, stage : -1 .. Len(Stages) - 1, failed : 0 .. MaxFailed,
     left : Nat \cup {None}, started : None .. StageDays, fresh : Seq(Cohorts),
     base : SUBSET Open, old : 0 .. 100, rest : 0 .. Climb]

TypeOK ==
    /\ mem \in Machines /\ row \in Machines /\ mem.old = 0
    /\ candidates \subseteq Symbols /\ risk \in 0 .. 100
    /\ owed \in Nat /\ locked \in BOOLEAN /\ faults \in 0 .. MaxFaults

-----------------------------------------------------------------------------
(* The live engine.                                                         *)

\* persist: the row is written, or the write raises and memory alone has m.
Persist(m) ==
    /\ mem' = m
    /\ \/ /\ row' = m /\ UNCHANGED faults
          /\ owed' = IF m.status = "cooldown" THEN Max2(owed, m.left) ELSE owed
          /\ locked' = (locked \/ m.status = "manual_lock")
       \/ /\ "write" \in Faults /\ faults < MaxFaults /\ faults' = faults + 1
          /\ UNCHANGED <<row, owed, locked>>

Indices(m, by, age) == {i \in DOMAIN m.fresh : m.fresh[i].by = by /\ m.fresh[i].age = age}

add(cohort, s, result) == [cohort EXCEPT !.net = @ + result, !.symbols = @ \cup {s}]

\* What a close does to the cohorts: joins the one of its controller and day,
\* or begins it.  One that joins the baseline is on record and changes no
\* verdict.
Folded(m, s, by, result, age) ==
    IF <<age, by>> \in m.base THEN m
    ELSE IF Indices(m, by, age) # {} THEN
        [m EXCEPT !.fresh = [i \in DOMAIN @ |->
            IF i \in Indices(m, by, age) THEN add(@[i], s, result) ELSE @[i]]]
    ELSE [m EXCEPT !.fresh = Append(@, [age |-> age, by |-> by, net |-> result,
                                        symbols |-> {s}, judged |-> FALSE])]

(* ingest_close and the save behind it, for a close of today, or of         *)
(* yesterday when a tick was missed.  A symbol closes once a day.           *)
Ingest(s, by, result, age) ==
    /\ \A c \in Controllers : \A i \in Indices(mem, c, age) : s \notin mem.fresh[i].symbols
    /\ Len(Folded(mem, s, by, result, age).fresh) <= MaxCohorts
    /\ Persist(Folded(mem, s, by, result, age))
    /\ risk' = 0 /\ UNCHANGED candidates

ingest_close(s) ==
    \E by \in Controllers, result \in {-1, 1}, age \in 0 .. LateDays : Ingest(s, by, result, age)

(* build_entry_candidate: check_health evaluates and saves, and a symbol    *)
(* with a signal becomes a candidate; if the save raises it does not.       *)
check_health(s) ==
    /\ Persist(Evaluate(mem))
    /\ candidates' \in IF Allowed(mem') /\ UNCHANGED faults
                       THEN {candidates, candidates \cup {s}} ELSE {candidates}
    /\ risk' = 0

EntryRisk_Unscaled == 100

\* submit_entry_candidate: the size is scaled by what the machine says then.
EntryRisk == risk_multiplier(mem)

Allocate ==
    /\ candidates # {}
    /\ risk' = EntryRisk /\ candidates' = {}
    /\ UNCHANGED <<mem, row, owed, locked, faults>>

(* Nobody in the code calls these two; an operator does, on MANUAL_LOCK as  *)
(* documented.  They do not save: the next check does.  A lock out of the   *)
(* blue counts as a fault.                                                  *)
manual_lock ==
    /\ "lock" \in Faults /\ faults < MaxFaults /\ faults' = faults + 1
    /\ mem.status # "manual_lock"
    /\ mem' = [mem EXCEPT !.status = "manual_lock", !.rest = 0]
    /\ risk' = 0 /\ UNCHANGED <<row, candidates, owed, locked>>

manual_resume ==
    /\ mem.status = "manual_lock"
    /\ mem' = [ToProbation(mem, IF Unified THEN 0 ELSE -1) EXCEPT !.failed = 0]
    /\ owed' = 0 /\ locked' = FALSE
    /\ risk' = 0 /\ UNCHANGED <<row, candidates, faults>>

-----------------------------------------------------------------------------
(* A day later.  Ages stop where no comparison differs, and of a cohort that *)
(* can no longer get a close the sign is kept and the controller is not.    *)
AgedCohort(c, started) ==
    [c EXCEPT !.by = IF <<c.age + 1, @>> \in Open THEN @ ELSE Shut,
              !.age = Min2(@ + 1, IF @ <= started THEN StageDays ELSE StageDays + 1),
              !.net = IF c.age = 0 THEN @ ELSE Sign(@)]

Aged(m) ==
    [m EXCEPT !.left = IF @ = None THEN None ELSE Max2(@ - 1, 0),
              !.started = IF @ = None THEN None ELSE Min2(@ + 1, StageDays),
              !.fresh = [i \in DOMAIN @ |-> AgedCohort(@[i], m.started)],
              !.base = Open \cap {<<b[1] + 1, b[2]>> : b \in @},
              !.rest = IF Allowed(m) THEN Min2(@ + 1, Climb) ELSE 0]

NextDay ==
    /\ mem' = Aged(mem) /\ row' = Aged(row) /\ owed' = Max2(owed - 1, 0)
    /\ candidates' = {} /\ risk' = 0 /\ UNCHANGED <<locked, faults>>

Crash ==
    /\ "crash" \in Faults /\ faults < MaxFaults /\ faults' = faults + 1
    /\ mem' = load(row) /\ candidates' = {} /\ risk' = 0
    /\ UNCHANGED <<row, owed, locked>>

Next ==
    \/ \E s \in Symbols : ingest_close(s) \/ check_health(s)
    \/ Allocate \/ manual_lock \/ manual_resume \/ NextDay \/ Crash

Spec == Init /\ [][Next]_vars

(* Days go by, and again and again a flat symbol is evaluated.              *)
FairSpec == Spec /\ WF_vars(NextDay) /\ WF_vars(\E s \in Symbols : check_health(s))

-----------------------------------------------------------------------------
(* Properties.                                                              *)

(* A halt is served: once a cooldown or a lock is on disk, no entry is      *)
(* sized above zero before its days are over, or an operator has resumed -  *)
(* not after a crash, not when a write fails, and not for a symbol that     *)
(* asked before another one's losses stopped the strategy in the same tick. *)
HaltServed == risk > 0 => owed = 0 /\ ~locked

(* Evidence counts once: what was part of a verdict, a losing streak or the *)
(* end of a probation, is no evidence of the epoch that follows.            *)
EvidenceCountsOnce ==
    \A m \in {mem, row} : Allowed(m) => \A i \in DOMAIN m.fresh : ~m.fresh[i].judged

(* Under unified recovery the risk of a stage is reached no earlier than    *)
(* the days of all stages below it allow, counted from the last stop, and   *)
(* full risk after all of them - over restarts and failed probations.       *)
RecoveryTakesTime ==
    Unified => \A m \in {mem, row} :
        /\ m.status = "probation" => m.rest >= m.stage * StageDays
        /\ m.status = "active" => m.rest >= Climb

(* No stop but a lock is for good while failures extend the cooldown: a     *)
(* strategy that goes on being evaluated may open positions again and again.*)
NeverOffForGood == []<>(Allowed(mem) \/ mem.status = "manual_lock")

(* Docstring of StrategyHealthMachine: transitions are evaluated lazily, so *)
(* that every close of an exit action is in its cohort before it is judged. *)
JudgedWhole ==
    [][\A s \in Symbols, by \in Controllers, result \in {-1, 1}, age \in 0 .. LateDays :
        Ingest(s, by, result, age) => \A i \in Indices(mem, by, age) : ~mem.fresh[i].judged]_vars

=============================================================================
