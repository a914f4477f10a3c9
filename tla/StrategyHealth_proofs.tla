----------------------- MODULE StrategyHealth_proofs -----------------------
(***************************************************************************)
(* A saved halt is served, evidence counts once and recovery takes its     *)
(* time, for any symbols, policy, faults and bounds.  The invariant says   *)
(* of one machine what makes it sane; each operator of evaluate, load and  *)
(* the passing of days keeps a machine sane, whether it is the one in      *)
(* memory or the one on disk.                                              *)
(*                                                                         *)
(* What the strategy learns of its closes, for any symbols, sizes, bounds  *)
(* and faults.  No close event is lost between the cursor, the queues, the *)
(* running totals and the completed positions: the invariant says it of    *)
(* the three rows a strategy may go on with, the one in memory, the        *)
(* checkpoint and the copy for a rollback (MemoryInv).  On it rests that a *)
(* completion is told in full (CompletionInv), and on both that its result *)
(* is counted once - the last for a process that does not crash after a    *)
(* health row failed to be written (CountInv).                             *)
(***************************************************************************)
EXTENDS StrategyHealth, StrategyClosesState, SequenceTheorems, FiniteSetTheorems,
        WellFoundedInduction, TLAPS

(* No evidence of an earlier verdict where new entries are allowed.        *)
Clean(m) == Allowed(m) => \A i \in DOMAIN m.fresh : ~m.fresh[i].judged

(* The days behind a stage, with those spent in it.                        *)
Climbed(m) ==
    Unified =>
        /\ m.status = "probation" => /\ m.stage \in 0 .. Len(Stages) - 2
                                     /\ m.rest >= m.stage * StageDays
                                     /\ m.rest >= m.stage * StageDays + m.started
        /\ m.status = "active" => m.rest >= Climb

Sane(m) == m \in Machines /\ m.old = 0 /\ Clean(m) /\ Climbed(m)

(* A row of schema v2 is one nobody has written over.                      *)
Inherited(r) ==
    /\ r \in Machines /\ r.old > 0 /\ r.fresh = <<>>
    /\ r.status = "cooldown" \/ (r.status = "probation" /\ r.stage = -1)

RowSane(r) == Sane(r) \/ Inherited(r)

(* A halt that is owed is in the record.                                   *)
Halts(m, o, l) ==
    /\ o > 0 => m.status = "manual_lock" \/ (m.status = "cooldown" /\ m.left >= o)
    /\ l => m.status = "manual_lock"

Typed ==
    /\ candidates \subseteq Symbols /\ risk \in 0 .. 100
    /\ owed \in Nat /\ locked \in BOOLEAN /\ faults \in 0 .. MaxFaults

IInv ==
    /\ Typed
    /\ Sane(mem) /\ RowSane(row)
    /\ Halts(mem, owed, locked) /\ Halts(row, owed, locked)
    /\ HaltServed

-----------------------------------------------------------------------------
(* Arithmetic of stages and bounds.                                        *)

LEMMA MinMax ==
    ASSUME NEW a \in Int, NEW b \in Int
    PROVE  /\ Min2(a, b) \in {a, b} /\ Min2(a, b) <= a /\ Min2(a, b) <= b
           /\ Max2(a, b) \in {a, b} /\ Max2(a, b) >= a /\ Max2(a, b) >= b
BY DEF Min2, Max2

LEMMA Multiples ==
    ASSUME NEW d \in Nat \ {0}, NEW k \in Nat, NEW n \in Nat
    PROVE  /\ k * d \in Nat /\ (k + 1) * d = k * d + d
           /\ k <= n => k * d <= n * d
           /\ 0 * d = 0 /\ d * k = k * d /\ (-1) * d <= 0
<1>1. k * d \in Nat /\ (k + 1) * d = k * d + d /\ 0 * d = 0 /\ d * k = k * d /\ (-1) * d <= 0
  OBVIOUS
<1>2. ASSUME k <= n PROVE k * d <= n * d
  <2>1. PICK j \in Nat : n = k + j
    <3>1. n - k \in Nat /\ n = k + (n - k)  BY <1>2
    <3> QED BY <3>1
  <2>2. n * d = k * d + j * d /\ j * d >= 0  BY <2>1
  <2> QED BY <2>2, <1>1
<1> QED BY <1>1, <1>2

LEMMA ClimbFacts ==
    /\ Climb \in Nat
    /\ Unified => /\ Climb = (Len(Stages) - 1) * StageDays /\ Len(Stages) \in Nat /\ Len(Stages) > 1
                  /\ \A k \in 0 .. Len(Stages) - 2 : k * StageDays + StageDays <= Climb
<1>1. Len(Stages) \in Nat /\ StageDays \in Nat \ {0} /\ Unified \in BOOLEAN
  BY StrategyHealthAssumption
<1>2. CASE ~Unified  BY <1>2 DEF Climb
<1>3. CASE Unified
  <2>1. Len(Stages) > 1 /\ Len(Stages) - 1 \in Nat  BY <1>1, <1>3, StrategyHealthAssumption
  <2>2. Climb = StageDays * (Len(Stages) - 1)  BY <1>3 DEF Climb
  <2>3. Climb = (Len(Stages) - 1) * StageDays /\ Climb \in Nat
    BY <1>1, <2>1, <2>2, Multiples
  <2>4. ASSUME NEW k \in 0 .. Len(Stages) - 2 PROVE k * StageDays + StageDays <= Climb
    <3>1. k \in Nat /\ k + 1 \in Nat /\ k + 1 <= Len(Stages) - 1  BY <1>1
    <3>2. (k + 1) * StageDays <= (Len(Stages) - 1) * StageDays  BY <3>1, <2>1, <1>1, Multiples
    <3>3. (k + 1) * StageDays = k * StageDays + StageDays  BY <3>1, <1>1, Multiples
    <3> QED BY <3>2, <3>3, <2>3
  <2> QED BY <1>3, <1>1, <2>1, <2>3, <2>4
<1> QED BY <1>1, <1>2, <1>3

LEMMA DaysFacts ==
    ASSUME NEW m \in Machines
    PROVE  _cooldown_days(m) \in Nat
BY StrategyHealthAssumption DEF _cooldown_days

LEMMA RiskFacts ==
    ASSUME NEW m \in Machines
    PROVE  /\ risk_multiplier(m) \in 0 .. 100
           /\ risk_multiplier(m) > 0 => Allowed(m)
<1>1. m.status \in Statuses /\ m.stage \in -1 .. Len(Stages) - 1  BY DEF Machines
<1>2. ASSUME m.stage >= 0 PROVE Stages[m.stage + 1] \in 1 .. 100
  <2>1. Stages \in Seq(1 .. 100) /\ Len(Stages) \in Nat  BY StrategyHealthAssumption
  <2>2. m.stage + 1 \in 1 .. Len(Stages)  BY <1>1, <1>2, <2>1
  <2> QED BY <2>1, <2>2, ElementOfSeq
<1>3. ProbationRisk \in 0 .. 100 /\ RecoveryRisk \in 0 .. 100
  BY StrategyHealthAssumption
<1>4. CASE m.status = "active"
  BY <1>4 DEF risk_multiplier, Allowed
<1>5. CASE m.status = "probation"
  <2>1. risk_multiplier(m) = IF m.stage >= 0 THEN Stages[m.stage + 1]
                             ELSE IF _extended_recovery(m) THEN RecoveryRisk ELSE ProbationRisk
    BY <1>5 DEF risk_multiplier
  <2>2. m.stage >= 0 => risk_multiplier(m) \in 0 .. 100  BY <2>1, <1>2
  <2>3. m.stage < 0 => risk_multiplier(m) \in 0 .. 100  BY <2>1, <1>1, <1>3
  <2>4. m.stage \in Int  BY <1>1
  <2> QED BY <2>2, <2>3, <2>4, <1>5 DEF Allowed
<1>6. CASE ~Allowed(m)
  <2>1. m.status # "active" /\ m.status # "probation"  BY <1>6 DEF Allowed
  <2>2. risk_multiplier(m) = 0  BY <2>1 DEF risk_multiplier
  <2> QED BY <2>2
<1> QED BY <1>4, <1>5, <1>6 DEF Allowed

-----------------------------------------------------------------------------
(* Records of machines.                                                    *)

LEMMA MapIsSeq ==
    ASSUME NEW S, NEW s \in Seq(S), NEW f, DOMAIN f = DOMAIN s, f = [i \in DOMAIN f |-> f[i]],
           \A i \in DOMAIN s : f[i] \in S
    PROVE  f \in Seq(S)
<1>1. PICK n \in Nat : DOMAIN s = 1 .. n
  <2>1. Len(s) \in Nat /\ DOMAIN s = 1 .. Len(s)  OBVIOUS
  <2> QED BY <2>1
<1>2. f \in [1 .. n -> S]  BY <1>1
<1> QED BY <1>2, SeqDef

LEMMA FieldsOf ==
    ASSUME NEW m \in Machines
    PROVE  /\ m.status \in Statuses /\ m.stage \in -1 .. Len(Stages) - 1 /\ m.failed \in 0 .. MaxFailed
           /\ m.left \in Nat \cup {None} /\ m.started \in None .. StageDays /\ m.fresh \in Seq(Cohorts)
           /\ m.base \in SUBSET Open /\ m.old \in 0 .. 100 /\ m.rest \in 0 .. Climb
BY DEF Machines

LEMMA NoneIsStarted == None \in None .. StageDays /\ 0 \in None .. StageDays /\ None \in Int
BY StrategyHealthAssumption DEF None

LEMMA JudgedFacts ==
    ASSUME NEW m \in Machines, NEW evidence
    PROVE  LET j == Judged(m, evidence)
           IN  /\ j \in Machines
               /\ j.status = m.status /\ j.stage = m.stage /\ j.failed = m.failed /\ j.left = m.left
               /\ j.started = m.started /\ j.base = m.base /\ j.old = m.old /\ j.rest = m.rest
<1> DEFINE f == [i \in DOMAIN m.fresh |->
        IF i \in evidence THEN [m.fresh[i] EXCEPT !.judged = TRUE] ELSE m.fresh[i]]
<1>1. m.fresh \in Seq(Cohorts)  BY DEF Machines
<1>2. \A i \in DOMAIN m.fresh : f[i] \in Cohorts
  <2> TAKE i \in DOMAIN m.fresh
  <2>1. m.fresh[i] \in Cohorts  BY <1>1
  <2> QED BY <2>1 DEF Cohorts
<1>3. f \in Seq(Cohorts)
  <2> HIDE DEF f
  <2>1. DOMAIN f = DOMAIN m.fresh /\ f = [i \in DOMAIN f |-> f[i]]  BY DEF f
  <2> QED BY <1>1, <1>2, <2>1, MapIsSeq
<1>4. Judged(m, evidence) = [m EXCEPT !.fresh = f]  BY DEF Judged
<1> QED BY <1>3, <1>4 DEF Machines

LEMMA RebasedFacts ==
    ASSUME NEW m \in Machines
    PROVE  LET r == Rebased(m)
           IN  /\ r \in Machines /\ r.fresh = <<>>
               /\ r.status = m.status /\ r.stage = m.stage /\ r.failed = m.failed /\ r.left = m.left
               /\ r.started = m.started /\ r.old = m.old /\ r.rest = m.rest
<1>1. <<>> \in Seq(Cohorts)  OBVIOUS
<1> QED BY <1>1 DEF Rebased, Machines
-----------------------------------------------------------------------------
(* evaluate keeps a machine sane.                                          *)

LEMMA CooldownSane ==
    ASSUME NEW m \in Machines, m.old = 0
    PROVE  /\ Sane(_enter_cooldown(m)) /\ _enter_cooldown(m).status = "cooldown"
           /\ _enter_cooldown(m).left \in Nat
<1> DEFINE c == _enter_cooldown(m)
<1> DEFINE stage == IF Unified THEN 0 ELSE m.stage
           days == _cooldown_days(m)
<1>1. days \in Nat /\ 0 \in 0 .. Climb  BY DaysFacts, ClimbFacts
<1>2. Unified => 0 \in -1 .. Len(Stages) - 1  BY ClimbFacts
<1>3. stage \in -1 .. Len(Stages) - 1  BY <1>2, FieldsOf
<1>4. c = [m EXCEPT !.status = "cooldown", !.left = days, !.started = None,
                    !.stage = stage, !.rest = 0]
  BY DEF _enter_cooldown
<1> HIDE DEF stage, days, c
<1>5. c \in Machines
  BY <1>1, <1>3, <1>4, NoneIsStarted DEF Machines, Statuses
<1>6. c \in Machines /\ c.status = "cooldown" /\ c.old = 0 /\ c.left = days
  BY <1>4, <1>5 DEF Machines
<1>7. Clean(c) /\ Climbed(c)  BY <1>6 DEF Clean, Climbed, Allowed
<1> QED BY <1>1, <1>6, <1>7 DEF Sane, c

LEMMA ProbationSane ==
    ASSUME NEW m \in Machines, m.old = 0, NEW stage \in -1 .. Len(Stages) - 1,
           Unified => stage \in 0 .. Len(Stages) - 2 /\ m.rest >= stage * StageDays
    PROVE  Sane(ToProbation(m, stage))
<1> DEFINE r == Rebased(m)
           p == ToProbation(m, stage)
<1>1. r \in Machines /\ r.fresh = <<>> /\ r.old = 0 /\ r.rest = m.rest  BY RebasedFacts
<1>2. p = [r EXCEPT !.status = "probation", !.started = 0, !.stage = stage]  BY DEF ToProbation
<1>3. StageDays \in Nat  BY StrategyHealthAssumption
<1> HIDE DEF r, p
<1>4. /\ p \in Machines /\ p.fresh = <<>> /\ p.old = 0 /\ p.rest = m.rest /\ p.status = "probation"
      /\ p.stage = stage /\ p.started = 0
  BY <1>1, <1>2, NoneIsStarted DEF Machines, Statuses
<1>5. Clean(p)  BY <1>4 DEF Clean
<1>6. Climbed(p)
  <2>1. SUFFICES ASSUME Unified
                 PROVE  p.stage \in 0 .. Len(Stages) - 2 /\ p.rest >= p.stage * StageDays
                        /\ p.rest >= p.stage * StageDays + p.started
    BY <1>4 DEF Climbed
  <2>2. stage * StageDays \in Nat  BY <2>1, <1>3, StrategyHealthAssumption, Multiples, ClimbFacts
  <2> QED BY <2>1, <2>2, <1>4
<1> QED BY <1>4, <1>5, <1>6 DEF Sane, p

LEMMA ResumedSane ==
    ASSUME NEW m \in Machines, m.old = 0, Unified => m.rest >= Climb
    PROVE  Sane(Resumed(m))
<1> DEFINE r == Rebased(m)
           a == Resumed(m)
<1>1. r \in Machines /\ r.fresh = <<>> /\ r.old = 0 /\ r.rest = m.rest  BY RebasedFacts
<1>2. a = [r EXCEPT !.status = "active", !.stage = -1, !.left = None, !.started = None, !.failed = 0]
  BY DEF Resumed
<1>3. 0 \in 0 .. MaxFailed /\ -1 \in -1 .. Len(Stages) - 1 /\ None \in Nat \cup {None}
  BY StrategyHealthAssumption
<1> HIDE DEF r, a
<1>4. /\ a \in Machines /\ a.fresh = <<>> /\ a.old = 0 /\ a.rest = m.rest /\ a.status = "active"
  BY <1>1, <1>2, <1>3, NoneIsStarted DEF Machines, Statuses
<1>5. Clean(a) /\ Climbed(a)  BY <1>4 DEF Clean, Climbed
<1> QED BY <1>4, <1>5 DEF Sane, a

LEMMA FailSane ==
    ASSUME NEW m \in Machines, m.old = 0
    PROVE  Sane(_fail_probation(m))
<1> DEFINE j == Judged(m, _probation_cohorts(m))
           f == [j EXCEPT !.failed = Min2(@ + 1, MaxFailed)]
<1>1. j \in Machines /\ j.old = 0  BY JudgedFacts
<1>2. MaxFailed \in Nat \ {0} /\ Len(Stages) \in Nat /\ Climb \in Nat
  BY StrategyHealthAssumption, ClimbFacts
<1> HIDE DEF j
<1>3. Min2(j.failed + 1, MaxFailed) \in 0 .. MaxFailed
  BY <1>1, <1>2 DEF Machines, Min2
<1>4. f \in Machines /\ f.old = 0  BY <1>1, <1>3 DEF Machines
<1> HIDE DEF f
<1>5. CASE f.failed < MaxFailed
  BY <1>4, <1>5, CooldownSane DEF _fail_probation, f, j
<1>6. CASE ~(f.failed < MaxFailed) /\ Extends
  <2> DEFINE stage == IF Stages = <<>> THEN -1 ELSE 0
             g == [f EXCEPT !.stage = stage]
  <2>1. Stages # <<>> => Len(Stages) > 0  BY StrategyHealthAssumption
  <2>3. _fail_probation(m) = _enter_cooldown(g)  BY <1>6 DEF _fail_probation, f, j
  <2>4. stage \in -1 .. Len(Stages) - 1  BY <1>2, <2>1
  <2> HIDE DEF stage
  <2>2. g \in Machines /\ g.old = 0  BY <1>4, <2>4 DEF Machines
  <2> HIDE DEF g
  <2> QED BY <2>2, <2>3, CooldownSane
<1>7. CASE ~(f.failed < MaxFailed) /\ ~Extends
  <2> DEFINE l == [f EXCEPT !.status = "manual_lock", !.left = None, !.rest = 0]
  <2>3. 0 \in 0 .. Climb /\ None \in Nat \cup {None}  BY <1>2
  <2>1. l \in Machines /\ l.old = 0 /\ l.status = "manual_lock"
    BY <1>4, <2>3 DEF Machines, Statuses
  <2>2. _fail_probation(m) = l  BY <1>7 DEF _fail_probation, f, j
  <2> QED BY <2>1, <2>2 DEF Sane, Clean, Climbed, Allowed
<1> QED BY <1>5, <1>6, <1>7

(* A stage is left upwards only after its days: that is where risk grows.  *)
LEMMA PassedSane ==
    ASSUME NEW m, Sane(m), m.status = "probation", m.stage >= 0 => m.started >= StageDays
    PROVE  Sane(Passed(m))
<1> DEFINE j == Judged(m, _probation_cohorts(m))
<1>1. m \in Machines /\ m.old = 0 /\ Climbed(m)  BY DEF Sane
<1>2. /\ m.stage \in -1 .. Len(Stages) - 1 /\ m.rest \in Nat /\ m.started \in Int
  BY <1>1, FieldsOf, ClimbFacts, NoneIsStarted, StrategyHealthAssumption
<1>3. StageDays \in Nat \ {0} /\ Len(Stages) \in Nat  BY StrategyHealthAssumption
<1>4. j \in Machines /\ j.old = 0 /\ j.rest = m.rest /\ j.stage = m.stage
  BY <1>1, JudgedFacts
<1> HIDE DEF j
<1>5. Unified => /\ m.stage \in 0 .. Len(Stages) - 2 /\ m.stage * StageDays \in Nat
                 /\ (m.stage + 1) * StageDays = m.stage * StageDays + StageDays
                 /\ m.rest >= m.stage * StageDays + StageDays
  <2> SUFFICES ASSUME Unified
               PROVE  /\ m.stage \in 0 .. Len(Stages) - 2 /\ m.stage * StageDays \in Nat
                      /\ (m.stage + 1) * StageDays = m.stage * StageDays + StageDays
                      /\ m.rest >= m.stage * StageDays + StageDays
    OBVIOUS
  <2>1. m.stage \in 0 .. Len(Stages) - 2 /\ m.rest >= m.stage * StageDays + m.started
    BY <1>1 DEF Climbed
  <2>2. m.stage \in Nat /\ m.started >= StageDays  BY <2>1, <1>3
  <2>3. m.stage * StageDays \in Nat /\ (m.stage + 1) * StageDays = m.stage * StageDays + StageDays
    BY <2>2, <1>3, Multiples
  <2> QED BY <2>1, <2>2, <2>3, <1>2, <1>3
<1>6. CASE m.stage >= 0 /\ m.stage < Len(Stages) - 2
  <2>1. Passed(m) = ToProbation(j, m.stage + 1)  BY <1>6 DEF Passed, j
  <2>2. m.stage + 1 \in -1 .. Len(Stages) - 1  BY <1>2, <1>3, <1>6
  <2>3. Unified => m.stage + 1 \in 0 .. Len(Stages) - 2 /\ j.rest >= (m.stage + 1) * StageDays
    BY <1>2, <1>3, <1>4, <1>5, <1>6
  <2> QED BY <1>4, <2>1, <2>2, <2>3, ProbationSane
<1>7. CASE ~(m.stage >= 0 /\ m.stage < Len(Stages) - 2)
  <2>1. Passed(m) = Resumed(j)  BY <1>7 DEF Passed, j
  <2>2. ASSUME Unified PROVE j.rest >= Climb
    <3>1. m.stage = Len(Stages) - 2 /\ m.stage + 1 = Len(Stages) - 1
      BY <2>2, <1>2, <1>3, <1>5, <1>7
    <3>2. Climb = (m.stage + 1) * StageDays  BY <2>2, <3>1, ClimbFacts
    <3> QED BY <2>2, <3>2, <1>4, <1>5
  <2> QED BY <1>4, <2>1, <2>2, ResumedSane
<1> QED BY <1>6, <1>7

(* A total is a number, so it is above the gate or it is not.              *)
Total(m) == probation_total_r(m) \in Int

LEMMA TotalIsInt ==
    ASSUME NEW m, Sane(m)
    PROVE  Total(m)
<1>1. m.fresh \in Seq(Cohorts)  BY FieldsOf DEF Sane
<1>2. IsFiniteSet(1 .. Len(m.fresh)) /\ DOMAIN m.fresh = 1 .. Len(m.fresh)
  <2>1. Len(m.fresh) \in Int /\ 1 \in Int /\ DOMAIN m.fresh = 1 .. Len(m.fresh)  BY <1>1
  <2> QED BY <2>1, FS_Interval
<1>3. Winners(m) \subseteq 1 .. Len(m.fresh) /\ Losers(m) \subseteq 1 .. Len(m.fresh)
  BY <1>2 DEF Winners, Losers, _probation_cohorts
<1>4. Cardinality(Winners(m)) \in Nat /\ Cardinality(Losers(m)) \in Nat
  BY <1>2, <1>3, FS_Subset, FS_CardinalityType
<1> QED BY <1>4 DEF Total, probation_total_r

LEMMA EvaluateProbationSane ==
    ASSUME NEW u, Sane(u), u.status = "probation"
    PROVE  Sane(EvaluateProbation(u))
<1> DEFINE m == IF u.started = None THEN [u EXCEPT !.started = 0] ELSE u
<1>1. u \in Machines /\ u.old = 0 /\ Clean(u) /\ Climbed(u)  BY DEF Sane
<1>2. Sane(m) /\ m.status = "probation"
  <2>1. CASE u.started # None  BY <2>1
  <2>2. CASE u.started = None
    <3> DEFINE v == [u EXCEPT !.started = 0]
    <3>1. /\ v \in Machines /\ v.old = 0 /\ v.started = 0 /\ v.status = "probation" /\ v.fresh = u.fresh
          /\ v.stage = u.stage /\ v.rest = u.rest
      BY <1>1, NoneIsStarted DEF Machines
    <3>2. Clean(v)  BY <1>1, <3>1 DEF Clean, Allowed
    <3>3. Unified => u.stage * StageDays \in Nat
      BY <1>1, Multiples, StrategyHealthAssumption, ClimbFacts DEF Climbed
    <3>4. Climbed(v)  BY <1>1, <3>1, <3>3 DEF Climbed
    <3> QED BY <2>2, <3>1, <3>2, <3>4 DEF Sane
  <2> QED BY <2>1, <2>2
<1> HIDE DEF m
<1>3. m \in Machines /\ m.old = 0 /\ m.started \in Int /\ StageDays \in Int
  BY <1>2, FieldsOf, NoneIsStarted, StrategyHealthAssumption DEF Sane
<1>4. \/ EvaluateProbation(u) = m
      \/ EvaluateProbation(u) = _fail_probation(m)
      \/ /\ EvaluateProbation(u) = Passed(m) /\ ~(m.stage >= 0 /\ m.started < StageDays)
  <2> DEFINE few == Cardinality(_probation_cohorts(m)) < Required
             young == m.stage >= 0 /\ m.started < StageDays
             thin == \/ Cardinality(probation_symbols(m)) < MinSymbols
                     \/ WithoutBest /\ probation_r_without_best(m) <= 0
             won == probation_total_r(m) > 0
             lost == probation_total_r(m) <= 0
  <2>1. EvaluateProbation(u) = IF few \/ (won /\ (young \/ thin)) THEN m
                               ELSE IF lost THEN _fail_probation(m) ELSE Passed(m)
    BY DEF EvaluateProbation, m
  <2>2. Total(m) => (won \/ lost)  BY DEF Total
  <2> QED BY <2>1, <2>2, TotalIsInt, <1>2
<1>5. m.stage \in Int  BY <1>3, FieldsOf, StrategyHealthAssumption
<1>6. ~(m.stage >= 0 /\ m.started < StageDays) => (m.stage >= 0 => m.started >= StageDays)
  BY <1>3, <1>5
<1> QED BY <1>2, <1>3, <1>4, <1>6, FailSane, PassedSane

LEMMA EvaluateSane ==
    ASSUME NEW m, Sane(m)
    PROVE  Sane(Evaluate(m))
<1>1. m \in Machines /\ m.old = 0 /\ m.status \in Statuses  BY FieldsOf DEF Sane
<1>2. CASE m.status = "active"
  <2> DEFINE streak == consecutive_negative_cohorts(m)
             j == Judged(m, (Len(m.fresh) - streak + 1) .. Len(m.fresh))
  <2>1. Evaluate(m) = IF streak < StreakLimit THEN m ELSE _enter_cooldown(j)
    BY <1>2 DEF Evaluate, EvaluateActive
  <2>2. j \in Machines /\ j.old = 0  BY <1>1, JudgedFacts
  <2> HIDE DEF j, streak
  <2> QED BY <2>1, <2>2, CooldownSane
<1>3. CASE m.status = "cooldown"
  <2> DEFINE a == IF m.left = None THEN [m EXCEPT !.left = _cooldown_days(m)] ELSE m
  <2>1. /\ a \in Machines /\ a.old = 0 /\ a.status = "cooldown" /\ a.stage = m.stage /\ a.rest = m.rest
    <3> DEFINE days == _cooldown_days(m)
    <3>1. days \in Nat  BY <1>1, DaysFacts
    <3> HIDE DEF days
    <3>2. [m EXCEPT !.left = days] \in Machines  BY <1>1, <3>1 DEF Machines
    <3>3. LET d == [m EXCEPT !.left = days]
          IN  d.old = 0 /\ d.status = "cooldown" /\ d.stage = m.stage /\ d.rest = m.rest
      BY <1>1, <1>3 DEF Machines
    <3>4. a = m \/ a = [m EXCEPT !.left = days]
      BY DEF days
    <3> HIDE DEF a
    <3> QED BY <1>1, <1>3, <3>2, <3>3, <3>4
  <2>2. Evaluate(m) = IF a.left = 0 THEN ToProbation(a, EntryStage(m)) ELSE a
    BY <1>3 DEF Evaluate, EvaluateCooldown
  <2> HIDE DEF a
  <2>3. Sane(a)  BY <2>1 DEF Sane, Clean, Climbed, Allowed
  <2>4. EntryStage(m) \in -1 .. Len(Stages) - 1  BY <1>1, FieldsOf, ClimbFacts DEF EntryStage
  <2>5. ASSUME Unified PROVE EntryStage(m) \in 0 .. Len(Stages) - 2 /\ a.rest >= EntryStage(m) * StageDays
    <3>1. EntryStage(m) = 0 /\ 0 \in 0 .. Len(Stages) - 2  BY <2>5, ClimbFacts DEF EntryStage
    <3>2. 0 * StageDays = 0  BY StrategyHealthAssumption, Multiples
    <3>3. a.rest >= 0  BY <2>1, FieldsOf, ClimbFacts
    <3> QED BY <3>1, <3>2, <3>3
  <2> QED BY <2>1, <2>2, <2>3, <2>4, <2>5, ProbationSane
<1>4. CASE m.status = "probation"
  <2>1. Evaluate(m) = EvaluateProbation(m)  BY <1>4 DEF Evaluate
  <2> QED BY <1>4, <2>1, EvaluateProbationSane
<1>5. CASE m.status = "manual_lock"
  <2>1. Evaluate(m) = m  BY <1>5 DEF Evaluate
  <2> QED BY <2>1
<1> QED BY <1>1, <1>2, <1>3, <1>4, <1>5 DEF Statuses

(* While a halt is owed, evaluating changes nothing.                       *)
LEMMA EvaluateHalts ==
    ASSUME NEW m, Sane(m), NEW o \in Nat, NEW l \in BOOLEAN, Halts(m, o, l), o > 0 \/ l
    PROVE  Evaluate(m) = m
<1>1. m \in Machines  BY DEF Sane
<1>2. CASE m.status = "manual_lock"  BY <1>2 DEF Evaluate
<1>3. CASE m.status = "cooldown" /\ m.left >= o /\ o > 0
  <2>1. m.left # None /\ m.left # 0
    <3>1. m.left \in Int  BY <1>1, FieldsOf, NoneIsStarted
    <3> QED BY <1>3, <3>1 DEF None
  <2>2. EvaluateCooldown(m) = m  BY <2>1 DEF EvaluateCooldown
  <2> QED BY <1>3, <2>2 DEF Evaluate
<1> QED BY <1>2, <1>3 DEF Halts

-----------------------------------------------------------------------------
(* Closes, days and restarts keep a machine sane, and a halt in it.        *)

LEMMA FoldedSane ==
    ASSUME NEW m, Sane(m), NEW s \in Symbols, NEW by \in Controllers,
           NEW result \in {-1, 1}, NEW age \in {0, 1}
    PROVE  LET f == Folded(m, s, by, result, age)
           IN  Sane(f) /\ f.status = m.status /\ f.left = m.left
<1>1. m \in Machines /\ m.old = 0 /\ m.fresh \in Seq(Cohorts)  BY FieldsOf DEF Sane
<1>2. age \in 0 .. StageDays + 1  BY StrategyHealthAssumption
<1>3. ASSUME NEW q \in Seq(Cohorts),
             Clean(m) => (Allowed(m) => \A i \in DOMAIN q : ~q[i].judged)
      PROVE  LET f == [m EXCEPT !.fresh = q]
             IN  Sane(f) /\ f.status = m.status /\ f.left = m.left
  <2> DEFINE f == [m EXCEPT !.fresh = q]
  <2>1. /\ f \in Machines /\ f.old = 0 /\ f.fresh = q /\ f.status = m.status /\ f.left = m.left
        /\ f.stage = m.stage /\ f.rest = m.rest /\ f.started = m.started
    BY <1>1 DEF Machines
  <2> HIDE DEF f
  <2>2. Clean(f) /\ Climbed(f)  BY <1>3, <2>1 DEF Sane, Clean, Climbed, Allowed
  <2> QED BY <2>1, <2>2 DEF Sane, f
<1>4. CASE <<age, by>> \in m.base  BY <1>4 DEF Folded
<1>5. CASE <<age, by>> \notin m.base /\ Indices(m, by, age) # {}
  <2> DEFINE q == [i \in DOMAIN m.fresh |->
            IF i \in Indices(m, by, age) THEN add(m.fresh[i], s, result) ELSE m.fresh[i]]
  <2>1. \A i \in DOMAIN m.fresh : q[i] \in Cohorts /\ q[i].judged = m.fresh[i].judged
    <3> TAKE i \in DOMAIN m.fresh
    <3>1. m.fresh[i] \in Cohorts /\ result \in Int  BY <1>1
    <3> DEFINE d == add(m.fresh[i], s, result)
    <3>2. d \in Cohorts /\ d.judged = m.fresh[i].judged
      <4> DEFINE n == m.fresh[i].net + result
                 y == m.fresh[i].symbols \cup {s}
      <4>1. n \in Int /\ y \in SUBSET Symbols  BY <3>1 DEF Cohorts
      <4> HIDE DEF n, y
      <4>2. d = [m.fresh[i] EXCEPT !.net = n, !.symbols = y]  BY DEF n, y, add
      <4> QED BY <3>1, <4>1, <4>2 DEF Cohorts
    <3>3. q[i] = IF i \in Indices(m, by, age) THEN d ELSE m.fresh[i]  OBVIOUS
    <3> HIDE DEF d, q
    <3> QED BY <3>1, <3>2, <3>3
  <2>2. DOMAIN q = DOMAIN m.fresh /\ q = [i \in DOMAIN q |-> q[i]]  OBVIOUS
  <2>3. Folded(m, s, by, result, age) = [m EXCEPT !.fresh = q]
    BY <1>5 DEF Folded
  <2> HIDE DEF q
  <2>4. q \in Seq(Cohorts)  BY <1>1, <2>1, <2>2, MapIsSeq
  <2>5. Clean(m) => (Allowed(m) => \A i \in DOMAIN q : ~q[i].judged)  BY <2>1, <2>2 DEF Clean
  <2> QED BY <1>3, <2>3, <2>4, <2>5
<1>6. CASE <<age, by>> \notin m.base /\ Indices(m, by, age) = {}
  <2> DEFINE c == [age |-> age, by |-> by, net |-> result, symbols |-> {s}, judged |-> FALSE]
             q == Append(m.fresh, c)
  <2>1. c \in Cohorts /\ ~c.judged  BY <1>2 DEF Cohorts
  <2>2. Folded(m, s, by, result, age) = [m EXCEPT !.fresh = q]  BY <1>6 DEF Folded
  <2> HIDE DEF c
  <2>3. /\ q \in Seq(Cohorts) /\ DOMAIN q = 1 .. Len(m.fresh) + 1
        /\ \A i \in 1 .. Len(m.fresh) : q[i] = m.fresh[i] /\ q[Len(m.fresh) + 1] = c
    BY <1>1, <2>1, AppendProperties
  <2>4. q[Len(m.fresh) + 1] = c /\ Len(m.fresh) \in Nat /\ DOMAIN m.fresh = 1 .. Len(m.fresh)
    BY <1>1, <2>1, AppendProperties
  <2> HIDE DEF q
  <2>5. Clean(m) => (Allowed(m) => \A i \in DOMAIN q : ~q[i].judged)
    <3> SUFFICES ASSUME \A i \in DOMAIN m.fresh : ~m.fresh[i].judged, NEW i \in DOMAIN q
                 PROVE  ~q[i].judged
      BY DEF Clean
    <3>1. i \in 1 .. Len(m.fresh) \/ i = Len(m.fresh) + 1  BY <2>3, <2>4
    <3> QED BY <3>1, <2>1, <2>3, <2>4
  <2> QED BY <1>3, <2>2, <2>3, <2>5
<1> QED BY <1>4, <1>5, <1>6

LEMMA AgedCohortFacts ==
    ASSUME NEW c \in Cohorts, NEW started \in Int
    PROVE  AgedCohort(c, started) \in Cohorts /\ AgedCohort(c, started).judged = c.judged
<1> DEFINE cap == IF c.age <= started THEN StageDays ELSE StageDays + 1
           a == Min2(c.age + 1, cap)
           n == IF c.age = 0 THEN c.net ELSE Sign(c.net)
           by == IF <<c.age + 1, c.by>> \in Open THEN c.by ELSE Shut
<1>1. c.age \in 0 .. StageDays + 1 /\ c.net \in Int  BY DEF Cohorts
<1>2. StageDays \in Nat  BY StrategyHealthAssumption
<1>3. a \in 0 .. StageDays + 1  BY <1>1, <1>2 DEF Min2
<1>4. n \in Int  BY <1>1 DEF Sign
<1>5. by \in Controllers \cup {Shut}  BY DEF Cohorts
<1>6. AgedCohort(c, started) = [c EXCEPT !.by = by, !.age = a, !.net = n]  BY DEF AgedCohort
<1> HIDE DEF a, n, by, cap
<1> QED BY <1>3, <1>4, <1>5, <1>6 DEF Cohorts

LEMMA AgedFacts ==
    ASSUME NEW m \in Machines
    PROVE  LET a == Aged(m)
           IN  /\ a \in Machines
               /\ a.status = m.status /\ a.stage = m.stage /\ a.old = m.old
               /\ DOMAIN a.fresh = DOMAIN m.fresh
               /\ \A i \in DOMAIN m.fresh : a.fresh[i].judged = m.fresh[i].judged
               /\ a.left = IF m.left = None THEN None ELSE Max2(m.left - 1, 0)
               /\ a.started = IF m.started = None THEN None ELSE Min2(m.started + 1, StageDays)
               /\ a.rest = IF Allowed(m) THEN Min2(m.rest + 1, Climb) ELSE 0
<1> DEFINE left == IF m.left = None THEN None ELSE Max2(m.left - 1, 0)
           started == IF m.started = None THEN None ELSE Min2(m.started + 1, StageDays)
           fresh == [i \in DOMAIN m.fresh |-> AgedCohort(m.fresh[i], m.started)]
           base == Open \cap {<<b[1] + 1, b[2]>> : b \in m.base}
           rest == IF Allowed(m) THEN Min2(m.rest + 1, Climb) ELSE 0
<1>1. /\ m.left \in Nat \cup {None} /\ m.started \in None .. StageDays /\ m.fresh \in Seq(Cohorts)
      /\ m.rest \in 0 .. Climb /\ StageDays \in Nat /\ Climb \in Nat
  BY FieldsOf, ClimbFacts, StrategyHealthAssumption
<1>2. left \in Nat \cup {None}
  <2>1. CASE m.left = None  BY <2>1
  <2>2. CASE m.left # None  BY <2>2, <1>1 DEF Max2
  <2> QED BY <2>1, <2>2
<1>3. started \in None .. StageDays
  <2>1. CASE m.started = None  BY <2>1, NoneIsStarted
  <2>2. CASE m.started # None
    <3>1. m.started \in 0 .. StageDays  BY <2>2, <1>1 DEF None
    <3> QED BY <2>2, <3>1, <1>1 DEF Min2, None
  <2> QED BY <2>1, <2>2
<1>4. \A i \in DOMAIN m.fresh : fresh[i] \in Cohorts /\ fresh[i].judged = m.fresh[i].judged
  <2> TAKE i \in DOMAIN m.fresh
  <2>1. m.fresh[i] \in Cohorts /\ m.started \in Int  BY <1>1 DEF None
  <2> QED BY <2>1, AgedCohortFacts
<1>5. DOMAIN fresh = DOMAIN m.fresh /\ fresh = [i \in DOMAIN fresh |-> fresh[i]]  OBVIOUS
<1>6. rest \in 0 .. Climb
  <2>1. Min2(m.rest + 1, Climb) \in 0 .. Climb  BY <1>1 DEF Min2
  <2> QED BY <2>1, <1>1
<1>7. base \in SUBSET Open  OBVIOUS
<1>8. Aged(m) = [m EXCEPT !.left = left, !.started = started, !.fresh = fresh, !.base = base, !.rest = rest]
  BY DEF Aged
<1> HIDE DEF left, started, fresh, base, rest
<1>9. fresh \in Seq(Cohorts)  BY <1>1, <1>4, <1>5, MapIsSeq
<1>10. Aged(m) \in Machines  BY <1>2, <1>3, <1>6, <1>7, <1>8, <1>9 DEF Machines
<1>11. /\ Aged(m).status = m.status /\ Aged(m).stage = m.stage /\ Aged(m).old = m.old
       /\ Aged(m).fresh = fresh /\ Aged(m).left = left /\ Aged(m).started = started /\ Aged(m).rest = rest
  BY <1>8 DEF Machines
<1> QED BY <1>4, <1>5, <1>10, <1>11 DEF left, started, rest

LEMMA AgedSane ==
    ASSUME NEW m, Sane(m)
    PROVE  Sane(Aged(m))
<1> DEFINE a == Aged(m)
<1>1. m \in Machines /\ m.old = 0 /\ Clean(m) /\ Climbed(m)  BY DEF Sane
<1>2. /\ a \in Machines /\ a.status = m.status /\ a.stage = m.stage /\ a.old = 0
      /\ DOMAIN a.fresh = DOMAIN m.fresh
      /\ \A i \in DOMAIN m.fresh : a.fresh[i].judged = m.fresh[i].judged
      /\ a.started = IF m.started = None THEN None ELSE Min2(m.started + 1, StageDays)
      /\ a.rest = IF Allowed(m) THEN Min2(m.rest + 1, Climb) ELSE 0
  BY <1>1, AgedFacts
<1>3. /\ m.started \in None .. StageDays /\ m.rest \in 0 .. Climb /\ StageDays \in Nat \ {0} /\ Climb \in Nat
  BY <1>1, FieldsOf, ClimbFacts, StrategyHealthAssumption
<1> HIDE DEF a
<1>4. Clean(a)  BY <1>1, <1>2 DEF Clean, Allowed
<1>5. ASSUME Unified, m.status = "probation"
      PROVE  a.rest >= m.stage * StageDays /\ a.rest >= m.stage * StageDays + a.started
  <2>1. /\ m.stage \in 0 .. Len(Stages) - 2 /\ m.rest >= m.stage * StageDays
        /\ m.rest >= m.stage * StageDays + m.started
    BY <1>1, <1>5 DEF Climbed
  <2>2. m.stage * StageDays + StageDays <= Climb  BY <1>5, <2>1, ClimbFacts
  <2>3. m.stage * StageDays \in Nat  BY <1>3, <1>5, <2>1, Multiples, ClimbFacts
  <2>4. a.rest = Min2(m.rest + 1, Climb)  BY <1>2, <1>5 DEF Allowed
  <2> DEFINE k == m.stage * StageDays
  <2> HIDE DEF k
  <2>5. k \in Nat /\ m.rest >= k /\ m.rest >= k + m.started /\ k + StageDays <= Climb
    BY <2>1, <2>2, <2>3 DEF k
  <2>6. a.rest >= k  BY <2>4, <2>5, <1>3 DEF Min2
  <2>7. a.rest >= k + a.started
    <3>1. CASE m.started = None
      <4>1. a.started = -1  BY <3>1, <1>2 DEF None
      <4>2. a.rest \in Int  BY <2>4, <1>3 DEF Min2
      <4> QED BY <4>1, <4>2, <2>5, <2>6
    <3>2. CASE m.started # None
      <4>1. a.started = Min2(m.started + 1, StageDays) /\ m.started \in Nat
        BY <3>2, <1>2, <1>3 DEF None
      <4> QED BY <4>1, <2>4, <2>5, <1>3 DEF Min2
    <3> QED BY <3>1, <3>2
  <2> QED BY <2>6, <2>7 DEF k
<1>6. ASSUME Unified, m.status = "active" PROVE a.rest >= Climb
  <2>1. a.rest = Min2(m.rest + 1, Climb) /\ m.rest >= Climb
    BY <1>1, <1>2, <1>6 DEF Allowed, Climbed
  <2> QED BY <2>1, <1>3 DEF Min2
<1>7. Climbed(a)  BY <1>1, <1>2, <1>5, <1>6 DEF Climbed
<1> QED BY <1>2, <1>4, <1>7 DEF Sane, a

LEMMA InheritedAges ==
    ASSUME NEW r, Inherited(r)
    PROVE  Inherited(Aged(r))
<1> DEFINE a == Aged(r)
<1>1. r \in Machines /\ r.fresh = <<>>  BY DEF Inherited
<1>2. /\ a \in Machines /\ a.status = r.status /\ a.stage = r.stage /\ a.old = r.old
      /\ DOMAIN a.fresh = DOMAIN r.fresh
  BY <1>1, AgedFacts
<1> HIDE DEF a
<1>3. a.fresh = <<>>
  <2>1. a.fresh \in Seq(Cohorts)  BY <1>2, FieldsOf
  <2>2. DOMAIN a.fresh = {}  BY <1>1, <1>2
  <2>3. Len(a.fresh) \in Nat /\ DOMAIN a.fresh = 1 .. Len(a.fresh)  BY <2>1, LenProperties
  <2>4. Len(a.fresh) = 0
    <3>1. ASSUME Len(a.fresh) # 0 PROVE FALSE
      <4>1. 1 \in DOMAIN a.fresh  BY <2>3, <3>1
      <4> QED BY <4>1, <2>2
    <3> QED BY <3>1
  <2> QED BY <2>1, <2>4, EmptySeq
<1> QED BY <1>2, <1>3 DEF Inherited, a

LEMMA AgedHalts ==
    ASSUME NEW m \in Machines, NEW o \in Nat, NEW l \in BOOLEAN, Halts(m, o, l)
    PROVE  Halts(Aged(m), Max2(o - 1, 0), l)
<1>1. /\ Aged(m).status = m.status
      /\ Aged(m).left = IF m.left = None THEN None ELSE Max2(m.left - 1, 0)
  BY AgedFacts
<1>2. m.left \in Nat \cup {None}  BY FieldsOf
<1>3. ASSUME m.left >= o, o > 0 PROVE Aged(m).left >= Max2(o - 1, 0)
  <2>1. m.left \in Nat /\ m.left # None  BY <1>2, <1>3 DEF None
  <2> QED BY <2>1, <1>1, <1>3 DEF Max2
<1>4. Max2(o - 1, 0) > 0 => o > 0  BY DEF Max2
<1> QED BY <1>1, <1>3, <1>4 DEF Halts

LEMMA FiniteHasTop ==
    ASSUME NEW n \in Int, NEW S \in SUBSET (0 .. n), S # {}
    PROVE  \E i \in S : \A j \in S : j <= i
<1> DEFINE Gap == {n - i : i \in S}
<1>1. Gap \subseteq Nat /\ Gap # {}
  <2>1. ASSUME NEW i \in S PROVE n - i \in Nat
    <3>1. i \in 0 .. n  OBVIOUS
    <3> QED BY <3>1
  <2>2. Gap \subseteq Nat  BY <2>1
  <2>3. PICK i \in S : TRUE  OBVIOUS
  <2>4. n - i \in Gap  BY <2>3
  <2> QED BY <2>2, <2>4
<1>2. PICK g \in Gap : \A h \in Gap : g <= h
  <2> HIDE DEF Gap
  <2> DEFINE less == {ss \in Nat \X Nat : ss[1] < ss[2]}
  <2>1. IsWellFoundedOn(less, Nat)  BY NatLessThanWellFounded, Zenon DEF OpToRel
  <2> HIDE DEF less
  <2>2. \E g \in Gap : \A h \in Gap : ~(<<h, g>> \in less)  BY <1>1, <2>1, WFMin
  <2>3. ASSUME NEW g \in Gap, NEW h \in Gap, ~(<<h, g>> \in less)  PROVE g <= h
    <3>1. ~(h < g)  BY <1>1, <2>3 DEF less
    <3> QED BY <1>1, <3>1
  <2> QED BY <2>2, <2>3
<1>3. PICK i \in S : g = n - i  BY <1>2
<1>4. ASSUME NEW j \in S PROVE j <= i
  <2>1. n - i <= n - j  BY <1>2, <1>3
  <2> QED BY <2>1
<1> QED BY <1>4

(* What a restart makes of a row: the stage is no higher than before, and  *)
(* its days count anew.                                                    *)
LEMMA loadSane ==
    ASSUME NEW r, RowSane(r)
    PROVE  Sane(load(r))
<1>1. r \in Machines  BY DEF RowSane, Sane, Inherited
<1>2. CASE Unified /\ r.old > 0 /\ r.status = "probation"
  <2> DEFINE b == Rebased(r)
             m == [b EXCEPT !.started = None, !.old = 0]
             stages == Eligible(r.old)
             top == CHOOSE i \in stages : \A j \in stages : j <= i
             halted == [m EXCEPT !.status = "cooldown", !.stage = 0, !.left = None, !.rest = 0]
             staged == [m EXCEPT !.stage = top, !.rest = top * StageDays]
  <2>1. b \in Machines /\ b.fresh = <<>> /\ b.status = "probation"  BY <1>1, <1>2, RebasedFacts
  <2>2. load(r) = IF stages = {} THEN halted ELSE staged  BY <1>2 DEF load, Migrated
  <2>3. Len(Stages) \in Nat /\ Len(Stages) > 1 /\ StageDays \in Nat \ {0} /\ Climb \in Nat
    BY <1>2, ClimbFacts, StrategyHealthAssumption
  <2> HIDE DEF b
  <2>4. 0 \in 0 .. 100  OBVIOUS
  <2>5. /\ m \in Machines /\ m.old = 0 /\ m.fresh = <<>> /\ m.started = None /\ m.status = "probation"
    BY <2>1, <2>4, NoneIsStarted DEF Machines
  <2> HIDE DEF m
  <2>6. CASE stages = {}
    <3>1. 0 \in -1 .. Len(Stages) - 1 /\ None \in Nat \cup {None} /\ 0 \in 0 .. Climb  BY <2>3
    <3> DEFINE stage == 0  left == None  rest == 0
    <3>4. halted = [m EXCEPT !.status = "cooldown", !.stage = stage, !.left = left, !.rest = rest]  OBVIOUS
    <3>5. /\ stage \in -1 .. Len(Stages) - 1 /\ "cooldown" \in Statuses
          /\ left \in Nat \cup {None} /\ rest \in 0 .. Climb
      BY <3>1 DEF Statuses
    <3> HIDE DEF halted, stages, stage, left, rest
    <3>2. halted \in Machines  BY <3>5, <2>5, <3>4 DEF Machines
    <3>3. halted.old = 0 /\ halted.status = "cooldown"  BY <2>5, <3>4 DEF Machines
    <3> QED BY <2>2, <2>6, <3>2, <3>3 DEF Sane, Clean, Climbed, Allowed
  <2>7. CASE stages # {}
    <3>1. top \in 0 .. Len(Stages) - 2
      <4>1. stages \subseteq 0 .. Len(Stages) - 2  BY DEF Eligible
      <4> HIDE DEF stages
      <4>2. Len(Stages) - 2 \in Int  BY <2>3
      <4>3. \E i \in stages : \A j \in stages : j <= i  BY <4>1, <4>2, <2>7, FiniteHasTop
      <4>4. top \in stages  BY <4>3
      <4> QED BY <4>1, <4>4
    <3> HIDE DEF top
    <3>2. top \in Nat /\ top * StageDays \in Nat /\ top * StageDays <= Climb
      <4>1. top \in Nat /\ top * StageDays \in Nat  BY <3>1, <2>3, Multiples
      <4>2. top * StageDays + StageDays <= Climb  BY <1>2, <3>1, ClimbFacts
      <4> QED BY <4>1, <4>2, <2>3
    <3> DEFINE days == top * StageDays
    <3>3. days \in 0 .. Climb /\ top \in -1 .. Len(Stages) - 1  BY <3>1, <3>2, <2>3
    <3>4. staged = [m EXCEPT !.stage = top, !.rest = days]  OBVIOUS
    <3> HIDE DEF days, staged
    <3>5. /\ staged \in Machines /\ staged.old = 0 /\ staged.fresh = <<>> /\ staged.stage = top
          /\ staged.rest = days /\ staged.started = None /\ staged.status = "probation"
      BY <2>5, <3>3, <3>4 DEF Machines
    <3>6. Clean(staged)  BY <3>5 DEF Clean
    <3>7. days >= days + None /\ days = top * StageDays  BY <3>3, <2>3 DEF None, days
    <3>8. Climbed(staged)  BY <3>1, <3>2, <3>5, <3>7 DEF Climbed
    <3> QED BY <2>2, <2>7, <3>5, <3>6, <3>8 DEF Sane
  <2> QED BY <2>6, <2>7
<1>3. CASE ~(Unified /\ r.old > 0 /\ r.status = "probation")
  <2> DEFINE m == [r EXCEPT !.old = 0]
  <2>1. load(r) = m  BY <1>3 DEF load
  <2>2. 0 \in 0 .. 100  OBVIOUS
  <2>3. /\ m \in Machines /\ m.old = 0 /\ m.fresh = r.fresh /\ m.status = r.status /\ m.stage = r.stage
        /\ m.rest = r.rest /\ m.started = r.started
    BY <1>1, <2>2 DEF Machines
  <2> HIDE DEF m
  <2>4. CASE Sane(r)  BY <2>1, <2>3, <2>4 DEF Sane, Clean, Climbed, Allowed
  <2>5. CASE Inherited(r)
    <3>1. Clean(m)  BY <2>3, <2>5 DEF Clean, Inherited
    <3>2. Unified => m.status = "cooldown"  BY <1>3, <2>3, <2>5 DEF Inherited
    <3>3. Climbed(m)  BY <3>2 DEF Climbed
    <3> QED BY <2>1, <2>3, <3>1, <3>3 DEF Sane
  <2> QED BY <2>4, <2>5 DEF RowSane
<1> QED BY <1>2, <1>3

LEMMA loadHalts ==
    ASSUME NEW r, RowSane(r), NEW o \in Nat, NEW l \in BOOLEAN, Halts(r, o, l)
    PROVE  Halts(load(r), o, l)
<1>1. r \in Machines  BY DEF RowSane, Sane, Inherited
<1>2. CASE r.status = "probation"
  <2>1. ~(o > 0) /\ ~l  BY <1>2 DEF Halts
  <2> QED BY <2>1 DEF Halts
<1>3. CASE r.status # "probation"
  <2>1. load(r) = [r EXCEPT !.old = 0]  BY <1>3 DEF load
  <2>2. load(r).status = r.status /\ load(r).left = r.left  BY <1>1, <2>1 DEF Machines
  <2> QED BY <2>2 DEF Halts
<1> QED BY <1>2, <1>3

-----------------------------------------------------------------------------
(* The steps.                                                              *)

LEMMA IInvInit == Init => IInv
<1> SUFFICES ASSUME Init PROVE IInv  OBVIOUS
<1> DEFINE new == Machine("active", -1)
           old(p) == OldProbation(p)
<1>1. /\ Climb \in Nat /\ 0 \in 0 .. Climb /\ Climb \in 0 .. Climb /\ <<>> \in Seq(Cohorts)
      /\ -1 \in -1 .. Len(Stages) - 1 /\ 0 \in 0 .. MaxFailed /\ CooldownDays \in Nat
      /\ OldRows \subseteq 1 .. 100 /\ MaxFaults \in Nat
  BY ClimbFacts, StrategyHealthAssumption, StrategyAssumption
<1>0. ASSUME RowSane(row), owed \in Nat, locked = FALSE, Halts(row, owed, locked)
      PROVE  IInv
  <2>1. candidates = {} /\ risk = 0 /\ faults = 0 /\ mem = load(row)  BY DEF Init
  <2>2. HaltServed  BY <2>1 DEF HaltServed
  <2>4. candidates \subseteq Symbols /\ locked \in BOOLEAN  BY <1>0, <2>1
  <2>5. risk \in 0 .. 100 /\ faults \in 0 .. MaxFaults  BY <1>1, <2>1
  <2>3. Sane(mem) /\ Halts(mem, owed, locked)  BY <1>0, <2>1, loadSane, loadHalts
  <2> QED BY <1>0, <2>2, <2>3, <2>4, <2>5 DEF IInv, Typed
<1>2. CASE row = new
  <2>1. row = [status |-> "active", stage |-> -1, failed |-> 0, left |-> None, started |-> None,
               fresh |-> <<>>, base |-> {}, old |-> 0, rest |-> Climb]
    BY <1>2 DEF Machine
  <2>2. row \in Machines /\ row.old = 0 /\ row.status = "active" /\ row.rest = Climb /\ row.fresh = <<>>
    BY <1>1, <2>1, NoneIsStarted DEF Machines, Statuses
  <2>3. Clean(row) /\ Climbed(row)  BY <1>1, <2>2 DEF Clean, Climbed
  <2>4. RowSane(row)  BY <2>2, <2>3 DEF RowSane, Sane
  <2>5. owed = 0 /\ locked = FALSE  BY <2>2 DEF Init
  <2>6. owed \in Nat /\ Halts(row, owed, locked)  BY <2>5 DEF Halts
  <2> QED BY <1>0, <2>4, <2>5, <2>6
<1>3. CASE row = OldCooldown
  <2>1. row = [status |-> "cooldown", stage |-> -1, failed |-> 0, left |-> CooldownDays, started |-> None,
               fresh |-> <<>>, base |-> {}, old |-> 1, rest |-> 0]
    BY <1>3 DEF OldCooldown, Machine
  <2>2. /\ row \in Machines /\ row.old = 1 /\ row.status = "cooldown" /\ row.fresh = <<>>
        /\ row.left = CooldownDays
    BY <1>1, <2>1, NoneIsStarted DEF Machines, Statuses
  <2>4. RowSane(row)  BY <2>2 DEF RowSane, Inherited
  <2>5. owed = CooldownDays /\ locked = FALSE  BY <2>2 DEF Init
  <2>6. owed \in Nat /\ Halts(row, owed, locked)  BY <1>1, <2>2, <2>5 DEF Halts
  <2> QED BY <1>0, <2>4, <2>5, <2>6
<1>4. ASSUME NEW p \in OldRows, row = old(p) PROVE IInv
  <2>0. p \in 0 .. 100 /\ p > 0  BY <1>1
  <2>1. row = [status |-> "probation", stage |-> -1, failed |-> 0, left |-> None, started |-> 0,
               fresh |-> <<>>, base |-> {}, old |-> p, rest |-> 0]
    BY <1>4 DEF OldProbation, Machine
  <2>2. /\ row \in Machines /\ row.old = p /\ row.status = "probation" /\ row.fresh = <<>> /\ row.stage = -1
    BY <1>1, <2>0, <2>1, NoneIsStarted DEF Machines, Statuses
  <2>4. RowSane(row)  BY <2>0, <2>2 DEF RowSane, Inherited
  <2>5. owed = 0 /\ locked = FALSE  BY <2>2 DEF Init
  <2>6. owed \in Nat /\ Halts(row, owed, locked)  BY <2>5 DEF Halts
  <2> QED BY <1>0, <2>4, <2>5, <2>6
<1> QED BY <1>2, <1>3, <1>4 DEF Init

LEMMA PersistKeeps ==
    ASSUME IInv, NEW m, Sane(m), Halts(m, owed, locked), Persist(m),
           risk' = 0, candidates' \subseteq Symbols
    PROVE  IInv'
<1>1. Sane(mem)' BY DEF Persist
<1>2. owed \in Nat /\ locked \in BOOLEAN /\ m.left \in Nat \cup {None}
  BY FieldsOf DEF IInv, Typed, Sane
<1>3. HaltServed' /\ (risk \in 0 .. 100)'  BY DEF HaltServed
<1>4. CASE /\ row' = m /\ UNCHANGED faults
           /\ owed' = IF m.status = "cooldown" THEN Max2(owed, m.left) ELSE owed
           /\ locked' = (locked \/ m.status = "manual_lock")
  <2>1. owed' \in Nat /\ locked' \in BOOLEAN  BY <1>2, <1>4 DEF Max2, None
  <2>2. m.status = "cooldown" /\ owed' > 0 => m.left >= owed'
    <3>1. owed > 0 /\ m.status = "cooldown" => m.left >= owed  BY DEF Halts
    <3> QED BY <3>1, <1>2, <1>4 DEF Max2, None
  <2>3. m.status # "cooldown" => owed' = owed  BY <1>4
  <2>4. Halts(m, owed', locked')
    <3>1. locked' => m.status = "manual_lock"  BY <1>4 DEF Halts
    <3>2. CASE m.status = "cooldown"  BY <2>2, <3>1, <3>2 DEF Halts
    <3>3. CASE m.status # "cooldown"  BY <2>3, <3>1, <3>3 DEF Halts
    <3> QED BY <3>2, <3>3
  <2>5. mem' = m /\ row' = m  BY <1>4 DEF Persist
  <2> QED BY <1>1, <1>3, <1>4, <2>1, <2>4, <2>5 DEF IInv, Typed, RowSane
<1>5. CASE faults < MaxFaults /\ faults' = faults + 1 /\ UNCHANGED <<row, owed, locked>>
  <2>1. (faults \in 0 .. MaxFaults)'  BY <1>5, StrategyAssumption DEF IInv, Typed
  <2>2. mem' = m  BY DEF Persist
  <2> QED BY <1>1, <1>3, <1>5, <2>1, <2>2 DEF IInv, Typed
<1> QED BY <1>4, <1>5 DEF Persist

LEMMA ClosesKeep ==
    ASSUME IInv, NEW s \in Symbols, ingest_close(s)
    PROVE  IInv'
<1>1. PICK by \in Controllers, result \in {-1, 1}, age \in 0 .. LateDays : Ingest(s, by, result, age)
  BY DEF ingest_close
<1>2. age \in {0, 1}  BY StrategyHealthAssumption
<1> DEFINE f == Folded(mem, s, by, result, age)
<1>3. Sane(f) /\ f.status = mem.status /\ f.left = mem.left  BY <1>2, FoldedSane DEF IInv
<1>4. Persist(f) /\ risk' = 0 /\ candidates' \subseteq Symbols  BY <1>1 DEF Ingest, IInv, Typed
<1> HIDE DEF f
<1>5. Halts(f, owed, locked)  BY <1>3 DEF IInv, Halts
<1> QED BY <1>3, <1>4, <1>5, PersistKeeps

LEMMA ChecksKeep ==
    ASSUME IInv, NEW s \in Symbols, check_health(s)
    PROVE  IInv'
<1> DEFINE e == Evaluate(mem)
<1>1. Sane(e)  BY EvaluateSane DEF IInv
<1>2. Persist(e) /\ risk' = 0  BY DEF check_health
<1>3. candidates' \subseteq Symbols  BY DEF check_health, IInv, Typed
<1>4. Halts(e, owed, locked)
  <2>1. CASE owed > 0 \/ locked
    <3>1. e = mem  BY <2>1, EvaluateHalts DEF IInv, Typed
    <3> QED BY <3>1 DEF IInv
  <2>2. CASE ~(owed > 0 \/ locked)  BY <2>2 DEF Halts
  <2> QED BY <2>1, <2>2
<1> HIDE DEF e
<1> QED BY <1>1, <1>2, <1>3, <1>4, PersistKeeps

(* The size of an entry is scaled when the batch is allocated.             *)
LEMMA AllocateKeeps ==
    ASSUME IInv, Allocate
    PROVE  IInv'
<1>1. risk' = risk_multiplier(mem) /\ candidates' = {} /\ UNCHANGED <<mem, row, owed, locked, faults>>
  BY DEF Allocate, EntryRisk
<1>2. risk' \in 0 .. 100 /\ (risk' > 0 => Allowed(mem))  BY <1>1, RiskFacts DEF IInv, Sane
<1>3. Allowed(mem) => ~(owed > 0) /\ ~locked  BY DEF IInv, Halts, Allowed
<1>4. HaltServed'  BY <1>1, <1>2, <1>3 DEF HaltServed, IInv, Typed
<1> QED BY <1>1, <1>2, <1>4 DEF IInv, Typed

LEMMA OperatorKeeps ==
    ASSUME IInv, manual_lock \/ manual_resume
    PROVE  IInv'
<1>1. mem \in Machines /\ mem.old = 0 /\ mem.rest \in 0 .. Climb /\ Climb \in Nat
  BY FieldsOf, ClimbFacts DEF IInv, Sane
<1>2. CASE manual_lock
  <2> DEFINE rest == 0
             l == [mem EXCEPT !.status = "manual_lock", !.rest = rest]
  <2>0. rest \in 0 .. Climb /\ "manual_lock" \in Statuses  BY <1>1 DEF Statuses
  <2> HIDE DEF rest
  <2>1. l \in Machines /\ l.old = 0 /\ l.status = "manual_lock"  BY <1>1, <2>0 DEF Machines
  <2>2. mem' = l /\ risk' = 0 /\ UNCHANGED <<row, candidates, owed, locked>>
    BY <1>2 DEF manual_lock, rest
  <2>5. faults' \in 0 .. MaxFaults
    BY <1>2, StrategyAssumption DEF manual_lock, IInv, Typed
  <2> HIDE DEF l
  <2>3. Sane(l)  BY <2>1 DEF Sane, Clean, Climbed, Allowed
  <2>4. Halts(l, owed, locked)  BY <2>1 DEF Halts
  <2> QED BY <2>2, <2>3, <2>4, <2>5 DEF IInv, Typed, HaltServed
<1>3. CASE manual_resume
  <2> DEFINE stage == IF Unified THEN 0 ELSE -1
             p == ToProbation(mem, stage)
             q == [p EXCEPT !.failed = 0]
  <2>1. mem' = q /\ owed' = 0 /\ locked' = FALSE /\ risk' = 0 /\ UNCHANGED <<row, candidates, faults>>
    BY <1>3 DEF manual_resume
  <2>2. stage \in -1 .. Len(Stages) - 1  BY ClimbFacts, StrategyHealthAssumption
  <2>3. ASSUME Unified PROVE stage \in 0 .. Len(Stages) - 2 /\ mem.rest >= stage * StageDays
    <3>1. stage = 0 /\ 0 \in 0 .. Len(Stages) - 2  BY <2>3, ClimbFacts
    <3>2. 0 * StageDays = 0  BY StrategyHealthAssumption, Multiples
    <3> HIDE DEF stage
    <3> QED BY <3>1, <3>2, <1>1
  <2> HIDE DEF stage
  <2>4. Sane(p)  BY <1>1, <2>2, <2>3, ProbationSane
  <2> HIDE DEF p
  <2>5. p \in Machines /\ 0 \in 0 .. MaxFailed  BY <2>4, StrategyHealthAssumption DEF Sane
  <2>6. /\ q \in Machines /\ q.old = p.old /\ q.status = p.status /\ q.stage = p.stage
        /\ q.rest = p.rest /\ q.started = p.started /\ q.fresh = p.fresh
    BY <2>5 DEF Machines
  <2> HIDE DEF q
  <2>7. Sane(q)  BY <2>4, <2>6 DEF Sane, Clean, Climbed, Allowed
  <2>8. Sane(mem)' /\ RowSane(row)'
    <3>1. mem' = q /\ row' = row /\ RowSane(row)  BY <2>1 DEF IInv
    <3> QED BY <2>7, <3>1
  <2>9. Halts(mem, owed, locked)' /\ Halts(row, owed, locked)'
    <3>1. ~(owed > 0)' /\ ~locked'  BY <2>1
    <3> QED BY <3>1 DEF Halts
  <2>10. Typed' /\ HaltServed'
    <3>1. HaltServed' /\ (risk \in 0 .. 100)' /\ owed' \in Nat  BY <2>1 DEF HaltServed
    <3>2. locked' \in BOOLEAN  BY <2>1
    <3>3. (candidates \subseteq Symbols)' /\ (faults \in 0 .. MaxFaults)'  BY <2>1 DEF IInv, Typed
    <3> QED BY <3>1, <3>2, <3>3 DEF Typed
  <2> QED BY <2>8, <2>9, <2>10 DEF IInv
<1> QED BY <1>2, <1>3

LEMMA DaysKeep ==
    ASSUME IInv, NextDay
    PROVE  IInv'
<1>1. /\ mem' = Aged(mem) /\ row' = Aged(row) /\ owed' = Max2(owed - 1, 0)
      /\ candidates' = {} /\ risk' = 0 /\ UNCHANGED <<locked, faults>>
  BY DEF NextDay
<1>2. owed \in Nat /\ locked \in BOOLEAN /\ mem \in Machines /\ row \in Machines
  BY DEF IInv, Typed, RowSane, Sane, Inherited
<1>3. owed' \in Nat  BY <1>1, <1>2 DEF Max2
<1>4. Sane(Aged(mem)) /\ RowSane(Aged(row))
  BY AgedSane, InheritedAges DEF IInv, RowSane
<1>5. Halts(Aged(mem), Max2(owed - 1, 0), locked) /\ Halts(Aged(row), Max2(owed - 1, 0), locked)
  BY <1>2, AgedHalts DEF IInv
<1> QED BY <1>1, <1>3, <1>4, <1>5 DEF IInv, Typed, HaltServed

LEMMA CrashKeeps ==
    ASSUME IInv, Crash
    PROVE  IInv'
<1>1. /\ faults < MaxFaults /\ faults' = faults + 1 /\ mem' = load(row) /\ candidates' = {} /\ risk' = 0
      /\ UNCHANGED <<row, owed, locked>>
  BY DEF Crash
<1>2. Typed' /\ HaltServed'  BY <1>1, StrategyAssumption DEF IInv, Typed, HaltServed
<1>3. Sane(load(row)) /\ Halts(load(row), owed, locked) /\ RowSane(row) /\ Halts(row, owed, locked)
  BY loadSane, loadHalts DEF IInv, Typed
<1>4. mem' = load(row) /\ row' = row /\ owed' = owed /\ locked' = locked  BY <1>1
<1>5. Sane(mem)' /\ RowSane(row)'  BY <1>3, <1>4
<1>6. Halts(mem, owed, locked)' /\ Halts(row, owed, locked)'  BY <1>3, <1>4
<1> QED BY <1>2, <1>5, <1>6 DEF IInv

-----------------------------------------------------------------------------
(* The results.                                                            *)

(* The invariant, of closes, checks, days, restarts and failed writes.     *)
THEOREM MachineStaysSane == Spec => []IInv
<1>1. ASSUME IInv, [Next]_vars
      PROVE  IInv'
  <2>1. CASE \E s \in Symbols : ingest_close(s) \/ check_health(s)
    BY <2>1, <1>1, ClosesKeep, ChecksKeep
  <2>2. CASE Allocate  BY <2>2, <1>1, AllocateKeeps
  <2>3. CASE manual_lock \/ manual_resume  BY <2>3, <1>1, OperatorKeeps
  <2>4. CASE NextDay  BY <2>4, <1>1, DaysKeep
  <2>5. CASE Crash  BY <2>5, <1>1, CrashKeeps
  <2>6. CASE UNCHANGED vars  BY <2>6, <1>1 DEF vars, IInv, Typed, HaltServed
  <2> QED BY <1>1, <2>1, <2>2, <2>3, <2>4, <2>5, <2>6 DEF Next
<1> QED BY <1>1, IInvInit, PTL DEF Spec

(* Every step of evaluate, of a close and of load leaves records of the    *)
(* machine's type, in memory and on disk.                                  *)
THEOREM TypeCorrect == Spec => []TypeOK
<1>1. IInv => TypeOK  BY DEF IInv, Typed, RowSane, Sane, Inherited, TypeOK
<1> QED BY <1>1, MachineStaysSane, PTL

(* A cooldown or a lock that was saved holds back every entry until it is  *)
(* over, for any faults (check_health, persist and load).                  *)
THEOREM HaltsAreServed == Spec => []HaltServed
<1>1. IInv => HaltServed  BY DEF IInv
<1> QED BY <1>1, MachineStaysSane, PTL

(* What stopped a strategy or ended its probation is not evidence of the   *)
(* next epoch (_transition moves the baseline), in memory or on disk.      *)
THEOREM EvidenceIsUsedOnce == Spec => []EvidenceCountsOnce
<1>1. IInv => EvidenceCountsOnce
  BY DEF IInv, RowSane, Sane, Clean, Inherited, EvidenceCountsOnce
<1> QED BY <1>1, MachineStaysSane, PTL

(* Under unified recovery no stage, and not full risk, is reached before   *)
(* the days of the stages below it have passed since the last stop.        *)
THEOREM RecoveryIsSlow == Spec => []RecoveryTakesTime
<1>1. ASSUME Unified, NEW m, RowSane(m)
      PROVE  /\ m.status = "probation" => m.rest >= m.stage * StageDays
             /\ m.status = "active" => m.rest >= Climb
  <2>1. CASE Sane(m)  BY <1>1, <2>1 DEF Sane, Climbed
  <2>2. CASE Inherited(m)
    <3>1. m.rest >= 0 /\ m.rest \in Nat  BY <2>2, FieldsOf, ClimbFacts DEF Inherited
    <3>2. (-1) * StageDays <= 0  BY StrategyHealthAssumption, Multiples
    <3>3. StageDays \in Nat  BY StrategyHealthAssumption
    <3> QED BY <2>2, <3>1, <3>2, <3>3 DEF Inherited
  <2> QED BY <1>1, <2>1, <2>2 DEF RowSane
<1>2. IInv => RecoveryTakesTime
  <2> SUFFICES ASSUME IInv, Unified, NEW m \in {mem, row}
               PROVE  /\ m.status = "probation" => m.rest >= m.stage * StageDays
                      /\ m.status = "active" => m.rest >= Climb
    BY DEF RecoveryTakesTime
  <2>1. RowSane(m)  BY DEF IInv, RowSane
  <2> QED BY <1>1, <2>1
<1> QED BY <1>2, MachineStaysSane, PTL

-----------------------------------------------------------------------------
(* What the strategy learns of its closes, and remembers.                   *)

VARIABLES pc, at, todo, previous   \* of a tick, with candidates and faults

Memory == INSTANCE StrategyCloses

Orders == [no : Nat, left : Int]
Contexts == [entry : BOOLEAN, stop : Nat, latch : Nat]
Rows == [cursor : Nat, pending : [Symbols -> SUBSET Nat], acc : [Memory!Positions -> SUBSET Nat],
         completed : SUBSET Memory!Positions, ctx : [Symbols -> Contexts], counts : [Memory!Positions -> Nat]]
Runtimes == [ctx : [Symbols -> Contexts], counts : [Memory!Positions -> Nat]]
Events == [pos : Memory!Positions, lot : Nat, final : BOOLEAN]

MemoryTyped ==
    /\ entry \in [Symbols -> Orders]
    /\ exit \in [Symbols -> Orders]
    /\ opened \in [Symbols -> 0 .. MaxPositions]
    /\ lots \in [Memory!Positions -> Seq(Memory!Owners)]
    /\ closed \in [Memory!Positions -> Nat]
    /\ stream \in Seq(Events)
    /\ memory \in Rows
    /\ checkpoint \in Rows \cup {Memory!NoRow}
    /\ previous \in Rows \cup {Memory!NoRow}
    /\ runtime \in Runtimes \cup {Memory!NoRow}
    /\ health \in [Memory!Positions -> Nat]
    /\ at \in Symbols \cup {NoSymbol} /\ todo \subseteq Symbols

(* Where the tick is about a symbol, there is one; a rollback has a row.    *)
Placed ==
    /\ pc \in {"checkpoint", "reconcile", "decide", "track"} => at \in Symbols
    /\ pc = "checkpoint" => previous # Memory!NoRow

Histories == Seq(Events)
Ledgers == [Memory!Positions -> Seq(Memory!Owners)]

(* Every event closes a lot there is.                                       *)
Known(l, st) == \A i \in 1 .. Len(st) : st[i].lot \in 1 .. Len(l[st[i].pos])

(* What a row says is about events there are, and about all of them.        *)
Covers(rec, l, st) ==
    /\ rec.cursor <= Len(st)
    /\ \A s \in Symbols : rec.pending[s] \subseteq 1 .. rec.cursor
    /\ \A i \in 1 .. rec.cursor :
          l[st[i].pos][st[i].lot] = "own" => \/ i \in rec.pending[st[i].pos[1]]
                                             \/ st[i].lot \in rec.acc[st[i].pos]
                                             \/ st[i].pos \in rec.completed
Sound(rec) == Covers(rec, lots, stream)

RowsSound ==
    /\ Sound(memory)
    /\ checkpoint # Memory!NoRow => Sound(checkpoint)
    /\ previous # Memory!NoRow => Sound(previous)

MemoryInv == MemoryTyped /\ Placed /\ Known(lots, stream) /\ RowsSound

-----------------------------------------------------------------------------
(* The results and the context of a row may change freely.                  *)
LEMMA CountsAreApart ==
  ASSUME NEW rec \in Rows, NEW c \in [Memory!Positions -> Nat]
  PROVE  /\ [rec EXCEPT !.counts = c] \in Rows
         /\ \A l, st : Covers(rec, l, st) => Covers([rec EXCEPT !.counts = c], l, st)
BY DEF Rows, Covers

LEMMA ContextIsApart ==
  ASSUME NEW rec \in Rows, NEW s \in Symbols, NEW c \in Contexts
  PROVE  /\ [rec EXCEPT !.ctx[s] = c] \in Rows
         /\ \A l, st : Covers(rec, l, st) => Covers([rec EXCEPT !.ctx[s] = c], l, st)
BY DEF Rows, Covers

LEMMA FreshRow == /\ Memory!NoContext \in Contexts /\ Memory!Fresh \in Rows
                  /\ Memory!Fresh.counts \in [Memory!Positions -> Nat]
                  /\ \A l : \A st \in Histories : Covers(Memory!Fresh, l, st)
<1>1. Memory!NoContext \in Contexts
  BY DEF Memory!NoContext, Contexts
<1>2. /\ Memory!Fresh \in Rows /\ Memory!Fresh.cursor = 0 /\ Memory!Fresh.counts \in [Memory!Positions -> Nat]
      /\ \A s \in Symbols : Memory!Fresh.pending[s] = {}
  BY <1>1 DEF Memory!Fresh, Rows
<1> QED
  BY <1>1, <1>2 DEF Covers, Histories

LEMMA SavedRow ==
  ASSUME NEW rec \in Rows, NEW counts \in [Memory!Positions -> Nat]
  PROVE  /\ Memory!Row(rec) \in Rows /\ Memory!Restored(rec, counts) \in Rows
         /\ \A l, st : Covers(rec, l, st) =>
               Covers(Memory!Row(rec), l, st) /\ Covers(Memory!Restored(rec, counts), l, st)
<1>1. rec.counts \in [Memory!Positions -> Nat] /\ Memory!Fresh.counts \in [Memory!Positions -> Nat]
  BY FreshRow DEF Rows
<1>2. /\ Memory!Row(rec) = [rec EXCEPT !.counts = IF KeepsHealth THEN Memory!Fresh.counts ELSE rec.counts]
      /\ Memory!Restored(rec, counts) = [rec EXCEPT !.counts = IF KeepsHealth THEN counts ELSE rec.counts]
  BY DEF Memory!Row, Memory!Restored, Rows
<1>3. /\ (IF KeepsHealth THEN Memory!Fresh.counts ELSE rec.counts) \in [Memory!Positions -> Nat]
      /\ (IF KeepsHealth THEN counts ELSE rec.counts) \in [Memory!Positions -> Nat]
  BY <1>1
<1> QED
  BY <1>2, <1>3, CountsAreApart

(* New events and new lots take nothing from what a row covers.             *)
LEMMA CoversMore ==
  ASSUME NEW rec \in Rows,
         NEW l \in Ledgers, NEW l2 \in Ledgers, NEW st \in Histories, NEW st2 \in Histories,
         Known(l, st), Covers(rec, l, st), Len(st) <= Len(st2),
         \A i \in 1 .. Len(st) : st2[i] = st[i],
         \A p \in Memory!Positions : Len(l[p]) <= Len(l2[p]) /\ \A k \in 1 .. Len(l[p]) : l2[p][k] = l[p][k]
  PROVE  Covers(rec, l2, st2)
<1>1. rec.cursor \in Nat /\ rec.cursor <= Len(st2)
  BY DEF Rows, Covers, Histories
<1>2. ASSUME NEW i \in 1 .. rec.cursor, l2[st2[i].pos][st2[i].lot] = "own"
      PROVE  \/ i \in rec.pending[st2[i].pos[1]]
             \/ st2[i].lot \in rec.acc[st2[i].pos]
             \/ st2[i].pos \in rec.completed
  <2>1. i \in 1 .. Len(st) /\ st2[i] = st[i]
    BY <1>1 DEF Covers, Histories
  <2>2. st[i].pos \in Memory!Positions /\ st[i].lot \in 1 .. Len(l[st[i].pos])
    <3>1. st[i] \in Events
      BY <2>1 DEF Histories
    <3>2. st[i].pos \in Memory!Positions
      BY <3>1 DEF Events
    <3> QED
      BY <2>1, <3>2 DEF Known
  <2>3. l[st[i].pos][st[i].lot] = "own"
    BY <1>2, <2>1, <2>2
  <2> QED
    BY <2>1, <2>3, <1>1 DEF Covers
<1> QED
  BY <1>1, <1>2 DEF Covers

(* A batch leaves nothing uncovered, whatever positions it completes.       *)
LEMMA BatchCovers ==
  ASSUME MemoryTyped, Sound(memory), NEW s \in Symbols, NEW done \in SUBSET Memory!Positions
  PROVE  /\ Memory!Consumed(s, Memory!Queue(s), done) \in Rows
         /\ Sound(Memory!Consumed(s, Memory!Queue(s), done))
<1> DEFINE batch == Memory!Queue(s)
           new == Memory!Consumed(s, batch, done)
<1>1. Len(stream) \in Nat /\ memory.cursor \in Nat /\ memory.cursor <= Len(stream)
  BY DEF MemoryTyped, Histories, Rows, Sound, Covers
<1>2. ASSUME NEW i \in 1 .. Len(stream)
      PROVE  stream[i].pos \in Memory!Positions /\ stream[i].pos[1] \in Symbols /\ stream[i].lot \in Nat
  <2>1. stream[i] \in Events
    BY DEF MemoryTyped, Histories
  <2> QED
    BY <2>1 DEF Events, Memory!Positions
<1>3. ASSUME NEW t \in Symbols
      PROVE  Memory!Queue(t) \subseteq 1 .. Len(stream)
  BY <1>1 DEF Memory!Queue, Sound, Covers
<1>4. ASSUME NEW p \in Memory!Positions
      PROVE  Memory!Folded(batch, p) \in SUBSET Nat /\ memory.acc[p] \subseteq Memory!Folded(batch, p)
  <2>1. memory.acc[p] \subseteq Nat
    BY DEF MemoryTyped, Rows
  <2>2. \A i \in batch : stream[i].lot \in Nat
    BY <1>2, <1>3
  <2> QED
    BY <2>1, <2>2 DEF Memory!Folded
<1>5. Memory!Counted(memory.counts, done) \in [Memory!Positions -> Nat]
  BY DEF Memory!Counted, MemoryTyped, Rows
<1>6. [memory.ctx EXCEPT ![s] = IF done # {} /\ ~Memory!Held(s) THEN Memory!Cleared(@) ELSE @] \in [Symbols -> Contexts]
  BY DEF MemoryTyped, Rows, Contexts, Memory!Cleared, Memory!NoContext
<1>7. new \in Rows
  BY <1>1, <1>3, <1>4, <1>5, <1>6 DEF Memory!Consumed, Rows, MemoryTyped
<1>8. /\ new.cursor = Len(stream) /\ new.completed = memory.completed \cup done
      /\ \A t \in Symbols : new.pending[t] = IF t = s THEN {} ELSE Memory!Queue(t)
      /\ \A p \in Memory!Positions : new.acc[p] = IF p \in done THEN {} ELSE Memory!Folded(batch, p)
  BY DEF Memory!Consumed
<1>9. ASSUME NEW i \in 1 .. Len(stream), lots[stream[i].pos][stream[i].lot] = "own"
      PROVE  \/ i \in new.pending[stream[i].pos[1]]
             \/ stream[i].lot \in new.acc[stream[i].pos]
             \/ stream[i].pos \in new.completed
  <2> DEFINE p == stream[i].pos
  <2>1. p \in Memory!Positions /\ p[1] \in Symbols
    BY <1>2
  <2>2. i \in Memory!Queue(p[1]) \/ stream[i].lot \in memory.acc[p] \/ p \in memory.completed
    <3>1. CASE i <= memory.cursor
      BY <3>1, <1>1, <1>9 DEF Sound, Covers, Memory!Queue
    <3>2. CASE i > memory.cursor
      BY <3>2, <1>1, <1>9 DEF Memory!Queue, Memory!Mine
    <3> QED
      BY <3>1, <3>2, <1>1
  <2>3. CASE p \in memory.completed \cup done
    BY <2>3, <1>8
  <2>4. CASE p \notin memory.completed \cup done /\ stream[i].lot \in memory.acc[p]
    BY <2>4, <2>1, <1>4, <1>8
  <2>5. CASE p \notin memory.completed \cup done /\ i \in Memory!Queue(p[1])
    <3>1. CASE p[1] = s
      <4>1. stream[i].lot \in Memory!Folded(batch, p)
        BY <2>5, <3>1, <1>9 DEF Memory!Folded, Memory!Mine
      <4> QED
        BY <4>1, <2>1, <2>5, <1>8
    <3>2. CASE p[1] # s
      BY <3>2, <2>1, <2>5, <1>8
    <3> QED
      BY <3>1, <3>2
  <2> QED
    BY <2>2, <2>3, <2>4, <2>5
<1>10. Covers(new, lots, stream)
  <2>1. \A t \in Symbols : new.pending[t] \subseteq 1 .. new.cursor
    BY <1>3, <1>8
  <2> QED
    BY <1>1, <1>8, <1>9, <2>1 DEF Covers
<1> QED
  BY <1>7, <1>10 DEF Sound

-----------------------------------------------------------------------------
LEMMA MemoryInit == Memory!Init => MemoryInv
<1> SUFFICES ASSUME Memory!Init PROVE MemoryInv
  OBVIOUS
<1>1. MaxPositions \in Nat
  BY StrategyClosesAssumption
<1>2. stream \in Histories /\ Len(stream) = 0 /\ lots \in [Memory!Positions -> Seq(Memory!Owners)]
  BY DEF Memory!Init, Histories
<1>3. MemoryTyped
  <2>1. /\ entry \in [Symbols -> Orders] /\ exit \in [Symbols -> Orders]
        /\ opened \in [Symbols -> 0 .. MaxPositions] /\ closed \in [Memory!Positions -> Nat]
    BY <1>1 DEF Memory!Init, Orders
  <2>2. /\ memory \in Rows /\ checkpoint = Memory!NoRow /\ previous = Memory!NoRow /\ runtime = Memory!NoRow
        /\ health \in [Memory!Positions -> Nat] /\ at = NoSymbol /\ todo = {}
    BY FreshRow DEF Memory!Init
  <2> QED
    BY <1>2, <2>1, <2>2 DEF MemoryTyped, Histories
<1>4. RowsSound
  BY <1>2, FreshRow DEF Memory!Init, RowsSound, Sound
<1> QED
  BY <1>2, <1>3, <1>4 DEF MemoryInv, Memory!Init, Placed, Known

(* Steps that add to the market and touch no row.                           *)
LEMMA MarketGrows ==
  ASSUME MemoryInv, UNCHANGED <<memory, checkpoint, previous>>,
         lots' \in Ledgers, stream' \in Histories, Len(stream) <= Len(stream'),
         \A i \in 1 .. Len(stream) : stream'[i] = stream[i],
         \A p \in Memory!Positions : Len(lots[p]) <= Len(lots'[p]) /\ \A k \in 1 .. Len(lots[p]) : lots'[p][k] = lots[p][k]
  PROVE  RowsSound'
<1>1. lots \in Ledgers /\ stream \in Histories /\ Known(lots, stream)
  BY DEF MemoryInv, MemoryTyped, Ledgers, Histories
<1>2. ASSUME NEW rec \in Rows, Covers(rec, lots, stream)
      PROVE  Covers(rec, lots', stream')
  BY <1>1, <1>2, CoversMore
<1> QED
  BY <1>2 DEF MemoryInv, MemoryTyped, RowsSound, Sound

LEMMA OpensKeeps ==
  ASSUME MemoryInv, NEW s \in Symbols, NEW owner \in Memory!Owners, Memory!Opens(s, owner),
         UNCHANGED <<memory, checkpoint, previous>>
  PROVE  /\ opened' \in [Symbols -> 0 .. MaxPositions] /\ lots' \in [Memory!Positions -> Seq(Memory!Owners)]
         /\ Known(lots', stream') /\ RowsSound'
<1> DEFINE n == IF Memory!Held(s) THEN opened[s] ELSE opened[s] + 1
           at_ == <<s, n>>
<1>1. n \in 1 .. MaxPositions /\ at_ \in Memory!Positions
  <2>1. n \in Nat /\ n >= 1 /\ n <= MaxPositions
    BY StrategyClosesAssumption DEF MemoryInv, MemoryTyped, Memory!Opens, Memory!Held
  <2> QED
    BY <2>1, StrategyClosesAssumption DEF Memory!Positions
<1>2. /\ opened' = [opened EXCEPT ![s] = n] /\ lots' = [lots EXCEPT ![at_] = Append(@, owner)]
      /\ UNCHANGED stream
  BY DEF Memory!Opens
<1>3. opened' \in [Symbols -> 0 .. MaxPositions]
  BY <1>1, <1>2 DEF MemoryInv, MemoryTyped
<1>4. lots \in [Memory!Positions -> Seq(Memory!Owners)] /\ stream \in Histories
  BY DEF MemoryInv, MemoryTyped, Histories
<1>5. lots' \in [Memory!Positions -> Seq(Memory!Owners)]
  BY <1>1, <1>2, <1>4
<1>6. ASSUME NEW p \in Memory!Positions
      PROVE  Len(lots[p]) <= Len(lots'[p]) /\ \A k \in 1 .. Len(lots[p]) : lots'[p][k] = lots[p][k]
  <2>1. CASE p = at_
    BY <2>1, <1>1, <1>2, <1>4
  <2>2. CASE p # at_
    BY <2>2, <1>1, <1>2, <1>4
  <2> QED
    BY <2>1, <2>2
<1>7. Known(lots', stream')
  <2>1. ASSUME NEW i \in 1 .. Len(stream)
        PROVE  stream[i].lot \in 1 .. Len(lots'[stream[i].pos])
    <3>1. stream[i] \in Events
      BY <1>4 DEF Histories
    <3>2. stream[i].pos \in Memory!Positions /\ stream[i].lot \in 1 .. Len(lots[stream[i].pos])
      BY <3>1 DEF Events, MemoryInv, Known
    <3> QED
      BY <3>2, <1>4, <1>5, <1>6
  <2> QED
    BY <2>1, <1>2 DEF Known
<1>8. RowsSound'
  <2>1. lots' \in Ledgers /\ stream' \in Histories /\ Len(stream) <= Len(stream')
    BY <1>2, <1>4, <1>5 DEF Ledgers, Histories
  <2>2. \A i \in 1 .. Len(stream) : stream'[i] = stream[i]
    BY <1>2
  <2> QED
    BY <2>1, <2>2, <1>6, MarketGrows
<1> QED
  BY <1>3, <1>5, <1>7, <1>8

LEMMA ClosesKeeps ==
  ASSUME MemoryInv, NEW s \in Symbols, NEW q \in Nat, q >= 1, Memory!Closes(s, q),
         UNCHANGED <<memory, checkpoint, previous>>
  PROVE  /\ closed' \in [Memory!Positions -> Nat] /\ stream' \in Seq(Events)
         /\ Known(lots', stream') /\ RowsSound'
<1> DEFINE p == Memory!Position(s)
           events == [k \in 1 .. q |-> [pos |-> p, lot |-> closed[p] + k,
                                        final |-> closed[p] + q = Len(lots[p])]]
<1>1. /\ q <= Memory!HeldQty(s) /\ closed' = [closed EXCEPT ![p] = @ + q]
      /\ stream' = stream \o events /\ UNCHANGED <<opened, lots>>
  BY DEF Memory!Closes
<1>2. lots \in [Memory!Positions -> Seq(Memory!Owners)] /\ stream \in Seq(Events) /\ closed \in [Memory!Positions -> Nat]
  BY DEF MemoryInv, MemoryTyped
<1>3. Memory!Held(s) /\ q <= Len(lots[p]) - closed[p]
  BY <1>1 DEF Memory!HeldQty
<1>4. p \in Memory!Positions
  BY <1>3, StrategyClosesAssumption DEF Memory!Held, Memory!Position, Memory!Positions, MemoryInv,
       MemoryTyped
<1>5. events \in Seq(Events) /\ Len(events) = q
  <2>1. \A k \in 1 .. q : [pos |-> p, lot |-> closed[p] + k,
                           final |-> closed[p] + q = Len(lots[p])] \in Events
    BY <1>2, <1>4 DEF Events
  <2>2. events \in [1 .. q -> Events]
    BY <2>1
  <2> QED
    BY <2>2
<1>6. /\ stream' \in Seq(Events) /\ Len(stream') = Len(stream) + q
      /\ \A i \in 1 .. Len(stream') :
            stream'[i] = IF i <= Len(stream) THEN stream[i] ELSE events[i - Len(stream)]
  BY <1>1, <1>2, <1>5
<1>7. closed' \in [Memory!Positions -> Nat]
  BY <1>1, <1>2, <1>4
<1>11. Len(stream) \in Nat /\ \A k \in 1 .. q : events[k].pos = p /\ events[k].lot = closed[p] + k
  BY <1>2
<1> HIDE DEF events
<1>8. Known(lots', stream')
  <2>1. ASSUME NEW i \in 1 .. Len(stream')
        PROVE  stream'[i].lot \in 1 .. Len(lots[stream'[i].pos])
    <3>1. CASE i <= Len(stream)
      <4>1. i \in 1 .. Len(stream) /\ stream'[i] = stream[i]
        BY <3>1, <1>6, <1>11
      <4> QED
        BY <4>1 DEF MemoryInv, Known
    <3>2. CASE i > Len(stream)
      <4>1. i - Len(stream) \in 1 .. q
        BY <3>2, <1>6, <1>11
      <4>2. stream'[i].pos = p /\ stream'[i].lot = closed[p] + (i - Len(stream))
        <5>1. stream'[i] = events[i - Len(stream)]
          BY <3>2, <1>6, <1>11
        <5> QED
          BY <4>1, <5>1, <1>11
      <4> QED
        BY <4>1, <4>2, <1>2, <1>3, <1>4
    <3> QED
      BY <3>1, <3>2, <1>6, <1>11
  <2> QED
    BY <2>1, <1>1 DEF Known
<1>9. RowsSound'
  <2>1. \A i \in 1 .. Len(stream) : stream'[i] = stream[i]
    BY <1>6, <1>11
  <2>2. lots' \in Ledgers /\ stream' \in Histories /\ Len(stream) <= Len(stream')
    BY <1>1, <1>2, <1>6 DEF Ledgers, Histories
  <2>3. \A x \in Memory!Positions : Len(lots[x]) <= Len(lots'[x]) /\ \A k \in 1 .. Len(lots[x]) : lots'[x][k] = lots[x][k]
    BY <1>1, <1>2
  <2> QED
    BY <2>1, <2>2, <2>3, MarketGrows
<1> QED
  BY <1>6, <1>7, <1>8, <1>9

-----------------------------------------------------------------------------
(* Steps that leave lots and events alone keep the invariant when the rows   *)
(* they write cover what there is.                                          *)
MarketKept ==
    /\ UNCHANGED <<opened, lots, closed, stream>>
    /\ entry' \in [Symbols -> Orders] /\ exit' \in [Symbols -> Orders]
RowsWritten ==
    /\ memory' \in Rows /\ Covers(memory', lots, stream)
    /\ \/ checkpoint' = checkpoint
       \/ checkpoint' \in Rows /\ Covers(checkpoint', lots, stream)
    /\ \/ previous' = previous \/ previous' = Memory!NoRow
       \/ previous' \in Rows /\ Covers(previous', lots, stream)
    /\ runtime' \in Runtimes \cup {Memory!NoRow} /\ health' \in [Memory!Positions -> Nat]
ControlKept == at' \in Symbols \cup {NoSymbol} /\ todo' \subseteq Symbols /\ Placed'

LEMMA RowsKept ==
  ASSUME MemoryInv, MarketKept, RowsWritten, ControlKept
  PROVE  MemoryInv'
<1> USE DEF MarketKept, RowsWritten, ControlKept
<1>1. MemoryTyped'
  BY DEF MemoryInv, MemoryTyped
<1>2. Known(lots, stream)'
  BY DEF MemoryInv, Known
<1>3. RowsSound'
  BY DEF MemoryInv, RowsSound, Sound
<1> QED
  BY <1>1, <1>2, <1>3 DEF MemoryInv

LEMMA LeftChanges ==
  ASSUME NEW f \in [Symbols -> Orders], NEW s \in Symbols, NEW n \in Int
  PROVE  [f EXCEPT ![s].left = n] \in [Symbols -> Orders] /\ f[s].left \in Int
<1>1. f[s] \in Orders
  OBVIOUS
<1>2. [f[s] EXCEPT !.left = n] \in Orders /\ f[s].left \in Int
  BY <1>1 DEF Orders
<1> QED
  BY <1>2

LEMMA MarketStep ==
  ASSUME MemoryInv, NEW s \in Symbols, Memory!Market(s)
  PROVE  MemoryInv'
<1> USE DEF Memory!store, Memory!control
<1>0. entry \in [Symbols -> Orders] /\ exit \in [Symbols -> Orders] /\ entry[s].left \in Int /\ exit[s].left \in Int
  <2>1. entry \in [Symbols -> Orders] /\ exit \in [Symbols -> Orders]
    BY DEF MemoryInv, MemoryTyped
  <2> QED
    BY <2>1 DEF Orders
<1>1. CASE Memory!EntryFills(s)
  <2>1. /\ "own" \in Memory!Owners /\ Memory!Opens(s, "own") /\ UNCHANGED <<memory, checkpoint, previous>>
    BY <1>1 DEF Memory!EntryFills, Memory!Owners
  <2>2. /\ opened' \in [Symbols -> 0 .. MaxPositions] /\ lots' \in [Memory!Positions -> Seq(Memory!Owners)]
        /\ Known(lots', stream') /\ RowsSound'
    BY <2>1, OpensKeeps
  <2>3. entry' \in [Symbols -> Orders]
    <3>1. entry' = [entry EXCEPT ![s].left = entry[s].left - 1] /\ entry[s].left - 1 \in Int
      BY <1>0, <1>1 DEF Memory!EntryFills
    <3> QED
      BY <3>1, <1>0, LeftChanges, Zenon
  <2>4. UNCHANGED <<exit, closed, stream, memory, Memory!store, Memory!control>>
    BY <1>1 DEF Memory!EntryFills, Memory!Opens
  <2> QED
    BY <2>2, <2>3, <2>4 DEF MemoryInv, MemoryTyped, Placed
<1>2. CASE Memory!EntryEnds(s)
  <2>1. entry' \in [Symbols -> Orders]
    <3>1. entry' = [entry EXCEPT ![s].left = 0] /\ 0 \in Int
      BY <1>0, <1>2 DEF Memory!EntryEnds
    <3> QED
      BY <3>1, <1>0, LeftChanges, Zenon
  <2> QED
    BY <1>2, <2>1, RowsKept
       DEF Memory!EntryEnds, MemoryInv, MemoryTyped, Placed, RowsSound, Sound, MarketKept, RowsWritten, ControlKept
<1>3. CASE Memory!OtherAdds(s)
  <2>1. /\ "other" \in Memory!Owners /\ Memory!Opens(s, "other") /\ UNCHANGED <<memory, checkpoint, previous>>
    BY <1>3 DEF Memory!OtherAdds, Memory!Owners
  <2>2. /\ opened' \in [Symbols -> 0 .. MaxPositions] /\ lots' \in [Memory!Positions -> Seq(Memory!Owners)]
        /\ Known(lots', stream') /\ RowsSound'
    BY <2>1, OpensKeeps
  <2>3. UNCHANGED <<entry, exit, closed, stream, memory, Memory!store, Memory!control>>
    BY <1>3 DEF Memory!OtherAdds, Memory!Opens
  <2> QED
    BY <2>2, <2>3 DEF MemoryInv, MemoryTyped, Placed
<1>4. CASE Memory!OtherCloses(s)
  <2>1. PICK q \in 1 .. MaxLots[s] : Memory!Closes(s, q)
    BY <1>4 DEF Memory!OtherCloses
  <2>2. UNCHANGED <<entry, exit, opened, lots, memory, Memory!store, Memory!control>>
    BY <1>4, <2>1 DEF Memory!OtherCloses, Memory!Closes
  <2>3. /\ closed' \in [Memory!Positions -> Nat] /\ stream' \in Seq(Events)
        /\ Known(lots', stream') /\ RowsSound'
    BY <2>1, <2>2, ClosesKeeps, StrategyClosesAssumption
  <2> QED
    BY <2>2, <2>3 DEF MemoryInv, MemoryTyped, Placed
<1>5. CASE Memory!ExitFills(s)
  <2>1. PICK q \in 1 .. exit[s].left : Memory!Closes(s, q) /\ exit' = [exit EXCEPT ![s].left = @ - q]
    BY <1>5 DEF Memory!ExitFills
  <2>2. UNCHANGED <<entry, opened, lots, memory, Memory!store, Memory!control>>
    BY <1>5, <2>1 DEF Memory!ExitFills, Memory!Closes
  <2>3. exit[s].left \in Int /\ q \in Nat /\ q >= 1
    BY <2>1, <1>0
  <2>4. exit' \in [Symbols -> Orders]
    <3>1. exit' = [exit EXCEPT ![s].left = exit[s].left - q] /\ exit[s].left - q \in Int
      BY <2>1, <2>3
    <3> QED
      BY <3>1, <1>0, LeftChanges, Zenon
  <2>5. /\ closed' \in [Memory!Positions -> Nat] /\ stream' \in Seq(Events)
        /\ Known(lots', stream') /\ RowsSound'
    BY <2>1, <2>2, <2>3, ClosesKeeps
  <2> QED
    BY <2>2, <2>4, <2>5 DEF MemoryInv, MemoryTyped, Placed
<1>6. CASE Memory!ExitEnds(s)
  <2>1. exit' \in [Symbols -> Orders]
    <3>1. exit' = [exit EXCEPT ![s].left = 0] /\ 0 \in Int
      BY <1>0, <1>6 DEF Memory!ExitEnds
    <3> QED
      BY <3>1, <1>0, LeftChanges, Zenon
  <2> QED
    BY <1>6, <2>1, RowsKept
       DEF Memory!ExitEnds, MemoryInv, MemoryTyped, Placed, RowsSound, Sound, MarketKept, RowsWritten, ControlKept
<1> QED
  BY <1>1, <1>2, <1>3, <1>4, <1>5, <1>6 DEF Memory!Market

-----------------------------------------------------------------------------
LEMMA RowsOfIInv ==
  ASSUME MemoryInv
  PROVE  /\ memory \in Rows /\ Covers(memory, lots, stream)
         /\ checkpoint # Memory!NoRow => checkpoint \in Rows /\ Covers(checkpoint, lots, stream)
         /\ previous # Memory!NoRow => previous \in Rows /\ Covers(previous, lots, stream)
         /\ memory.counts \in [Memory!Positions -> Nat] /\ health \in [Memory!Positions -> Nat]
         /\ \A s \in Symbols : memory.ctx[s] \in Contexts
BY DEF MemoryInv, MemoryTyped, RowsSound, Sound, Rows

LEMMA WithKept ==
  ASSUME MemoryInv, NEW s \in Symbols, NEW c \in Contexts
  PROVE  /\ Memory!With(s, c) \in Rows /\ Covers(Memory!With(s, c), lots, stream)
         /\ Memory!Row(Memory!With(s, c)) \in Rows /\ Covers(Memory!Row(Memory!With(s, c)), lots, stream)
<1>1. Memory!With(s, c) \in Rows /\ Covers(Memory!With(s, c), lots, stream)
  BY RowsOfIInv, ContextIsApart DEF Memory!With
<1>2. Memory!Fresh.counts \in [Memory!Positions -> Nat]
  BY FreshRow
<1> QED
  BY <1>1, <1>2, SavedRow

LEMMA ContextsOfSteps ==
  ASSUME MemoryInv, NEW s \in Symbols
  PROVE  /\ Memory!Facts(s) \in Contexts
         /\ \A c \in Contexts : Memory!Tidied(s, c) \in Contexts
         /\ [memory.ctx[s] EXCEPT !.latch = exit[s].no] \in Contexts
         /\ [entry |-> TRUE, stop |-> entry[s].no + 1, latch |-> 0] \in Contexts
<1>1. memory.ctx[s] \in Contexts /\ Memory!NoContext \in Contexts
  BY RowsOfIInv, FreshRow
<1>2. entry[s].no \in Nat /\ exit[s].no \in Nat
  BY DEF MemoryInv, MemoryTyped, Orders
<1>3. \A c \in Contexts, n \in Nat : [c EXCEPT !.latch = n] \in Contexts
  BY DEF Contexts
<1>4. Memory!Facts(s) \in Contexts
  BY <1>1, <1>3 DEF Memory!Facts
<1>5. \A c \in Contexts : Memory!Tidied(s, c) \in Contexts
  BY <1>1 DEF Memory!Tidied
<1>6. [entry |-> TRUE, stop |-> entry[s].no + 1, latch |-> 0] \in Contexts
  BY <1>2 DEF Contexts
<1> QED
  BY <1>1, <1>2, <1>3, <1>4, <1>5, <1>6

LEMMA RowIsThere == \A rec \in Rows : rec # Memory!NoRow
<1>1. DOMAIN Memory!NoRow = {"absent"}
  BY DEF Memory!NoRow
<1>2. \A rec \in Rows : "cursor" \in DOMAIN rec
  BY DEF Rows
<1> QED
  BY <1>1, <1>2

LEMMA DeliveryStep ==
  ASSUME MemoryInv, NEW s \in Symbols, Memory!Deliver(s) \/ Memory!DeliverRaises(s)
  PROVE  MemoryInv'
<1> DEFINE batch == Memory!Queue(s)
           done == Memory!Completing(batch)
<1> USE RowsOfIInv DEF Memory!market, Memory!store
<1>1. done \in SUBSET Memory!Positions
  <2>1. ASSUME NEW i \in batch PROVE stream[i].pos \in Memory!Positions
    <3>1. i \in 1 .. Len(stream)
      BY DEF Memory!Queue, Covers, MemoryInv, MemoryTyped, Rows
    <3>2. stream[i] \in Events
      BY <3>1 DEF MemoryInv, MemoryTyped
    <3> QED
      BY <3>2 DEF Events
  <2> QED
    BY <2>1 DEF Memory!Completing
<1>2. ASSUME NEW d \in SUBSET Memory!Positions
      PROVE  Memory!Counted(memory.counts, d) \in [Memory!Positions -> Nat] /\ Memory!Saved(d) \in [Memory!Positions -> Nat]
  <2>1. Memory!Counted(memory.counts, d) \in [Memory!Positions -> Nat]
    BY DEF Memory!Counted
  <2> QED
    BY <2>1 DEF Memory!Saved
<1>3. CASE Memory!Deliver(s)
  <2>1. /\ memory' = Memory!Consumed(s, batch, done) /\ health' = Memory!Saved(done) /\ previous' = Memory!Row(memory)
        /\ pc' = "checkpoint" /\ at' = s
        /\ UNCHANGED <<entry, exit, opened, lots, closed, stream, todo, checkpoint, runtime>>
    BY <1>3 DEF Memory!Deliver, Memory!Goto
  <2>2. memory' \in Rows /\ Covers(memory', lots, stream)
    BY <1>1, <2>1, BatchCovers DEF MemoryInv, RowsSound, Sound
  <2>3. Memory!Row(memory) \in Rows /\ Covers(Memory!Row(memory), lots, stream)
    BY SavedRow
  <2>4. Memory!Row(memory) # Memory!NoRow
    BY <2>3, RowIsThere
  <2>5. Placed'
    BY <2>1, <2>4 DEF Placed
  <2>6. health' \in [Memory!Positions -> Nat]
    BY <1>1, <1>2, <2>1
  <2>7. MarketKept
    BY <2>1 DEF MarketKept, MemoryInv, MemoryTyped
  <2>8. RowsWritten
    BY <2>1, <2>2, <2>3, <2>6 DEF RowsWritten, MemoryInv, MemoryTyped
  <2>9. ControlKept
    BY <2>1, <2>5 DEF ControlKept, MemoryInv, MemoryTyped
  <2> QED
    BY <2>7, <2>8, <2>9, RowsKept
<1>4. CASE Memory!DeliverRaises(s)
  <2>1. /\ \E p \in done : \E before \in SUBSET (done \ {p}) :
              /\ memory' = Memory!Restored(IF checkpoint # Memory!NoRow THEN checkpoint ELSE memory,
                                 Memory!Counted(memory.counts, before \cup {p}))
              /\ health' = Memory!Saved(before)
        /\ pc' = "visit" /\ at' = NoSymbol /\ todo' = todo \ {s} /\ previous' = Memory!NoRow
        /\ UNCHANGED <<entry, exit, opened, lots, closed, stream, checkpoint, runtime>>
    BY <1>4 DEF Memory!DeliverRaises, Memory!NextSymbol
  <2>2. PICK p \in done : \E before \in SUBSET (done \ {p}) :
              /\ memory' = Memory!Restored(IF checkpoint # Memory!NoRow THEN checkpoint ELSE memory,
                                 Memory!Counted(memory.counts, before \cup {p}))
              /\ health' = Memory!Saved(before)
    BY <2>1
  <2>6. PICK before \in SUBSET (done \ {p}) :
              /\ memory' = Memory!Restored(IF checkpoint # Memory!NoRow THEN checkpoint ELSE memory,
                                 Memory!Counted(memory.counts, before \cup {p}))
              /\ health' = Memory!Saved(before)
    BY <2>2
  <2>3. memory' \in Rows /\ Covers(memory', lots, stream)
    BY <2>6, <1>1, <1>2, SavedRow
  <2>4. health' \in [Memory!Positions -> Nat]
    BY <2>6, <1>1, <1>2
  <2>5. Placed'
    BY <2>1 DEF Placed
  <2>7. MarketKept
    BY <2>1 DEF MarketKept, MemoryInv, MemoryTyped
  <2>8. RowsWritten
    BY <2>1, <2>3, <2>4 DEF RowsWritten, MemoryInv, MemoryTyped
  <2>9. ControlKept
    BY <2>1, <2>5 DEF ControlKept, MemoryInv, MemoryTyped
  <2> QED
    BY <2>7, <2>8, <2>9, RowsKept
<1> QED
  BY <1>3, <1>4

(* A row the strategy may be restarted with.                                *)
LEMMA LoadedRow ==
  ASSUME MemoryInv
  PROVE  Memory!Loaded \in Rows /\ Covers(Memory!Loaded, lots, stream)
<1> DEFINE base == IF checkpoint = Memory!NoRow THEN Memory!Fresh ELSE checkpoint
           over == IF runtime = Memory!NoRow THEN base
                   ELSE [base EXCEPT !.ctx = runtime.ctx, !.counts = runtime.counts]
<1>1. base \in Rows /\ Covers(base, lots, stream)
  <2>1. stream \in Histories
    BY DEF MemoryInv, MemoryTyped, Histories
  <2> QED
    BY <2>1, RowsOfIInv, FreshRow
<1>2. over \in Rows /\ Covers(over, lots, stream)
  <2>1. CASE runtime = Memory!NoRow
    BY <2>1, <1>1
  <2>2. CASE runtime # Memory!NoRow
    <3>1. runtime.ctx \in [Symbols -> Contexts] /\ runtime.counts \in [Memory!Positions -> Nat]
      BY <2>2 DEF MemoryInv, MemoryTyped, Runtimes
    <3> HIDE DEF base
    <3>2. \A c \in [Symbols -> Contexts], n \in [Memory!Positions -> Nat] :
             LET rec == [base EXCEPT !.ctx = c, !.counts = n]
             IN  /\ rec \in Rows /\ rec.cursor = base.cursor /\ rec.pending = base.pending
                 /\ rec.acc = base.acc /\ rec.completed = base.completed
      BY <1>1 DEF Rows
    <3> QED
      BY <1>1, <2>2, <3>1, <3>2 DEF Covers
  <2> QED
    BY <2>1, <2>2
<1>3. health \in [Memory!Positions -> Nat]
  BY RowsOfIInv
<1> HIDE DEF over
<1>4. Memory!Restored(over, health) \in Rows /\ Covers(Memory!Restored(over, health), lots, stream)
  BY <1>2, <1>3, SavedRow
<1> QED
  BY <1>4 DEF Memory!Loaded, over

LEMMA TickStep ==
  ASSUME MemoryInv, Memory!Tick \/ Memory!Trouble \/ \E bars \in SUBSET Symbols : Memory!StartTick(bars)
  PROVE  MemoryInv'
<1> USE DEF Memory!market, Memory!store, Memory!Goto, Memory!NextSymbol
<1>a. /\ entry \in [Symbols -> Orders] /\ exit \in [Symbols -> Orders]
      /\ runtime \in Runtimes \cup {Memory!NoRow} /\ at \in Symbols \cup {NoSymbol} /\ todo \subseteq Symbols
      /\ Placed
  BY DEF MemoryInv, MemoryTyped
<1>b. /\ memory \in Rows /\ Covers(memory, lots, stream)
      /\ checkpoint # Memory!NoRow => checkpoint \in Rows /\ Covers(checkpoint, lots, stream)
      /\ previous # Memory!NoRow => previous \in Rows /\ Covers(previous, lots, stream)
      /\ memory.counts \in [Memory!Positions -> Nat] /\ health \in [Memory!Positions -> Nat]
  BY RowsOfIInv
<1>1. CASE \E bars \in SUBSET Symbols : Memory!StartTick(bars)
  <2>7. MarketKept
    BY <1>1, <1>a DEF Memory!StartTick, MarketKept
  <2>8. RowsWritten
    BY <1>1, <1>a, <1>b DEF Memory!StartTick, RowsWritten
  <2>9. ControlKept
    BY <1>1, <1>a DEF Memory!StartTick, ControlKept, Placed
  <2> QED
    BY <2>7, <2>8, <2>9, RowsKept
<1>2. CASE \E s \in Symbols : Memory!NothingNew(s)
  <2>7. MarketKept
    BY <1>2, <1>a DEF Memory!NothingNew, MarketKept
  <2>8. RowsWritten
    BY <1>2, <1>a, <1>b DEF Memory!NothingNew, RowsWritten
  <2>9. ControlKept
    BY <1>2, <1>a DEF Memory!NothingNew, ControlKept, Placed
  <2> QED
    BY <2>7, <2>8, <2>9, RowsKept
<1>3. CASE \E s \in Symbols : Memory!Deliver(s) \/ Memory!DeliverRaises(s)
  BY <1>3, DeliveryStep
<1>4. CASE Memory!WriteCheckpoint
  <2>1. Memory!Row(memory) \in Rows /\ Covers(Memory!Row(memory), lots, stream)
    BY <1>b, SavedRow
  <2>7. MarketKept
    BY <1>4, <1>a DEF Memory!WriteCheckpoint, MarketKept
  <2>8. RowsWritten
    BY <1>4, <1>a, <1>b, <2>1 DEF Memory!WriteCheckpoint, RowsWritten
  <2>9. ControlKept
    BY <1>4, <1>a DEF Memory!WriteCheckpoint, ControlKept, Placed
  <2> QED
    BY <2>7, <2>8, <2>9, RowsKept
<1>5. CASE Memory!WriteRaises
  <2>1. Memory!Row(memory) \in Rows /\ Covers(Memory!Row(memory), lots, stream)
    BY <1>b, SavedRow
  <2>2. /\ checkpoint' = checkpoint \/ checkpoint' = Memory!Row(memory)
        /\ memory' = Memory!Restored(IF checkpoint' # Memory!NoRow THEN checkpoint' ELSE previous, memory.counts)
        /\ previous # Memory!NoRow
    BY <1>5, <1>a DEF Memory!WriteRaises, Memory!RollBack, Placed
  <2>3. checkpoint' # Memory!NoRow => checkpoint' \in Rows /\ Covers(checkpoint', lots, stream)
    BY <1>b, <2>1, <2>2
  <2>4. memory' \in Rows /\ Covers(memory', lots, stream)
    BY <1>b, <2>2, <2>3, SavedRow
  <2>7. MarketKept
    BY <1>5, <1>a DEF Memory!WriteRaises, MarketKept
  <2>8. RowsWritten
    BY <1>5, <1>a, <1>b, <2>1, <2>2, <2>4 DEF Memory!WriteRaises, RowsWritten
  <2>9. ControlKept
    BY <1>5, <1>a DEF Memory!WriteRaises, ControlKept, Placed
  <2> QED
    BY <2>7, <2>8, <2>9, RowsKept
<1>6. CASE Memory!NoLatch
  <2>1. at \in Symbols /\ Memory!Tidied(at, memory.ctx[at]) \in Contexts
    BY <1>6, <1>a, RowsOfIInv, ContextsOfSteps DEF Memory!NoLatch, Placed
  <2>2. Memory!With(at, Memory!Tidied(at, memory.ctx[at])) \in Rows /\ Covers(Memory!With(at, Memory!Tidied(at, memory.ctx[at])), lots, stream)
    BY <2>1, WithKept
  <2>7. MarketKept
    BY <1>6, <1>a DEF Memory!NoLatch, MarketKept
  <2>8. RowsWritten
    BY <1>6, <1>a, <1>b, <2>2 DEF Memory!NoLatch, RowsWritten
  <2>9. ControlKept
    BY <1>6, <1>a DEF Memory!NoLatch, ControlKept, Placed
  <2> QED
    BY <2>7, <2>8, <2>9, RowsKept
<1>7. CASE Memory!Reconcile
  <2>1. at \in Symbols /\ Memory!Facts(at) \in Contexts /\ Memory!Tidied(at, Memory!Facts(at)) \in Contexts
    BY <1>7, <1>a, ContextsOfSteps DEF Memory!Reconcile, Placed
  <2>2. /\ Memory!With(at, Memory!Facts(at)) \in Rows /\ Covers(Memory!With(at, Memory!Facts(at)), lots, stream)
        /\ Memory!Row(Memory!With(at, Memory!Facts(at))) \in Rows /\ Covers(Memory!Row(Memory!With(at, Memory!Facts(at))), lots, stream)
        /\ Memory!With(at, Memory!Tidied(at, Memory!Facts(at))) \in Rows /\ Covers(Memory!With(at, Memory!Tidied(at, Memory!Facts(at))), lots, stream)
    BY <2>1, WithKept
  <2>7. MarketKept
    BY <1>7, <1>a DEF Memory!Reconcile, MarketKept
  <2>8. RowsWritten
    BY <1>7, <1>a, <1>b, <2>2 DEF Memory!Reconcile, RowsWritten
  <2>9. ControlKept
    BY <1>7, <1>a DEF Memory!Reconcile, ControlKept, Placed
  <2> QED
    BY <2>7, <2>8, <2>9, RowsKept
<1>8. CASE Memory!ReconcileRaises
  <2>1. at \in Symbols /\ Memory!Facts(at) \in Contexts /\ Memory!Tidied(at, Memory!Facts(at)) \in Contexts
    BY <1>8, <1>a, ContextsOfSteps DEF Memory!ReconcileRaises, Placed
  <2>2. /\ Memory!With(at, Memory!Facts(at)) \in Rows /\ Covers(Memory!With(at, Memory!Facts(at)), lots, stream)
        /\ Memory!Row(Memory!With(at, Memory!Facts(at))) \in Rows /\ Covers(Memory!Row(Memory!With(at, Memory!Facts(at))), lots, stream)
        /\ Memory!With(at, Memory!Tidied(at, Memory!Facts(at))) \in Rows /\ Covers(Memory!With(at, Memory!Tidied(at, Memory!Facts(at))), lots, stream)
    BY <2>1, WithKept
  <2>7. MarketKept
    BY <1>8, <1>a DEF Memory!ReconcileRaises, MarketKept
  <2>8. RowsWritten
    BY <1>8, <1>a, <1>b, <2>2 DEF Memory!ReconcileRaises, RowsWritten
  <2>9. ControlKept
    BY <1>8, <1>a DEF Memory!ReconcileRaises, ControlKept, Placed
  <2> QED
    BY <2>7, <2>8, <2>9, RowsKept
<1>9. CASE Memory!Pass
  <2>7. MarketKept
    BY <1>9, <1>a DEF Memory!Pass, MarketKept
  <2>8. RowsWritten
    BY <1>9, <1>a, <1>b DEF Memory!Pass, RowsWritten
  <2>9. ControlKept
    BY <1>9, <1>a DEF Memory!Pass, ControlKept, Placed
  <2> QED
    BY <2>7, <2>8, <2>9, RowsKept
<1>10. CASE Memory!Propose
  <2>7. MarketKept
    BY <1>10, <1>a DEF Memory!Propose, MarketKept
  <2>8. RowsWritten
    BY <1>10, <1>a, <1>b DEF Memory!Propose, RowsWritten
  <2>9. ControlKept
    BY <1>10, <1>a DEF Memory!Propose, ControlKept, Placed
  <2> QED
    BY <2>7, <2>8, <2>9, RowsKept
<1>11. CASE Memory!ProposeRaises
  <2>7. MarketKept
    BY <1>11, <1>a DEF Memory!ProposeRaises, MarketKept
  <2>8. RowsWritten
    BY <1>11, <1>a, <1>b DEF Memory!ProposeRaises, RowsWritten
  <2>9. ControlKept
    BY <1>11, <1>a DEF Memory!ProposeRaises, ControlKept, Placed
  <2> QED
    BY <2>7, <2>8, <2>9, RowsKept
<1>12. CASE Memory!SubmitExit
  <2>1. at \in Symbols
    BY <1>12, <1>a DEF Memory!SubmitExit, Placed
  <2>2. exit' \in [Symbols -> Orders]
    <3>1. exit[at].no + 1 \in Nat
      BY <2>1, <1>a DEF Orders
    <3>2. Memory!HeldQty(at) \in Int
      BY <2>1, StrategyClosesAssumption DEF Memory!HeldQty, Memory!Held, Memory!Position,
           Memory!Positions, MemoryInv, MemoryTyped
    <3>3. [no |-> exit[at].no + 1, left |-> Memory!HeldQty(at)] \in Orders
      BY <3>1, <3>2 DEF Orders
    <3> QED
      BY <1>12, <1>a, <3>3 DEF Memory!SubmitExit
  <2>7. MarketKept
    BY <1>12, <1>a, <2>2 DEF Memory!SubmitExit, MarketKept
  <2>8. RowsWritten
    BY <1>12, <1>a, <1>b DEF Memory!SubmitExit, RowsWritten
  <2>9. ControlKept
    BY <1>12, <1>a, <2>1 DEF Memory!SubmitExit, ControlKept, Placed
  <2> QED
    BY <2>7, <2>8, <2>9, RowsKept
<1>13. CASE Memory!Track
  <2>1. at \in Symbols
    BY <1>13, <1>a DEF Memory!Track, Placed
  <2>2. /\ Memory!Latched(at) \in Rows /\ Covers(Memory!Latched(at), lots, stream)
        /\ Memory!Row(Memory!Latched(at)) \in Rows /\ Covers(Memory!Row(Memory!Latched(at)), lots, stream)
    BY <2>1, ContextsOfSteps, WithKept DEF Memory!Latched
  <2>7. MarketKept
    BY <1>13, <1>a DEF Memory!Track, MarketKept
  <2>8. RowsWritten
    BY <1>13, <1>a, <1>b, <2>2 DEF Memory!Track, RowsWritten
  <2>9. ControlKept
    BY <1>13, <1>a DEF Memory!Track, ControlKept, Placed
  <2> QED
    BY <2>7, <2>8, <2>9, RowsKept
<1>14. CASE Memory!TrackRaises
  <2>1. at \in Symbols
    BY <1>14, <1>a DEF Memory!TrackRaises, Placed
  <2>2. /\ Memory!Latched(at) \in Rows /\ Covers(Memory!Latched(at), lots, stream)
        /\ Memory!Row(Memory!Latched(at)) \in Rows /\ Covers(Memory!Row(Memory!Latched(at)), lots, stream)
    BY <2>1, ContextsOfSteps, WithKept DEF Memory!Latched
  <2>7. MarketKept
    BY <1>14, <1>a DEF Memory!TrackRaises, MarketKept
  <2>8. RowsWritten
    BY <1>14, <1>a, <1>b, <2>2 DEF Memory!TrackRaises, RowsWritten
  <2>9. ControlKept
    BY <1>14, <1>a DEF Memory!TrackRaises, ControlKept, Placed
  <2> QED
    BY <2>7, <2>8, <2>9, RowsKept
<1>15. ASSUME NEW s \in Symbols, Memory!Allocate(s)
       PROVE  MemoryInv'
  <2> DEFINE accepted == [entry |-> TRUE, stop |-> entry[s].no + 1, latch |-> 0]
  <2>1. Memory!With(s, accepted) \in Rows /\ Covers(Memory!With(s, accepted), lots, stream)
    BY ContextsOfSteps, WithKept
  <2>2. entry' \in [Symbols -> Orders]
    <3>1. PICK size \in 1 .. MaxLots[s] : entry' = [entry EXCEPT ![s] = [no |-> @.no + 1, left |-> size]]
      BY <1>15 DEF Memory!Allocate
    <3>2. [no |-> entry[s].no + 1, left |-> size] \in Orders
      BY <1>a, StrategyClosesAssumption DEF Orders
    <3> QED
      BY <1>a, <3>1, <3>2
  <2>7. MarketKept
    BY <1>15, <1>a, <2>2 DEF Memory!Allocate, MarketKept
  <2>8. RowsWritten
    BY <1>15, <1>a, <1>b, <2>1 DEF Memory!Allocate, RowsWritten
  <2>9. ControlKept
    BY <1>15, <1>a DEF Memory!Allocate, ControlKept, Placed
  <2> QED
    BY <2>7, <2>8, <2>9, RowsKept
<1>16. CASE \E s \in Symbols : Memory!Drop(s)
  <2>7. MarketKept
    BY <1>16, <1>a DEF Memory!Drop, MarketKept
  <2>8. RowsWritten
    BY <1>16, <1>a, <1>b DEF Memory!Drop, RowsWritten
  <2>9. ControlKept
    BY <1>16, <1>a DEF Memory!Drop, ControlKept, Placed
  <2> QED
    BY <2>7, <2>8, <2>9, RowsKept
<1>17. CASE Memory!FinishTick
  <2>1. [ctx |-> memory.ctx, counts |-> Memory!Row(memory).counts] \in Runtimes
    BY <1>b, SavedRow DEF Rows, Runtimes
  <2>7. MarketKept
    BY <1>17, <1>a DEF Memory!FinishTick, MarketKept
  <2>8. RowsWritten
    BY <1>17, <1>a, <1>b, <2>1 DEF Memory!FinishTick, RowsWritten
  <2>9. ControlKept
    BY <1>17, <1>a DEF Memory!FinishTick, ControlKept, Placed
  <2> QED
    BY <2>7, <2>8, <2>9, RowsKept
<1>18. CASE Memory!Crash
  <2>7. MarketKept
    BY <1>18, <1>a DEF Memory!Crash, MarketKept
  <2>8. RowsWritten
    BY <1>18, <1>a, <1>b, LoadedRow DEF Memory!Crash, RowsWritten
  <2>9. ControlKept
    BY <1>18, <1>a DEF Memory!Crash, ControlKept, Placed
  <2> QED
    BY <2>7, <2>8, <2>9, RowsKept
<1> QED
  BY <1>1, <1>2, <1>3, <1>4, <1>5, <1>6, <1>7, <1>8, <1>9, <1>10, <1>11, <1>12, <1>13, <1>14, <1>15,
     <1>16, <1>17, <1>18 DEF Memory!Tick, Memory!Trouble, Memory!Visit

(* The invariant holds in every reachable state.                            *)
THEOREM RowsAlwaysCover == Memory!Spec => []MemoryInv
<1>1. ASSUME MemoryInv, [Memory!Next]_Memory!vars
      PROVE  MemoryInv'
  <2>1. CASE \E s \in Symbols : Memory!Market(s)
    BY <2>1, <1>1, MarketStep
  <2>2. CASE \/ \E bars \in (SUBSET Symbols) \ {{}} : Memory!StartTick(bars)
             \/ Memory!Tick \/ Memory!Trouble
    BY <2>2, <1>1, TickStep
  <2>3. CASE UNCHANGED Memory!vars
    BY <2>3, <1>1 DEF Memory!vars, MemoryInv, MemoryTyped, Placed, RowsSound, Sound
  <2> QED
    BY <1>1, <2>1, <2>2, <2>3 DEF Memory!Next
<1> QED
  BY <1>1, MemoryInit, PTL DEF Memory!Spec

(* No close of the strategy falls between cursor, queues and totals, in     *)
(* memory or in the checkpoint (_consume_execution_trades, base.py): for    *)
(* any symbols, positions, lots, failed writes and crashes.                 *)
THEOREM ClosesAreNeverSkipped == Memory!Spec => []NoCloseSkipped
<1>1. MemoryInv => NoCloseSkipped
  BY DEF MemoryInv, RowsSound, Sound, Covers, NoCloseSkipped, AccountedIn, Mine, NoRow,
     Memory!NoRow
<1> QED
  BY <1>1, RowsAlwaysCover, PTL

-----------------------------------------------------------------------------
(* What a position is worth: the lots of the strategy, and whether all of   *)
(* them are closed.                                                         *)
OwnLots(l, p) == {k \in 1 .. Len(l[p]) : l[p][k] = "own"}
Whole(l, c, p) == c[p] = Len(l[p]) /\ c[p] > 0

(* Lots and events agree: positions to come are empty, every closed lot has *)
(* its event, and a final event is of a position that is whole - which      *)
(* stays so, as the next lot of the symbol is of the next position.         *)
EventsAgree(o, l, c, st) ==
    /\ \A p \in Memory!Positions : p[2] > o[p[1]] => Len(l[p]) = 0
    /\ \A p \in Memory!Positions :
          /\ c[p] <= Len(l[p])
          /\ \A k \in 1 .. c[p] : \E i \in 1 .. Len(st) : st[i].pos = p /\ st[i].lot = k
    /\ \A i \in 1 .. Len(st) : st[i].final => Whole(l, c, st[i].pos)

(* The running totals of a row are of the strategy's own lots and empty     *)
(* once the position is completed; queues hold events of their symbol.      *)
Totals(rec, l, st) ==
    /\ \A p \in Memory!Positions : rec.acc[p] \subseteq OwnLots(l, p)
    /\ \A p \in rec.completed : rec.acc[p] = {}
    /\ \A s \in Symbols : \A i \in rec.pending[s] : st[i].pos[1] = s

Tellings(l, c, tt) ==
    \A t \in tt : t.pos \in Memory!Positions /\ Whole(l, c, t.pos) /\ t.lots = OwnLots(l, t.pos)

CompletionInv ==
    /\ EventsAgree(opened, lots, closed, stream)
    /\ Totals(memory, lots, stream)
    /\ checkpoint # Memory!NoRow => Totals(checkpoint, lots, stream)
    /\ previous # Memory!NoRow => Totals(previous, lots, stream)
    /\ Tellings(lots, closed, told)

LEMMA EventTyped ==
  ASSUME MemoryInv, NEW i \in 1 .. Len(stream)
  PROVE  /\ stream[i].pos \in Memory!Positions /\ stream[i].pos[1] \in Symbols
         /\ stream[i].lot \in 1 .. Len(lots[stream[i].pos]) /\ stream[i].final \in BOOLEAN
<1>1. stream[i] \in Events
  BY DEF MemoryInv, MemoryTyped
<1>2. stream[i].pos \in Memory!Positions /\ stream[i].final \in BOOLEAN
  BY <1>1 DEF Events
<1> QED
  BY <1>2 DEF MemoryInv, Known, Memory!Positions

(* A final event in a batch of its symbol: all own lots are folded.         *)
LEMMA BatchIsWhole ==
  ASSUME MemoryInv, CompletionInv, NEW s \in Symbols, NEW p \in Memory!Completing(Memory!Queue(s))
  PROVE  /\ p \in Memory!Positions /\ p \notin memory.completed /\ Whole(lots, closed, p)
         /\ Memory!Folded(Memory!Queue(s), p) = OwnLots(lots, p)
<1> DEFINE batch == Memory!Queue(s)
<1>1. Len(stream) \in Nat /\ memory.cursor \in Nat /\ memory.cursor <= Len(stream)
  BY DEF MemoryInv, MemoryTyped, Histories, Rows, RowsSound, Sound, Covers
<1>2. batch \subseteq 1 .. Len(stream)
  BY <1>1 DEF Memory!Queue, MemoryInv, RowsSound, Sound, Covers
<1>3. \A i \in batch : stream[i].pos[1] = s
  BY DEF Memory!Queue, CompletionInv, Totals
<1>4. PICK f \in batch : stream[f].final /\ p = stream[f].pos
  BY DEF Memory!Completing
<1>5. p \in Memory!Positions /\ p[1] = s /\ Whole(lots, closed, p)
  BY <1>2, <1>3, <1>4, EventTyped DEF CompletionInv, EventsAgree
<1>6. p \notin memory.completed
  <2>1. Memory!Folded(batch, p) # {}
    BY DEF Memory!Completing
  <2> QED
    BY <2>1 DEF Memory!Folded, CompletionInv, Totals
<1>7. Memory!Folded(batch, p) = memory.acc[p] \cup {stream[i].lot : i \in {j \in batch : stream[j].pos = p /\ Memory!Mine(j)}}
  BY <1>6 DEF Memory!Folded
<1>8. Memory!Folded(batch, p) \subseteq OwnLots(lots, p)
  <2>1. memory.acc[p] \subseteq OwnLots(lots, p)
    BY <1>5 DEF CompletionInv, Totals
  <2>2. ASSUME NEW j \in batch, stream[j].pos = p, Memory!Mine(j)
        PROVE  stream[j].lot \in OwnLots(lots, p)
    BY <2>2, <1>2, EventTyped DEF Memory!Mine, OwnLots
  <2> QED
    BY <1>7, <2>1, <2>2
<1>9. ASSUME NEW k \in OwnLots(lots, p)
      PROVE  k \in Memory!Folded(batch, p)
  <2>1. k \in 1 .. closed[p] /\ lots[p][k] = "own"
    BY <1>5 DEF OwnLots, Whole
  <2>2. PICK i \in 1 .. Len(stream) : stream[i].pos = p /\ stream[i].lot = k
    BY <1>5, <2>1 DEF CompletionInv, EventsAgree
  <2>3. Memory!Mine(i)
    BY <2>1, <2>2 DEF Memory!Mine
  <2>4. i \in batch \/ k \in memory.acc[p]
    <3>1. CASE i <= memory.cursor
      <4>1. i \in 1 .. memory.cursor /\ lots[stream[i].pos][stream[i].lot] = "own"
        BY <3>1, <1>1, <2>1, <2>2
      <4>2. i \in memory.pending[s] \/ k \in memory.acc[p]
        BY <4>1, <2>2, <1>5, <1>6 DEF MemoryInv, RowsSound, Sound, Covers
      <4> QED
        BY <4>2 DEF Memory!Queue
    <3>2. CASE i > memory.cursor
      BY <3>2, <1>1, <1>5, <2>2, <2>3 DEF Memory!Queue
    <3> QED
      BY <3>1, <3>2, <1>1
  <2> QED
    BY <1>7, <2>2, <2>3, <2>4
<1> QED
  BY <1>5, <1>6, <1>8, <1>9

LEMMA BatchTotals ==
  ASSUME MemoryInv, CompletionInv, NEW s \in Symbols, NEW done \in SUBSET Memory!Positions
  PROVE  Totals(Memory!Consumed(s, Memory!Queue(s), done), lots, stream)
<1> DEFINE batch == Memory!Queue(s)
           new == Memory!Consumed(s, batch, done)
<1>1. Len(stream) \in Nat /\ memory.cursor \in Nat /\ memory.cursor <= Len(stream)
  BY DEF MemoryInv, MemoryTyped, Histories, Rows, RowsSound, Sound, Covers
<1>2. batch \subseteq 1 .. Len(stream)
  BY <1>1 DEF Memory!Queue, MemoryInv, RowsSound, Sound, Covers
<1>3. ASSUME NEW t \in Symbols, NEW i \in Memory!Queue(t)
      PROVE  stream[i].pos[1] = t
  BY <1>3 DEF Memory!Queue, CompletionInv, Totals
<1>4. ASSUME NEW p \in Memory!Positions
      PROVE  Memory!Folded(batch, p) \subseteq OwnLots(lots, p)
  <2>1. memory.acc[p] \subseteq OwnLots(lots, p)
    BY DEF CompletionInv, Totals
  <2>2. ASSUME NEW j \in batch, stream[j].pos = p, Memory!Mine(j)
        PROVE  stream[j].lot \in OwnLots(lots, p)
    BY <2>2, <1>2, EventTyped DEF Memory!Mine, OwnLots
  <2> QED
    BY <2>1, <2>2 DEF Memory!Folded
<1>5. /\ new.completed = memory.completed \cup done
      /\ \A t \in Symbols : new.pending[t] = IF t = s THEN {} ELSE Memory!Queue(t)
      /\ \A p \in Memory!Positions : new.acc[p] = IF p \in done THEN {} ELSE Memory!Folded(batch, p)
  BY DEF Memory!Consumed
<1>6. memory.completed \subseteq Memory!Positions
  BY DEF MemoryInv, MemoryTyped, Rows
<1>7. ASSUME NEW p \in new.completed PROVE new.acc[p] = {}
  <2>1. CASE p \in done
    BY <2>1, <1>5
  <2>2. CASE p \notin done
    <3>1. p \in memory.completed /\ p \in Memory!Positions /\ memory.acc[p] = {}
      BY <2>2, <1>5, <1>6 DEF CompletionInv, Totals
    <3> QED
      BY <3>1, <2>2, <1>5 DEF Memory!Folded
  <2> QED
    BY <2>1, <2>2
<1>8. Totals(new, lots, stream)
  <2> HIDE DEF new
  <2> QED
    BY <1>3, <1>4, <1>5, <1>7 DEF Totals
<1> QED
  BY <1>8

-----------------------------------------------------------------------------
(* A whole position does not change any more.                               *)
LEMMA OpensElsewhere ==
  ASSUME MemoryInv, CompletionInv, NEW s \in Symbols, NEW owner, Memory!Opens(s, owner)
  PROVE  /\ UNCHANGED <<closed, stream>>
         /\ EventsAgree(opened', lots', closed', stream')
         /\ \A p \in Memory!Positions : /\ Whole(lots, closed, p) => lots'[p] = lots[p]
                                        /\ OwnLots(lots, p) \subseteq OwnLots(lots', p)
<1> DEFINE n == IF Memory!Held(s) THEN opened[s] ELSE opened[s] + 1
           new == <<s, n>>
<1>1. /\ opened' = [opened EXCEPT ![s] = n] /\ lots' = [lots EXCEPT ![new] = Append(@, owner)]
      /\ UNCHANGED <<closed, stream>> /\ n <= MaxPositions
  BY DEF Memory!Opens
<1>2. /\ opened \in [Symbols -> 0 .. MaxPositions] /\ lots \in [Memory!Positions -> Seq(Memory!Owners)]
      /\ closed \in [Memory!Positions -> Nat] /\ MaxPositions \in Nat
  BY StrategyClosesAssumption DEF MemoryInv, MemoryTyped
<1>3. n \in Nat /\ n >= 1 /\ new \in Memory!Positions /\ n >= opened[s]
  <2>1. n \in Nat /\ n >= 1 /\ n >= opened[s]
    BY <1>1, <1>2 DEF Memory!Held
  <2> QED
    BY <1>1, <1>2, <2>1 DEF Memory!Positions
<1>4. ~Whole(lots, closed, new)
  <2>1. CASE Memory!Held(s)
    BY <2>1, <1>2 DEF Memory!Held, Whole, Memory!Position
  <2>2. CASE ~Memory!Held(s)
    <3>1. new[2] > opened[new[1]]
      BY <2>2, <1>2
    <3>2. Len(lots[new]) = 0
      BY <3>1, <1>3 DEF CompletionInv, EventsAgree
    <3> QED
      BY <3>2 DEF Whole
  <2> QED
    BY <2>1, <2>2
<1>5. ASSUME NEW p \in Memory!Positions, p # new
      PROVE  lots'[p] = lots[p]
  BY <1>1, <1>2, <1>5
<1>6. /\ Len(lots'[new]) = Len(lots[new]) + 1
      /\ \A k \in 1 .. Len(lots[new]) : lots'[new][k] = lots[new][k]
  <2>1. lots'[new] = Append(lots[new], owner) /\ lots[new] \in Seq(Memory!Owners)
    BY <1>1, <1>2, <1>3
  <2> QED
    BY <2>1
<1>7. EventsAgree(opened', lots', closed', stream')
  <2>1. ASSUME NEW p \in Memory!Positions, p[2] > opened'[p[1]]
        PROVE  Len(lots'[p]) = 0
    <3>1. p # new /\ p[2] > opened[p[1]]
      <4>1. p[1] \in Symbols /\ p[2] \in Nat
        BY DEF Memory!Positions
      <4> QED
        BY <2>1, <4>1, <1>1, <1>2, <1>3
    <3> QED
      BY <3>1, <1>5 DEF CompletionInv, EventsAgree
  <2>2. ASSUME NEW p \in Memory!Positions
        PROVE  /\ closed'[p] <= Len(lots'[p])
               /\ \A k \in 1 .. closed'[p] : \E i \in 1 .. Len(stream') : stream'[i].pos = p /\ stream'[i].lot = k
    <3>1. Len(lots'[p]) >= Len(lots[p]) /\ Len(lots[p]) \in Nat /\ Len(lots'[p]) \in Nat /\ closed[p] \in Nat
      <4>1. Len(lots[p]) \in Nat /\ closed[p] \in Nat
        BY <1>2
      <4>2. Len(lots'[p]) = Len(lots[p]) \/ Len(lots'[p]) = Len(lots[p]) + 1
        BY <1>5, <1>6
      <4> QED
        BY <4>1, <4>2
    <3>2. closed[p] <= Len(lots[p])
      BY DEF CompletionInv, EventsAgree
    <3> QED
      BY <3>1, <3>2, <1>1 DEF CompletionInv, EventsAgree
  <2>3. ASSUME NEW i \in 1 .. Len(stream'), stream'[i].final
        PROVE  Whole(lots', closed', stream'[i].pos)
    <3>1. Whole(lots, closed, stream[i].pos) /\ stream[i].pos \in Memory!Positions
      BY <2>3, <1>1, EventTyped DEF CompletionInv, EventsAgree
    <3> QED
      BY <3>1, <1>1, <1>4, <1>5 DEF Whole
  <2> QED
    BY <2>1, <2>2, <2>3 DEF EventsAgree
<1>8. ASSUME NEW p \in Memory!Positions
      PROVE  /\ Whole(lots, closed, p) => lots'[p] = lots[p]
             /\ OwnLots(lots, p) \subseteq OwnLots(lots', p)
  <2>1. CASE p = new
    <3>1. Len(lots[new]) \in Nat
      BY <1>2, <1>3
    <3> QED
      BY <2>1, <3>1, <1>4, <1>6 DEF OwnLots
  <2>2. CASE p # new
    BY <2>2, <1>5 DEF OwnLots
  <2> QED
    BY <2>1, <2>2
<1> QED
  BY <1>1, <1>7, <1>8

LEMMA ClosesElsewhere ==
  ASSUME MemoryInv, CompletionInv, NEW s \in Symbols, NEW q \in Nat, q >= 1, Memory!Closes(s, q)
  PROVE  /\ UNCHANGED lots
         /\ EventsAgree(opened', lots', closed', stream')
         /\ Len(stream') >= Len(stream) /\ \A i \in 1 .. Len(stream) : stream'[i] = stream[i]
         /\ \A p \in Memory!Positions : Whole(lots, closed, p) => closed'[p] = closed[p]
<1> DEFINE p == Memory!Position(s)
           flat == closed[p] + q = Len(lots[p])
           events == [k \in 1 .. q |-> [pos |-> p, lot |-> closed[p] + k, final |-> flat]]
<1>1. /\ q <= Memory!HeldQty(s) /\ closed' = [closed EXCEPT ![p] = @ + q]
      /\ stream' = stream \o events /\ UNCHANGED <<opened, lots>>
  BY DEF Memory!Closes
<1>2. /\ lots \in [Memory!Positions -> Seq(Memory!Owners)] /\ stream \in Seq(Events) /\ closed \in [Memory!Positions -> Nat]
      /\ opened \in [Symbols -> 0 .. MaxPositions] /\ MaxPositions \in Nat
  BY StrategyClosesAssumption DEF MemoryInv, MemoryTyped
<1>3. Memory!Held(s) /\ q <= Len(lots[p]) - closed[p]
  BY <1>1 DEF Memory!HeldQty
<1>4. p \in Memory!Positions /\ Len(lots[p]) \in Nat /\ closed[p] \in Nat
  <2>1. p \in Memory!Positions
    BY <1>2, <1>3 DEF Memory!Held, Memory!Position, Memory!Positions
  <2> QED
    BY <2>1, <1>2
<1>5. events \in Seq(Events) /\ Len(events) = q
  <2>1. \A k \in 1 .. q : [pos |-> p, lot |-> closed[p] + k, final |-> flat] \in Events
    BY <1>2, <1>4 DEF Events
  <2>2. events \in [1 .. q -> Events]
    BY <2>1
  <2> QED
    BY <2>2
<1>6. /\ Len(stream') = Len(stream) + q /\ Len(stream) \in Nat
      /\ \A i \in 1 .. Len(stream') :
            stream'[i] = IF i <= Len(stream) THEN stream[i] ELSE events[i - Len(stream)]
  BY <1>1, <1>2, <1>5
<1>7. \A k \in 1 .. q : events[k].pos = p /\ events[k].lot = closed[p] + k /\ events[k].final = flat
  OBVIOUS
<1> HIDE DEF events
<1>8. \A i \in 1 .. Len(stream) : stream'[i] = stream[i]
  BY <1>6
<1>9. /\ closed'[p] = closed[p] + q
      /\ \A x \in Memory!Positions : x # p => closed'[x] = closed[x]
  BY <1>1, <1>2, <1>4
<1>10. \A x \in Memory!Positions : Whole(lots, closed, x) => x # p
  BY <1>3, <1>4 DEF Whole
<1>11. ASSUME NEW x \in Memory!Positions
       PROVE  /\ closed'[x] <= Len(lots'[x])
              /\ \A k \in 1 .. closed'[x] : \E i \in 1 .. Len(stream') : stream'[i].pos = x /\ stream'[i].lot = k
  <2>1. closed'[x] <= Len(lots'[x])
    <3>1. CASE x = p
      BY <3>1, <1>1, <1>3, <1>4, <1>9
    <3>2. CASE x # p
      BY <3>2, <1>1, <1>9 DEF CompletionInv, EventsAgree
    <3> QED
      BY <3>1, <3>2
  <2>2. ASSUME NEW k \in 1 .. closed'[x]
        PROVE  \E i \in 1 .. Len(stream') : stream'[i].pos = x /\ stream'[i].lot = k
    <3>1. CASE k \in 1 .. closed[x]
      <4>1. PICK i \in 1 .. Len(stream) : stream[i].pos = x /\ stream[i].lot = k
        BY <3>1 DEF CompletionInv, EventsAgree
      <4>2. i \in 1 .. Len(stream') /\ stream'[i] = stream[i]
        BY <1>6, <1>8
      <4> QED
        BY <4>1, <4>2
    <3>2. CASE k \notin 1 .. closed[x]
      <4>1. x = p /\ k > closed[p] /\ k <= closed[p] + q
        BY <3>2, <1>2, <1>9, <1>4
      <4>2. k - closed[p] \in 1 .. q
        BY <4>1, <1>4
      <4> DEFINE i == Len(stream) + (k - closed[p])
      <4>3. i \in 1 .. Len(stream') /\ ~(i <= Len(stream)) /\ i - Len(stream) = k - closed[p]
        BY <4>2, <1>6, <1>4
      <4>4. stream'[i] = events[k - closed[p]]
        BY <4>3, <1>6
      <4>5. stream'[i].pos = p /\ stream'[i].lot = k
        BY <4>2, <4>4, <1>4, <1>7
      <4> QED
        BY <4>1, <4>3, <4>5
    <3> QED
      BY <3>1, <3>2
  <2> QED
    BY <2>1, <2>2
<1>12. ASSUME NEW i \in 1 .. Len(stream'), stream'[i].final
       PROVE  Whole(lots', closed', stream'[i].pos)
  <2>1. CASE i <= Len(stream)
    <3>1. i \in 1 .. Len(stream) /\ stream'[i] = stream[i]
      BY <2>1, <1>6, <1>8
    <3>2. stream[i].pos \in Memory!Positions /\ Whole(lots, closed, stream[i].pos)
      BY <3>1, <1>12, EventTyped DEF CompletionInv, EventsAgree
    <3> QED
      BY <3>1, <3>2, <1>1, <1>9, <1>10 DEF Whole
  <2>2. CASE i > Len(stream)
    <3>1. i - Len(stream) \in 1 .. q /\ stream'[i] = events[i - Len(stream)]
      BY <2>2, <1>6
    <3>2. stream'[i].pos = p /\ flat
      BY <3>1, <1>7, <1>12
    <3> QED
      BY <3>2, <1>1, <1>4, <1>9 DEF Whole
  <2> QED
    BY <2>1, <2>2, <1>6
<1>13. EventsAgree(opened', lots', closed', stream')
  <2>1. \A x \in Memory!Positions : x[2] > opened'[x[1]] => Len(lots'[x]) = 0
    BY <1>1 DEF CompletionInv, EventsAgree
  <2> QED
    BY <2>1, <1>11, <1>12 DEF EventsAgree
<1> QED
  BY <1>1, <1>6, <1>8, <1>9, <1>10, <1>13

(* What the market adds takes nothing from totals and completions.          *)
LEMMA MarketTells ==
  ASSUME MemoryInv, CompletionInv, NEW s \in Symbols, Memory!Market(s)
  PROVE  CompletionInv'
<1> USE DEF Memory!store, Memory!control
<1>1. UNCHANGED <<memory, checkpoint, previous, told>>
  BY DEF Memory!Market, Memory!EntryFills, Memory!EntryEnds, Memory!OtherAdds, Memory!OtherCloses,
       Memory!ExitFills, Memory!ExitEnds
<1>2. CASE \E owner \in Memory!Owners : Memory!Opens(s, owner)
  <2>1. PICK owner \in Memory!Owners : Memory!Opens(s, owner)
    BY <1>2
  <2>2. /\ UNCHANGED <<closed, stream>>
        /\ EventsAgree(opened', lots', closed', stream')
        /\ \A p \in Memory!Positions : /\ Whole(lots, closed, p) => lots'[p] = lots[p]
                                       /\ OwnLots(lots, p) \subseteq OwnLots(lots', p)
    BY <2>1, OpensElsewhere
  <2>3. ASSUME NEW rec, Totals(rec, lots, stream) PROVE Totals(rec, lots', stream')
    BY <2>2, <2>3 DEF Totals
  <2>4. Tellings(lots', closed', told')
    BY <1>1, <2>2 DEF CompletionInv, Tellings, Whole, OwnLots
  <2> QED
    BY <1>1, <2>2, <2>3, <2>4 DEF CompletionInv
<1>3. CASE \E q \in Nat : q >= 1 /\ Memory!Closes(s, q)
  <2>1. PICK q \in Nat : q >= 1 /\ Memory!Closes(s, q)
    BY <1>3
  <2>2. /\ UNCHANGED lots
        /\ EventsAgree(opened', lots', closed', stream')
        /\ Len(stream') >= Len(stream) /\ \A i \in 1 .. Len(stream) : stream'[i] = stream[i]
        /\ \A p \in Memory!Positions : Whole(lots, closed, p) => closed'[p] = closed[p]
    BY <2>1, ClosesElsewhere
  <2>3. ASSUME NEW rec \in Rows, Covers(rec, lots, stream), Totals(rec, lots, stream)
        PROVE  Totals(rec, lots', stream')
    <3>1. ASSUME NEW t \in Symbols, NEW i \in rec.pending[t]
          PROVE  stream'[i] = stream[i]
      <4>1. i \in 1 .. Len(stream)
        BY <2>3 DEF Covers, Rows, MemoryInv, MemoryTyped
      <4> QED
        BY <4>1, <2>2
    <3> QED
      BY <3>1, <2>2, <2>3 DEF Totals
  <2>4. Tellings(lots', closed', told')
    BY <1>1, <2>2 DEF CompletionInv, Tellings, Whole
  <2> QED
    BY <1>1, <2>2, <2>3, <2>4, RowsOfIInv DEF CompletionInv
<1>4. CASE UNCHANGED <<opened, lots, closed, stream>>
  BY <1>1, <1>4 DEF CompletionInv
<1> QED
  <2>1. Memory!EntryFills(s) \/ Memory!OtherAdds(s) => \E owner \in Memory!Owners : Memory!Opens(s, owner)
    BY DEF Memory!EntryFills, Memory!OtherAdds, Memory!Owners
  <2>2. Memory!OtherCloses(s) => \E q \in Nat : q >= 1 /\ Memory!Closes(s, q)
    BY StrategyClosesAssumption DEF Memory!OtherCloses
  <2>3. Memory!ExitFills(s) => \E q \in Nat : q >= 1 /\ Memory!Closes(s, q)
    <3>1. exit[s].left \in Int
      <4>1. exit[s] \in Orders
        BY DEF MemoryInv, MemoryTyped
      <4> QED
        BY <4>1 DEF Orders
    <3> QED
      BY <3>1 DEF Memory!ExitFills
  <2>4. Memory!EntryEnds(s) \/ Memory!ExitEnds(s) => UNCHANGED <<opened, lots, closed, stream>>
    BY DEF Memory!EntryEnds, Memory!ExitEnds
  <2> QED
    BY <1>2, <1>3, <1>4, <2>1, <2>2, <2>3, <2>4 DEF Memory!Market

-----------------------------------------------------------------------------
(* Two rows that differ in the contexts at most.                            *)
Alike(rec, other) ==
    /\ rec.pending = other.pending /\ rec.acc = other.acc
    /\ rec.completed = other.completed /\ rec.counts = other.counts

(* Steps that take in no batch and restore no row.                          *)
Quiet ==
    /\ UNCHANGED <<opened, lots, closed, stream, told>>
    /\ Alike(memory', memory)
    /\ \/ checkpoint' = checkpoint
       \/ checkpoint' # Memory!NoRow /\ Alike(checkpoint', Memory!Row(memory))
    /\ previous' \in {previous, Memory!NoRow}
    /\ \/ health' = health
       \/ KeepsHealth /\ health' = memory.counts
    /\ faults' = faults \/ faults' = faults + 1

LEMMA WithAlike ==
  ASSUME MemoryInv, NEW s \in Symbols, NEW c \in Contexts
  PROVE  Alike(Memory!With(s, c), memory) /\ Alike(Memory!Row(Memory!With(s, c)), Memory!Row(memory)) /\ Memory!Row(Memory!With(s, c)) # Memory!NoRow
<1>1. memory \in Rows /\ Memory!With(s, c) \in Rows /\ Memory!Row(Memory!With(s, c)) \in Rows
  BY RowsOfIInv, WithKept
<1>2. Alike(Memory!With(s, c), memory)
  BY <1>1 DEF Memory!With, Alike, Rows
<1>3. Memory!Row(Memory!With(s, c)) = [Memory!With(s, c) EXCEPT !.counts = IF KeepsHealth THEN Memory!Fresh.counts ELSE @]
  BY DEF Memory!Row
<1>4. Memory!Row(memory) = [memory EXCEPT !.counts = IF KeepsHealth THEN Memory!Fresh.counts ELSE @]
  BY DEF Memory!Row
<1>5. \A r \in Rows : \A n : LET new == [r EXCEPT !.counts = n] IN
         /\ new.pending = r.pending /\ new.acc = r.acc /\ new.completed = r.completed /\ new.counts = n
  BY DEF Rows
<1>6. Alike(Memory!Row(Memory!With(s, c)), Memory!Row(memory))
  BY <1>1, <1>2, <1>3, <1>4, <1>5 DEF Alike
<1> QED
  BY <1>1, <1>2, <1>6, RowIsThere

LEMMA RowAlike ==
  ASSUME MemoryInv
  PROVE  Alike(memory, memory) /\ Alike(Memory!Row(memory), Memory!Row(memory)) /\ Memory!Row(memory) # Memory!NoRow
<1>1. Memory!Row(memory) \in Rows
  BY RowsOfIInv, SavedRow, FreshRow
<1> QED
  BY <1>1, RowIsThere DEF Alike

(* All other steps are quiet.                                               *)
LEMMA QuietSteps ==
  ASSUME MemoryInv, Memory!Tick \/ Memory!Trouble \/ \E bars \in SUBSET Symbols : Memory!StartTick(bars)
  PROVE  \/ Quiet \/ Memory!WriteRaises \/ Memory!Crash
         \/ \E s \in Symbols : Memory!Deliver(s) \/ Memory!DeliverRaises(s)
<1> USE RowAlike DEF Memory!market, Memory!store, Quiet, Memory!Goto, Memory!NextSymbol
<1>0. Placed /\ MemoryInv
  BY DEF MemoryInv
<1>1. CASE \E bars \in SUBSET Symbols : Memory!StartTick(bars)
  BY <1>1 DEF Memory!StartTick
<1>2. CASE \E s \in Symbols : Memory!NothingNew(s) \/ Memory!Drop(s)
  BY <1>2 DEF Memory!NothingNew, Memory!Drop
<1>3. CASE Memory!WriteCheckpoint
  BY <1>3 DEF Memory!WriteCheckpoint
<1>4. CASE Memory!NoLatch
  <2>1. at \in Symbols /\ Memory!Tidied(at, memory.ctx[at]) \in Contexts
    BY <1>4, <1>0, RowsOfIInv, ContextsOfSteps DEF Memory!NoLatch, Placed
  <2> QED
    BY <1>0, <1>4, <2>1, WithAlike DEF Memory!NoLatch
<1>5. CASE Memory!Reconcile
  <2>1. at \in Symbols /\ Memory!Facts(at) \in Contexts /\ Memory!Tidied(at, Memory!Facts(at)) \in Contexts
    BY <1>5, <1>0, ContextsOfSteps DEF Memory!Reconcile, Placed
  <2>2. checkpoint' = checkpoint \/ checkpoint' = Memory!Row(Memory!With(at, Memory!Facts(at)))
    BY <1>5 DEF Memory!Reconcile
  <2> QED
    BY <1>0, <1>5, <2>1, <2>2, WithAlike DEF Memory!Reconcile
<1>6. CASE Memory!ReconcileRaises
  <2>1. at \in Symbols /\ Memory!Facts(at) \in Contexts
    BY <1>6, <1>0, ContextsOfSteps DEF Memory!ReconcileRaises, Placed
  <2> QED
    BY <1>0, <1>6, <2>1, WithAlike DEF Memory!ReconcileRaises, Memory!Fault
<1>7. CASE Memory!Pass \/ Memory!ProposeRaises
  BY <1>7 DEF Memory!Pass, Memory!ProposeRaises, Memory!Fault
<1>8. CASE Memory!Propose
  BY <1>8 DEF Memory!Propose
<1>9. CASE Memory!SubmitExit
  BY <1>9 DEF Memory!SubmitExit
<1>10. CASE Memory!Track
  <2>1. at \in Symbols /\ [memory.ctx[at] EXCEPT !.latch = exit[at].no] \in Contexts
    BY <1>10, <1>0, ContextsOfSteps DEF Memory!Track, Placed
  <2> QED
    BY <1>0, <1>10, <2>1, WithAlike DEF Memory!Track, Memory!Latched
<1>11. CASE Memory!TrackRaises
  <2>1. at \in Symbols /\ [memory.ctx[at] EXCEPT !.latch = exit[at].no] \in Contexts
    BY <1>11, <1>0, ContextsOfSteps DEF Memory!TrackRaises, Placed
  <2> QED
    BY <1>0, <1>11, <2>1, WithAlike DEF Memory!TrackRaises, Memory!Latched, Memory!Fault
<1>12. ASSUME NEW s \in Symbols, Memory!Allocate(s)
       PROVE  Quiet
  <2>1. [entry |-> TRUE, stop |-> entry[s].no + 1, latch |-> 0] \in Contexts
    BY <1>0, ContextsOfSteps
  <2> QED
    BY <1>0, <1>12, <2>1, WithAlike DEF Memory!Allocate, Memory!Fault
<1>13. CASE Memory!FinishTick
  BY <1>13 DEF Memory!FinishTick
<1> HIDE DEF Quiet
<1> QED
  BY <1>1, <1>2, <1>3, <1>4, <1>5, <1>6, <1>7, <1>8, <1>9, <1>10, <1>11, <1>12, <1>13
     DEF Memory!Tick, Memory!Trouble, Memory!Visit
-----------------------------------------------------------------------------
LEMMA TotalsApart ==
  ASSUME NEW rec \in Rows, NEW counts
  PROVE  \A l, st : Totals(rec, l, st) => Totals(Memory!Restored(rec, counts), l, st)
<1>1. \A n : LET new == [rec EXCEPT !.counts = n] IN
         new.pending = rec.pending /\ new.acc = rec.acc /\ new.completed = rec.completed
  BY DEF Rows
<1>2. \A n, l, st : Totals(rec, l, st) => Totals([rec EXCEPT !.counts = n], l, st)
  BY <1>1 DEF Totals
<1> QED
  BY <1>2 DEF Memory!Restored

LEMMA RowTotals ==
  ASSUME NEW rec \in Rows
  PROVE  \A l, st : Totals(rec, l, st) => Totals(Memory!Row(rec), l, st)
<1>1. Memory!Row(rec) = Memory!Restored(rec, IF KeepsHealth THEN Memory!Fresh.counts ELSE rec.counts)
  BY DEF Memory!Row, Memory!Restored, Rows
<1> QED
  BY <1>1, TotalsApart

LEMMA FreshTotals == \A l, st : Totals(Memory!Fresh, l, st)
<1>1. /\ Memory!Fresh.completed = {} /\ \A p \in Memory!Positions : Memory!Fresh.acc[p] = {}
      /\ \A s \in Symbols : Memory!Fresh.pending[s] = {}
  BY DEF Memory!Fresh
<1> QED
  BY <1>1 DEF Totals

(* A restart goes on with the checkpoint, or with nothing.                  *)
LEMMA LoadedFrom ==
  ASSUME MemoryInv
  PROVE  /\ Memory!Loaded.pending = IF checkpoint = Memory!NoRow THEN Memory!Fresh.pending ELSE checkpoint.pending
         /\ Memory!Loaded.acc = IF checkpoint = Memory!NoRow THEN Memory!Fresh.acc ELSE checkpoint.acc
         /\ Memory!Loaded.completed = IF checkpoint = Memory!NoRow THEN {} ELSE checkpoint.completed
         /\ KeepsHealth => Memory!Loaded.counts = health
<1> DEFINE base == IF checkpoint = Memory!NoRow THEN Memory!Fresh ELSE checkpoint
           over == IF runtime = Memory!NoRow THEN base
                   ELSE [base EXCEPT !.ctx = runtime.ctx, !.counts = runtime.counts]
<1>1. base \in Rows
  BY RowsOfIInv, FreshRow
<1>2. /\ over.pending = base.pending /\ over.acc = base.acc /\ over.completed = base.completed
      /\ over \in [{"cursor", "pending", "acc", "completed", "ctx", "counts"} -> {over[f] : f \in DOMAIN base}]
  <2> HIDE DEF base
  <2> QED
    BY <1>1 DEF Rows
<1>3. Memory!Loaded = Memory!Restored(over, health)
  BY DEF Memory!Loaded
<1>4. DOMAIN over = {"cursor", "pending", "acc", "completed", "ctx", "counts"}
  BY <1>2
<1>5. Memory!Fresh.completed = {}
  BY DEF Memory!Fresh
<1> HIDE DEF over
<1>6. /\ Memory!Loaded.pending = over.pending /\ Memory!Loaded.acc = over.acc /\ Memory!Loaded.completed = over.completed
      /\ KeepsHealth => Memory!Loaded.counts = health
  BY <1>3, <1>4 DEF Memory!Restored
<1> QED
  BY <1>2, <1>5, <1>6

LEMMA RowsTell ==
  ASSUME MemoryInv, CompletionInv, Memory!Tick \/ Memory!Trouble \/ \E bars \in SUBSET Symbols : Memory!StartTick(bars)
  PROVE  CompletionInv'
<1>0. /\ memory \in Rows
      /\ checkpoint # Memory!NoRow => checkpoint \in Rows
      /\ previous # Memory!NoRow => previous \in Rows
  BY RowsOfIInv
<1>1. CASE Quiet
  <2>1. UNCHANGED <<opened, lots, closed, stream, told>>
    BY <1>1 DEF Quiet
  <2>2. \A rec, other : Alike(rec, other) /\ Totals(other, lots, stream) => Totals(rec, lots, stream)
    BY DEF Alike, Totals
  <2>3. Totals(Memory!Row(memory), lots, stream)
    BY <1>0, RowTotals DEF CompletionInv
  <2> QED
    BY <1>1, <2>1, <2>2, <2>3 DEF Quiet, CompletionInv
<1>2. CASE Memory!WriteRaises
  <2>1. /\ UNCHANGED <<opened, lots, closed, stream, told>> /\ previous' = Memory!NoRow
        /\ checkpoint' = checkpoint \/ checkpoint' = Memory!Row(memory)
        /\ memory' = Memory!Restored(IF checkpoint' # Memory!NoRow THEN checkpoint' ELSE previous, memory.counts)
        /\ previous # Memory!NoRow
    <3>1. Placed
      BY DEF MemoryInv
    <3> QED
      BY <1>2, <3>1 DEF Memory!WriteRaises, Memory!RollBack, Memory!NextSymbol, Memory!market, Placed
  <2>2. Memory!Row(memory) \in Rows /\ Totals(Memory!Row(memory), lots, stream)
    <3>1. Memory!Row(memory) \in Rows
      BY <1>0, RowsOfIInv, SavedRow
    <3> QED
      BY <1>0, <3>1, RowTotals DEF CompletionInv
  <2>3. checkpoint' # Memory!NoRow => checkpoint' \in Rows /\ Totals(checkpoint', lots, stream)
    BY <1>0, <2>1, <2>2 DEF CompletionInv
  <2>4. Totals(memory', lots, stream)
    BY <1>0, <2>1, <2>3, TotalsApart DEF CompletionInv
  <2> QED
    BY <2>1, <2>3, <2>4 DEF CompletionInv
<1>3. CASE Memory!Crash
  <2>1. /\ UNCHANGED <<opened, lots, closed, stream, told, checkpoint>> /\ previous' = Memory!NoRow
        /\ memory' = Memory!Loaded
    BY <1>3 DEF Memory!Crash, Memory!market, Memory!store
  <2>2. Totals(IF checkpoint = Memory!NoRow THEN Memory!Fresh ELSE checkpoint, lots, stream)
    BY FreshTotals DEF CompletionInv
  <2>3. Memory!Fresh.completed = {}
    BY DEF Memory!Fresh
  <2>4. Totals(Memory!Loaded, lots, stream)
    BY <2>2, <2>3, LoadedFrom DEF Totals
  <2> QED
    BY <2>1, <2>4 DEF CompletionInv
<1>4. ASSUME NEW s \in Symbols, Memory!Deliver(s) \/ Memory!DeliverRaises(s)
      PROVE  CompletionInv'
  <2> DEFINE batch == Memory!Queue(s)
             done == Memory!Completing(batch)
  <2>1. done \in SUBSET Memory!Positions
    BY BatchIsWhole
  <2>2. UNCHANGED <<opened, lots, closed, stream, checkpoint>>
    BY <1>4 DEF Memory!Deliver, Memory!DeliverRaises, Memory!market
  <2>3. ASSUME NEW d \in SUBSET done, Memory!Told(batch, d)
        PROVE  Tellings(lots', closed', told')
    <3>1. told' = told \cup {[pos |-> p, lots |-> Memory!Folded(batch, p)] : p \in d}
      BY <2>3 DEF Memory!Told
    <3>2. \A p \in d : p \in Memory!Positions /\ Whole(lots, closed, p) /\ Memory!Folded(batch, p) = OwnLots(lots, p)
      BY BatchIsWhole
    <3>3. Tellings(lots, closed, told)
      BY DEF CompletionInv
    <3> QED
      BY <2>2, <3>1, <3>2, <3>3 DEF Tellings
  <2>4. CASE Memory!Deliver(s)
    <3>1. memory' = Memory!Consumed(s, batch, done) /\ previous' = Memory!Row(memory) /\ Memory!Told(batch, done)
      BY <2>4 DEF Memory!Deliver
    <3>2. Totals(memory', lots, stream)
      BY <2>1, <3>1, BatchTotals
    <3>3. Totals(Memory!Row(memory), lots, stream)
      BY <1>0, RowTotals DEF CompletionInv
    <3>4. Tellings(lots', closed', told')
      BY <2>3, <3>1
    <3> QED
      BY <2>2, <3>1, <3>2, <3>3, <3>4 DEF CompletionInv
  <2>5. CASE Memory!DeliverRaises(s)
    <3>1. /\ previous' = Memory!NoRow
          /\ \E p \in done : \E before \in SUBSET (done \ {p}) :
               /\ memory' = Memory!Restored(IF checkpoint # Memory!NoRow THEN checkpoint ELSE memory,
                                  Memory!Counted(memory.counts, before \cup {p}))
               /\ Memory!Told(batch, before \cup {p})
      BY <2>5 DEF Memory!DeliverRaises, Memory!NextSymbol
    <3>2. PICK p \in done : \E before \in SUBSET (done \ {p}) :
               /\ memory' = Memory!Restored(IF checkpoint # Memory!NoRow THEN checkpoint ELSE memory,
                                  Memory!Counted(memory.counts, before \cup {p}))
               /\ Memory!Told(batch, before \cup {p})
      BY <3>1
    <3>3. PICK before \in SUBSET (done \ {p}) :
               /\ memory' = Memory!Restored(IF checkpoint # Memory!NoRow THEN checkpoint ELSE memory,
                                  Memory!Counted(memory.counts, before \cup {p}))
               /\ Memory!Told(batch, before \cup {p})
      BY <3>2
    <3>4. Totals(memory', lots, stream)
      <4> DEFINE rec == IF checkpoint # Memory!NoRow THEN checkpoint ELSE memory
      <4>1. rec \in Rows /\ Totals(rec, lots, stream)
        BY <1>0 DEF CompletionInv
      <4>2. memory' = Memory!Restored(rec, Memory!Counted(memory.counts, before \cup {p}))
        BY <3>3
      <4> HIDE DEF rec
      <4> QED
        BY <4>1, <4>2, TotalsApart
    <3>5. before \cup {p} \in SUBSET done
      OBVIOUS
    <3>6. Tellings(lots', closed', told')
      BY <2>3, <3>3, <3>5
    <3> QED
      BY <2>2, <3>1, <3>4, <3>6 DEF CompletionInv
  <2> QED
    BY <1>4, <2>4, <2>5
<1> QED
  BY <1>1, <1>2, <1>3, <1>4, QuietSteps

LEMMA CompletionStart == Memory!Init => CompletionInv
<1> SUFFICES ASSUME Memory!Init PROVE CompletionInv
  OBVIOUS
<1>1. Totals(memory, lots, stream)
  BY FreshTotals DEF Memory!Init
<1>2. EventsAgree(opened, lots, closed, stream)
  BY DEF Memory!Init, EventsAgree, Memory!Positions
<1> QED
  BY <1>1, <1>2 DEF Memory!Init, CompletionInv, Tellings

(* The completion invariant holds in every reachable state.                 *)
LEMMA CompletionAlways == Memory!Spec => [](MemoryInv /\ CompletionInv)
<1>1. MemoryInv /\ CompletionInv /\ [Memory!Next]_Memory!vars => CompletionInv'
  <2> SUFFICES ASSUME MemoryInv, CompletionInv, [Memory!Next]_Memory!vars PROVE CompletionInv'
    OBVIOUS
  <2>1. CASE \E s \in Symbols : Memory!Market(s)
    BY <2>1, MarketTells
  <2>2. CASE \/ \E bars \in (SUBSET Symbols) \ {{}} : Memory!StartTick(bars)
             \/ Memory!Tick \/ Memory!Trouble
    BY <2>2, RowsTell
  <2>3. CASE UNCHANGED Memory!vars
    BY <2>3 DEF Memory!vars, CompletionInv
  <2> QED
    BY <2>1, <2>2, <2>3 DEF Memory!Next
<1> QED
  BY <1>1, CompletionStart, RowsAlwaysCover, PTL DEF Memory!Spec

(* on_trade_closed is told of a position when all its lots are closed and   *)
(* with every lot of the strategy in the total (base.py), for any symbols,  *)
(* positions, lots, failed writes and crashes.                             *)
THEOREM CompletionsAreWhole == Memory!Spec => []ToldInFull
<1>1. MemoryInv /\ CompletionInv => ToldInFull
  <2> SUFFICES ASSUME MemoryInv, CompletionInv, NEW t \in told
               PROVE  /\ closed[t.pos] = Len(lots[t.pos])
                      /\ t.lots = {l \in DOMAIN lots[t.pos] : lots[t.pos][l] = "own"}
    BY DEF ToldInFull
  <2>1. t.pos \in Memory!Positions /\ Whole(lots, closed, t.pos) /\ t.lots = OwnLots(lots, t.pos)
    BY DEF CompletionInv, Tellings
  <2>2. DOMAIN lots[t.pos] = 1 .. Len(lots[t.pos])
    BY <2>1 DEF MemoryInv, MemoryTyped
  <2> QED
    BY <2>1, <2>2 DEF Whole, OwnLots
<1> QED
  BY <1>1, CompletionAlways, PTL

-----------------------------------------------------------------------------
(* What is needed to count every result once: results that a crash cannot   *)
(* take back, as the row of the strategy health is as new as the memory     *)
(* whenever the process may still crash.                                    *)
ResultsSurvive ==
    \/ "crash" \notin Faults
    \/ KeepsHealth /\ ("health_write" \notin Faults \/ MaxFaults <= 1)
MayCrash == "crash" \in Faults /\ faults < MaxFaults

(* The results of a row are those of its completed positions.               *)
Exact(rec) == \A p \in Memory!Positions : rec.counts[p] = IF p \in rec.completed THEN 1 ELSE 0

(* With a health machine there is one count of results; the rows a strategy *)
(* may go on with have completed nothing it does not know of.               *)
CountInv ==
    /\ faults \in Nat
    /\ KeepsHealth =>
          /\ \A p \in Memory!Positions : memory.counts[p] \in {0, 1}
          /\ \A p \in memory.completed : memory.counts[p] = 1
          /\ checkpoint # Memory!NoRow => \A p \in checkpoint.completed : memory.counts[p] = 1
          /\ previous # Memory!NoRow => \A p \in previous.completed : memory.counts[p] = 1
          /\ MayCrash => health = memory.counts
    /\ ~KeepsHealth =>
          /\ Exact(memory)
          /\ checkpoint # Memory!NoRow => Exact(checkpoint)
          /\ previous # Memory!NoRow => Exact(previous)

LEMMA RowFields ==
  ASSUME NEW rec \in Rows
  PROVE  /\ Memory!Row(rec).completed = rec.completed
         /\ ~KeepsHealth => Memory!Row(rec).counts = rec.counts
BY DEF Memory!Row, Rows

LEMMA RestoredFields ==
  ASSUME NEW rec \in Rows, NEW counts
  PROVE  /\ Memory!Restored(rec, counts).completed = rec.completed
         /\ Memory!Restored(rec, counts).counts = IF KeepsHealth THEN counts ELSE rec.counts
BY DEF Memory!Restored, Rows

LEMMA CountedValues ==
  ASSUME MemoryInv, NEW done \in SUBSET Memory!Positions
  PROVE  \A p \in Memory!Positions :
            Memory!Counted(memory.counts, done)[p] = IF p \notin done THEN memory.counts[p]
                                           ELSE IF KeepsHealth THEN 1 ELSE memory.counts[p] + 1
BY DEF Memory!Counted

LEMMA CountStart == Memory!Init => CountInv
<1> SUFFICES ASSUME Memory!Init PROVE CountInv
  OBVIOUS
<1>1. /\ memory = Memory!Fresh /\ checkpoint = Memory!NoRow /\ previous = Memory!NoRow /\ faults = 0 /\ health = Memory!Fresh.counts
  BY DEF Memory!Init
<1>2. Memory!Fresh.completed = {} /\ \A p \in Memory!Positions : Memory!Fresh.counts[p] = 0
  BY DEF Memory!Fresh
<1> QED
  BY <1>1, <1>2 DEF CountInv, Exact

LEMMA CountQuiet ==
  ASSUME MemoryInv, CountInv, Quiet
  PROVE  CountInv'
<1>1. Alike(memory', memory) /\ memory'.counts = memory.counts /\ memory'.completed = memory.completed
  BY DEF Quiet, Alike
<1>2. \/ checkpoint' = checkpoint
      \/ /\ checkpoint' # Memory!NoRow /\ checkpoint'.completed = memory.completed
         /\ ~KeepsHealth => checkpoint'.counts = memory.counts
  <2>1. Memory!Row(memory).completed = memory.completed /\ (~KeepsHealth => Memory!Row(memory).counts = memory.counts)
    BY RowFields, RowsOfIInv
  <2> QED
    BY <2>1 DEF Quiet, Alike
<1>3. previous' \in {previous, Memory!NoRow}
  BY DEF Quiet
<1>4. faults' \in Nat /\ (MayCrash' => MayCrash)
  BY StrategyAssumption DEF Quiet, CountInv, MayCrash
<1>5. health' = health \/ (KeepsHealth /\ health' = memory.counts)
  BY DEF Quiet
<1>6. CASE KeepsHealth
  <2>1. checkpoint' # Memory!NoRow => \A p \in checkpoint'.completed : memory.counts[p] = 1
    BY <1>2, <1>6 DEF CountInv
  <2>2. previous' # Memory!NoRow => \A p \in previous'.completed : memory.counts[p] = 1
    BY <1>3, <1>6 DEF CountInv
  <2>3. MayCrash' => health' = memory.counts
    BY <1>4, <1>5, <1>6 DEF CountInv
  <2>4. /\ \A p \in Memory!Positions : memory.counts[p] \in {0, 1}
        /\ \A p \in memory.completed : memory.counts[p] = 1
    BY <1>6 DEF CountInv
  <2> QED
    BY <2>1, <2>2, <2>3, <2>4, <1>1, <1>4, <1>6 DEF CountInv
<1>7. CASE ~KeepsHealth
  BY <1>1, <1>2, <1>3, <1>4, <1>7 DEF CountInv, Exact
<1> QED
  BY <1>6, <1>7

LEMMA CountWriteRaises ==
  ASSUME MemoryInv, CountInv, Memory!WriteRaises
  PROVE  CountInv'
<1>0. /\ memory \in Rows
      /\ checkpoint # Memory!NoRow => checkpoint \in Rows
      /\ previous # Memory!NoRow => previous \in Rows
  BY RowsOfIInv
<1>1. /\ previous' = Memory!NoRow /\ health' = health /\ faults' = faults + 1
      /\ checkpoint' = checkpoint \/ checkpoint' = Memory!Row(memory)
      /\ memory' = Memory!Restored(IF checkpoint' # Memory!NoRow THEN checkpoint' ELSE previous, memory.counts)
      /\ previous # Memory!NoRow
  <2>1. Placed
    BY DEF MemoryInv
  <2> QED
    BY <2>1 DEF Memory!WriteRaises, Memory!RollBack, Memory!NextSymbol, Placed, Memory!Fault
<1>2. Memory!Row(memory) \in Rows /\ Memory!Row(memory).completed = memory.completed
      /\ (~KeepsHealth => Memory!Row(memory).counts = memory.counts)
  BY <1>0, RowsOfIInv, SavedRow, RowFields
<1> DEFINE rec == IF checkpoint' # Memory!NoRow THEN checkpoint' ELSE previous
<1>3. rec \in Rows
  BY <1>0, <1>1, <1>2
<1>4. /\ memory'.completed = rec.completed
      /\ memory'.counts = IF KeepsHealth THEN memory.counts ELSE rec.counts
  <2> HIDE DEF rec
  <2>1. memory' = Memory!Restored(rec, memory.counts)
    BY <1>1 DEF rec
  <2> QED
    BY <2>1, <1>3, RestoredFields
<1>5. faults' \in Nat /\ (MayCrash' => MayCrash)
  BY <1>1, StrategyAssumption DEF CountInv, MayCrash
<1>6. CASE KeepsHealth
  <2>1. /\ memory'.counts = memory.counts
        /\ \A p \in rec.completed : memory.counts[p] = 1
        /\ checkpoint' # Memory!NoRow => \A p \in checkpoint'.completed : memory.counts[p] = 1
    BY <1>1, <1>2, <1>4, <1>6 DEF CountInv
  <2> HIDE DEF rec
  <2> QED
    BY <2>1, <1>1, <1>4, <1>5, <1>6 DEF CountInv
<1>7. CASE ~KeepsHealth
  <2>1. checkpoint' # Memory!NoRow => Exact(checkpoint')
    BY <1>1, <1>2, <1>7 DEF CountInv, Exact
  <2>2. Exact(rec)
    BY <2>1, <1>1, <1>7 DEF CountInv
  <2> HIDE DEF rec
  <2>3. Exact(memory)'
    BY <2>2, <1>4, <1>7 DEF Exact
  <2> QED
    BY <2>1, <2>3, <1>1, <1>5, <1>7 DEF CountInv
<1> QED
  BY <1>6, <1>7

LEMMA CountCrash ==
  ASSUME MemoryInv, CountInv, ResultsSurvive, Memory!Crash
  PROVE  CountInv'
<1>1. /\ UNCHANGED <<checkpoint, health>> /\ previous' = Memory!NoRow /\ faults' = faults + 1
      /\ memory' = Memory!Loaded /\ MayCrash
  BY DEF Memory!Crash, Memory!store, Memory!Fault, MayCrash
<1>2. KeepsHealth
  BY <1>1 DEF ResultsSurvive, MayCrash
<1>3. /\ memory'.counts = memory.counts
      /\ memory'.completed = IF checkpoint = Memory!NoRow THEN {} ELSE checkpoint.completed
  BY <1>1, <1>2, LoadedFrom DEF CountInv
<1> QED
  BY <1>1, <1>2, <1>3 DEF CountInv

LEMMA CountDelivery ==
  ASSUME MemoryInv, CompletionInv, CountInv, ResultsSurvive, NEW s \in Symbols, Memory!Deliver(s) \/ Memory!DeliverRaises(s)
  PROVE  CountInv'
<1> DEFINE batch == Memory!Queue(s)
           done == Memory!Completing(batch)
<1>0. /\ memory \in Rows
      /\ checkpoint # Memory!NoRow => checkpoint \in Rows
      /\ previous # Memory!NoRow => previous \in Rows
      /\ memory.counts \in [Memory!Positions -> Nat] /\ memory.completed \subseteq Memory!Positions
  BY RowsOfIInv DEF Rows
<1>1. done \in SUBSET Memory!Positions /\ done \cap memory.completed = {}
  BY BatchIsWhole
<1>2. CASE Memory!Deliver(s)
  <2>1. /\ memory'.completed = memory.completed \cup done
        /\ memory'.counts = Memory!Counted(memory.counts, done)
        /\ health' = Memory!Saved(done) /\ previous' = Memory!Row(memory) /\ UNCHANGED <<checkpoint, faults>>
    BY <1>2 DEF Memory!Deliver, Memory!Consumed
  <2>2. Memory!Row(memory).completed = memory.completed /\ (~KeepsHealth => Memory!Row(memory).counts = memory.counts)
    BY <1>0, RowFields
  <2>3. \A p \in Memory!Positions : memory'.counts[p] = IF p \notin done THEN memory.counts[p]
                                              ELSE IF KeepsHealth THEN 1 ELSE memory.counts[p] + 1
    BY <1>1, <2>1, CountedValues
  <2>4. CASE KeepsHealth
    <3>1. /\ \A p \in Memory!Positions : memory'.counts[p] \in {0, 1} /\ (memory.counts[p] = 1 => memory'.counts[p] = 1)
          /\ \A p \in done : memory'.counts[p] = 1
      BY <1>1, <2>3, <2>4 DEF CountInv
    <3>2. MayCrash' => health' = memory'.counts
      <4> SUFFICES ASSUME MayCrash' PROVE health' = memory'.counts
        OBVIOUS
      <4>1. health = memory.counts
        BY <2>1, <2>4 DEF CountInv, MayCrash
      <4>2. CASE \E p \in done : memory.counts[p] = 0
        BY <4>2, <2>1, <2>4 DEF Memory!Saved
      <4>3. CASE ~\E p \in done : memory.counts[p] = 0
        <5>1. \A p \in done : memory.counts[p] = 1
          BY <4>3, <1>1, <2>4 DEF CountInv
        <5>2. health' = health
          BY <4>3, <2>1 DEF Memory!Saved
        <5>3. \A p \in Memory!Positions : memory'.counts[p] = memory.counts[p]
          BY <5>1, <2>3, <2>4
        <5>4. memory'.counts \in [Memory!Positions -> Nat]
          BY <2>1, <2>4, <1>0 DEF Memory!Counted
        <5>5. memory'.counts = memory.counts
          BY <5>3, <5>4, <1>0
        <5> QED
          BY <4>1, <5>2, <5>5
      <4> QED
        BY <4>2, <4>3
    <3>3. /\ \A p \in memory'.completed : memory'.counts[p] = 1
          /\ checkpoint' # Memory!NoRow => \A p \in checkpoint'.completed : memory'.counts[p] = 1
          /\ \A p \in previous'.completed : memory'.counts[p] = 1
      <4>1. checkpoint # Memory!NoRow => checkpoint.completed \subseteq Memory!Positions
        BY <1>0 DEF Rows
      <4> QED
        BY <4>1, <3>1, <1>0, <2>1, <2>2, <2>4 DEF CountInv
    <3> QED
      BY <3>1, <3>2, <3>3, <2>1, <2>4 DEF CountInv
  <2>5. CASE ~KeepsHealth
    <3>1. Exact(memory) /\ (checkpoint # Memory!NoRow => Exact(checkpoint))
      BY <2>5 DEF CountInv
    <3>2. Exact(memory)'
      BY <3>1, <1>1, <2>1, <2>3, <2>5 DEF Exact
    <3>3. Exact(previous)'
      BY <3>1, <2>1, <2>2, <2>5 DEF Exact
    <3> QED
      BY <3>1, <3>2, <3>3, <2>1, <2>5 DEF CountInv, Exact
  <2> QED
    BY <2>4, <2>5
<1>3. CASE Memory!DeliverRaises(s)
  <2>1. /\ previous' = Memory!NoRow /\ UNCHANGED checkpoint /\ faults' = faults + 1
        /\ KeepsHealth /\ "health_write" \in Faults
    BY <1>3 DEF Memory!DeliverRaises, Memory!NextSymbol, Memory!Fault
  <2>2. \E p \in done : \E before \in SUBSET (done \ {p}) :
           memory' = Memory!Restored(IF checkpoint # Memory!NoRow THEN checkpoint ELSE memory,
                           Memory!Counted(memory.counts, before \cup {p}))
    BY <1>3 DEF Memory!DeliverRaises
  <2>3. PICK d \in SUBSET done :
           memory' = Memory!Restored(IF checkpoint # Memory!NoRow THEN checkpoint ELSE memory, Memory!Counted(memory.counts, d))
    <3>1. \A p \in done : \A before \in SUBSET (done \ {p}) : before \cup {p} \in SUBSET done
      OBVIOUS
    <3> QED
      BY <2>2, <3>1
  <2> DEFINE rec == IF checkpoint # Memory!NoRow THEN checkpoint ELSE memory
  <2>4. rec \in Rows /\ rec.completed \subseteq Memory!Positions
    BY <1>0 DEF Rows
  <2>5. memory'.completed = rec.completed /\ memory'.counts = Memory!Counted(memory.counts, d)
    <3> HIDE DEF rec
    <3>1. memory' = Memory!Restored(rec, Memory!Counted(memory.counts, d))
      BY <2>3 DEF rec
    <3> QED
      BY <3>1, <2>1, <2>4, RestoredFields
  <2>6. \A p \in Memory!Positions : /\ memory'.counts[p] \in {0, 1}
                                    /\ memory.counts[p] = 1 => memory'.counts[p] = 1
    <3>1. d \in SUBSET Memory!Positions
      BY <1>1
    <3> QED
      BY <3>1, <2>1, <2>5, CountedValues DEF CountInv
  <2>7. \A p \in rec.completed : memory.counts[p] = 1
    BY <2>1 DEF CountInv
  <2>8. ~MayCrash' /\ faults' \in Nat
    BY <2>1, StrategyAssumption DEF ResultsSurvive, MayCrash, CountInv
  <2>9. /\ \A p \in memory'.completed : memory'.counts[p] = 1
        /\ checkpoint' # Memory!NoRow => \A p \in checkpoint'.completed : memory'.counts[p] = 1
    <3>1. checkpoint # Memory!NoRow => rec = checkpoint
      OBVIOUS
    <3> HIDE DEF rec
    <3>2. \A p \in rec.completed : memory'.counts[p] = 1
      BY <2>4, <2>6, <2>7
    <3>3. \A p \in memory'.completed : memory'.counts[p] = 1
      BY <2>5, <3>2
    <3>4. checkpoint' = checkpoint
      BY <2>1
    <3> QED
      BY <3>1, <3>2, <3>3, <3>4
  <2> QED
    BY <2>1, <2>6, <2>8, <2>9 DEF CountInv
<1> QED
  BY <1>2, <1>3

LEMMA CountStep ==
  ASSUME MemoryInv, CompletionInv, CountInv, ResultsSurvive, [Memory!Next]_Memory!vars
  PROVE  CountInv'
<1>1. CASE \E s \in Symbols : Memory!Market(s)
  <2>1. UNCHANGED <<memory, checkpoint, previous, health, faults>>
    BY <1>1 DEF Memory!Market, Memory!EntryFills, Memory!EntryEnds, Memory!OtherAdds,
         Memory!OtherCloses, Memory!ExitFills, Memory!ExitEnds, Memory!store, Memory!control
  <2> QED
    BY <2>1 DEF CountInv, Exact, MayCrash
<1>2. CASE UNCHANGED Memory!vars
  BY <1>2 DEF Memory!vars, CountInv, Exact, MayCrash
<1>3. CASE \/ \E bars \in (SUBSET Symbols) \ {{}} : Memory!StartTick(bars)
           \/ Memory!Tick \/ Memory!Trouble
  BY <1>3, QuietSteps, CountQuiet, CountWriteRaises, CountCrash, CountDelivery
<1> QED
  BY <1>1, <1>2, <1>3 DEF Memory!Next

(* A result enters the strategy health or the losing streak once and is     *)
(* never lost while its close counts as delivered.                          *)
THEOREM ResultsCountOnce == ResultsSurvive /\ Memory!Spec => []CountedOnce
<1> SUFFICES ASSUME ResultsSurvive PROVE Memory!Spec => []CountedOnce
  OBVIOUS
<1>1. MemoryInv /\ CompletionInv /\ CountInv /\ [Memory!Next]_Memory!vars => CountInv'
  BY CountStep
<1>2. MemoryInv /\ CountInv => CountedOnce
  <2> SUFFICES ASSUME MemoryInv, CountInv PROVE CountedOnce
    OBVIOUS
  <2>1. memory.completed \subseteq Memory!Positions
    BY RowsOfIInv DEF Rows
  <2> QED
    BY <2>1 DEF CountInv, Exact, CountedOnce, Positions, Memory!Positions
<1> QED
  BY <1>1, <1>2, CountStart, CompletionAlways, PTL DEF Memory!Spec
=============================================================================
