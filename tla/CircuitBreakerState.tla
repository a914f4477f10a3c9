------------------------ MODULE CircuitBreakerState -------------------------
(* The circuit breaker of an account: what it is set up with, its state in  *)
(* memory and on disk, and what its halts promise whatever steps            *)
(* CircuitBreaker takes.                                                    *)
EXTENDS FaultBound, FiniteSets

CONSTANTS
    Equities,     \* values the account may have
    Threshold,    \* drawdown, in percent, from which each action applies
    DailyLimit,   \* loss of a day that halts it, in percent
    Probation,    \* loss that ends a probation, in percent
    Recovery,     \* recovery_policy.enabled
    Cooldown,     \* how long openings stay blocked
    DayLength,
    MaxTime,      \* bound: time
    MaxMoves,     \* bound: changes of the portfolio action
    MaxResumes    \* bound: approvals by an operator
\* MaxFaults: crashes, writes that fail, clocks set back

ASSUME CircuitBreakerAssumption ==
    /\ Equities \subseteq Nat \ {0} /\ IsFiniteSet(Equities) /\ Equities # {}
    /\ Threshold \in [{"reduce", "block_new", "liquidate", "locked"} -> 1 .. 100]
    /\ Threshold["reduce"] <= Threshold["block_new"]
    /\ Threshold["block_new"] <= Threshold["liquidate"]
    /\ Threshold["liquidate"] <= Threshold["locked"]
    /\ DailyLimit \in 1 .. 100 /\ Probation \in 1 .. 100 /\ Recovery \in BOOLEAN
    /\ Cooldown \in Nat \ {0} /\ DayLength \in Nat \ {0}
    /\ MaxTime \in Nat /\ MaxMoves \in Nat /\ MaxResumes \in Nat

VARIABLES
    now,
    latest,      \* the latest the clock has shown
    breaker,     \* the state of the breaker, in memory
    stored,      \* portfolio_breaker_checkpoint: that state, and its day
    baseline,    \* daily_start_equity:<day>, None before the day's first tick
    day,         \* _current_trading_day
    equity,      \* of the tick's snapshot
    phase,          \* where the tick is
    resumes,
    moves,       \* changes of the portfolio action so far
    acted,       \* actions planned so far, with the change they belong to
    halts        \* what has been acted upon and no operator has lifted

Rank == [normal |-> 0, reduce |-> 1, block_new |-> 2, liquidate |-> 3, locked |-> 4]
Today == now \div DayLength

(* allow_new_entries of the decision, and _blocks_new_risk of every later   *)
(* gate.                                                                    *)
AllowsEntries(b) == ~b.daily /\ Rank[b.action] < Rank["block_new"]
BlocksNewRisk(b) == b.triggered \/ Rank[b.action] >= Rank["block_new"]
MayOpen == phase = "act" /\ AllowsEntries(breaker) /\ ~BlocksNewRisk(breaker)

-----------------------------------------------------------------------------
(* No order is opened on a day whose loss was acted upon.                   *)
DayHolds == MayOpen => Today \notin halts.daily

(* Nor ever after the account was told to liquidate, unless an operator     *)
(* resumes.                                                                 *)
FinalHolds == MayOpen => ~halts.final

(* Both halts outlive restarts, failed writes and clocks.                   *)
HaltsHold == DayHolds /\ FinalHolds

(* Openings blocked by a drawdown stay blocked for the whole cooldown.      *)
CooldownServed == MayOpen => latest >= halts.until

(* An action is done once for its id (risk_actions.py skips what is         *)
(* completed), so two changes of the breaker never plan under one id,       *)
(* whatever was lost between a check and its checkpoint.                    *)
OneChangePerId == \A p, q \in acted : p.id = q.id => p = q

(* The summary that later gates read says what the decision said.           *)
SummaryAgrees == BlocksNewRisk(breaker) <=> ~AllowsEntries(breaker)
=============================================================================
