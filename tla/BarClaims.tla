------------------------------ MODULE BarClaims ------------------------------
(***************************************************************************)
(* Which closed bars a live engine processes: the leased claims of         *)
(* StateStore (table processed_bars) and the part of a tick that claims,   *)
(* evaluates, allocates and completes or releases bars.                    *)
(*                                                                         *)
(* A statement of the store is atomic; claim_bar is a SELECT followed by a *)
(* statement of its own, because SQLite opens the transaction only at the  *)
(* first write.  Time is kept as ages, so that it never ends.              *)
(***************************************************************************)
EXTENDS BarClaimsState

store == <<status, age>>
tick  == <<pc, lag, todo, bar, keys>>
vars  == <<newest, store, unknown, tick, faults>>

MaxAge == Lease + MaxLag   \* an age beyond which no reading differs

PCs == {"idle", "scan", "insert", "update", "evaluate", "finish"}

TypeOK ==
    /\ newest \in [Symbols -> Nat]
    /\ status \in [Bars -> {"none", "processing", "processed"}]
    /\ age \in [Bars -> 0 .. MaxAge]
    /\ unknown \in BOOLEAN
    /\ pc \in [Procs -> PCs]
    /\ lag \in [Procs -> 0 .. MaxLag]
    /\ todo \in [Procs -> SUBSET Bars]
    /\ bar \in [Procs -> Bars \cup {NoBar}]
    /\ keys \in [Procs -> SUBSET Bars]
    /\ faults \in 0 .. MaxFaults

Init ==
    /\ newest = [s \in Symbols |-> 0]
    /\ status = [b \in Bars |-> "none"]
    /\ age = [b \in Bars |-> 0]
    /\ unknown = FALSE
    /\ pc = [p \in Procs |-> "idle"]
    /\ lag = [p \in Procs |-> 0]
    /\ todo = [p \in Procs |-> {}]
    /\ bar = [p \in Procs |-> NoBar]
    /\ keys = [p \in Procs |-> {}]
    /\ faults = 0

-----------------------------------------------------------------------------
(* Control of a tick.                                                       *)

Fault == faults < MaxFaults /\ faults' = faults + 1

At(p, here, there) == pc[p] = here /\ pc' = [pc EXCEPT ![p] = there]

(* The tick ends, by its last statement or by an exception: what it held in *)
(* memory is gone, what it claimed and did not release stays claimed.       *)
EndTick(p) ==
    /\ pc' = [pc EXCEPT ![p] = "idle"]
    /\ lag' = [lag EXCEPT ![p] = 0]
    /\ todo' = [todo EXCEPT ![p] = {}]
    /\ bar' = [bar EXCEPT ![p] = NoBar]
    /\ keys' = [keys EXCEPT ![p] = {}]

(* release_bar of each: only a row that is still processing is deleted.     *)
Release(released) ==
    /\ status' = [b \in Bars |->
                    IF b \in released /\ status[b] = "processing" THEN "none"
                    ELSE status[b]]
    /\ age' = [b \in Bars |-> IF b \in released THEN 0 ELSE age[b]]

(* Reconciliation ran, the clock is read, the closed bars are known: of     *)
(* each symbol the tick visits the newest alone (frame.index[-1]).          *)
StartTick(p) ==
    /\ At(p, "idle", "scan")
    /\ unknown' \in {unknown, FALSE}
    /\ todo' = [todo EXCEPT ![p] = {b \in Bars : b[2] = newest[b[1]]}]
    /\ UNCHANGED <<newest, store, lag, bar, keys, faults>>

-----------------------------------------------------------------------------
(* claim_bar                                                                *)

(* _age_seconds, on the tick's own clock, which lags behind.                *)
AgeSeen(p, b) == IF age[b] > lag[p] THEN age[b] - lag[p] ELSE 0

Reclaimable_Never(p, b) == FALSE
(* A lease that has run out. *)
Reclaimable(p, b) == status[b] = "processing" /\ AgeSeen(p, b) >= Lease

Visit(p, b, next) ==
    /\ At(p, "scan", next)
    /\ b \in todo[p]
    /\ todo' = [todo EXCEPT ![p] = @ \ {b}]

(* The SELECT found no row, or a lease that has run out.                    *)
SelectFindsFree(p, b) ==
    /\ \/ status[b] = "none" /\ Visit(p, b, "insert")
       \/ Reclaimable(p, b) /\ Visit(p, b, "update")
    /\ bar' = [bar EXCEPT ![p] = b]
    /\ UNCHANGED <<newest, store, unknown, lag, keys, faults>>

(* The bar is processed or leased: the symbol is skipped.                   *)
SelectFindsTaken(p, b) ==
    /\ status[b] # "none" /\ ~Reclaimable(p, b)
    /\ Visit(p, b, "scan")
    /\ UNCHANGED <<newest, store, unknown, lag, bar, keys, faults>>

Claim(p) ==
    /\ status' = [status EXCEPT ![bar[p]] = "processing"]
    /\ age' = [age EXCEPT ![bar[p]] = lag[p]]

Insert(p) ==
    /\ At(p, "insert", "evaluate")
    /\ status[bar[p]] = "none"
    /\ Claim(p)
    /\ UNCHANGED <<newest, unknown, lag, todo, bar, keys, faults>>

(* Another process inserted the key first: IntegrityError, outside the      *)
(* try of the loop, ends the tick.                                          *)
InsertRaises(p) ==
    /\ pc[p] = "insert" /\ status[bar[p]] # "none"
    /\ EndTick(p)
    /\ UNCHANGED <<newest, store, unknown, faults>>

(* The UPDATE names the key alone: whatever the row has become since the    *)
(* SELECT, claim_bar returns True; a row deleted meanwhile stays deleted.   *)
Update(p) ==
    /\ At(p, "update", "evaluate")
    /\ \/ status[bar[p]] # "none" /\ Claim(p)
       \/ status[bar[p]] = "none" /\ UNCHANGED store
    /\ UNCHANGED <<newest, unknown, lag, todo, bar, keys, faults>>

-----------------------------------------------------------------------------
(* Evaluation, allocation and completion                                    *)

(* The strategies have seen the bar and no order is UNKNOWN: it joins the   *)
(* batch.                                                                   *)
Evaluate(p) ==
    /\ At(p, "evaluate", "scan")
    /\ ~unknown
    /\ keys' = [keys EXCEPT ![p] = @ \cup {bar[p]}]
    /\ bar' = [bar EXCEPT ![p] = NoBar]
    /\ UNCHANGED <<newest, store, unknown, lag, todo, faults>>

(* An order of the account, this bar's own or an earlier one, is UNKNOWN:   *)
(* the bar is released, though its key is in the batch, and the loop left.  *)
EvaluateUnknown(p) ==
    /\ At(p, "evaluate", "scan")
    /\ \/ unknown /\ UNCHANGED <<unknown, faults>>
       \/ ~unknown /\ unknown' = TRUE /\ Fault
    /\ keys' = [keys EXCEPT ![p] = @ \cup {bar[p]}]
    /\ Release({bar[p]})
    /\ todo' = [todo EXCEPT ![p] = {}]
    /\ bar' = [bar EXCEPT ![p] = NoBar]
    /\ UNCHANGED <<newest, lag>>

(* The evaluation raised before the key joined the batch, or the look at    *)
(* the order ledger after it: the bar is released and the loop goes on.     *)
EvaluateRaises(p) ==
    /\ At(p, "evaluate", "scan")
    /\ Fault
    /\ Release({bar[p]})
    /\ \/ UNCHANGED keys
       \/ LateFailures /\ keys' = [keys EXCEPT ![p] = @ \cup {bar[p]}]
    /\ bar' = [bar EXCEPT ![p] = NoBar]
    /\ UNCHANGED <<newest, unknown, lag, todo>>

(* All symbols are visited.  Candidates go to the allocator unless an order *)
(* is UNKNOWN or the account gate is closed; its orders may become UNKNOWN. *)
Allocate(p) ==
    /\ At(p, "scan", "finish")
    /\ todo[p] = {}
    /\ todo' = [todo EXCEPT ![p] = keys[p]]
    /\ \/ UNCHANGED <<unknown, faults>>
       \/ ~unknown /\ unknown' = TRUE /\ Fault
    /\ lag' = [lag EXCEPT ![p] = 0]
    /\ UNCHANGED <<newest, store, bar, keys>>

(* complete_bar updates the row if it is there, whoever claimed it.         *)
Complete(p, b) ==
    \/ /\ status[b] # "none"
       /\ status' = [status EXCEPT ![b] = "processed"]
       /\ age' = [age EXCEPT ![b] = 0]
    \/ status[b] = "none" /\ UNCHANGED store

(* One key of the batch: completed, or released while an order is UNKNOWN.  *)
FinishKey(p, b) ==
    /\ pc[p] = "finish" /\ b \in todo[p]
    /\ todo' = [todo EXCEPT ![p] = @ \ {b}]
    /\ \/ unknown /\ Release({b})
       \/ ~unknown /\ Complete(p, b)
    /\ UNCHANGED <<newest, unknown, pc, lag, bar, keys, faults>>

(* allocate, a completion or the order store raised: every key of the batch *)
(* is released, those already completed included.                           *)
BatchRaises(p) ==
    /\ pc[p] = "finish"
    /\ Fault
    /\ Release(keys[p])
    /\ EndTick(p)
    /\ UNCHANGED <<newest, unknown>>

FinishTick(p) ==
    /\ pc[p] = "finish" /\ todo[p] = {}
    /\ EndTick(p)
    /\ UNCHANGED <<newest, store, unknown, faults>>

-----------------------------------------------------------------------------
(* Crashes and time                                                         *)

(* A crashed process is restarted and begins with a new tick.               *)
Crash(p) ==
    /\ pc[p] # "idle"
    /\ Fault
    /\ EndTick(p)
    /\ UNCHANGED <<newest, store, unknown>>

Older(n, bound) == IF n < bound THEN n + 1 ELSE n

(* The clock reading is used until the last claim. *)
Visiting == {p \in Procs : pc[p] \notin {"idle", "finish"}}

TimePasses ==
    /\ \A p \in Visiting : lag[p] < MaxLag
    /\ age' = [b \in Bars |-> IF status[b] = "processing" THEN Older(age[b], MaxAge) ELSE 0]
    /\ lag' = [p \in Procs |-> IF p \in Visiting THEN lag[p] + 1 ELSE 0]
    /\ UNCHANGED <<newest, status, unknown, pc, todo, bar, keys, faults>>

(* The next bar of a symbol closes, also while ticks are at work on the     *)
(* last.                                                                    *)
BarCloses(s) ==
    /\ <<s, newest[s] + 1>> \in Bars
    /\ newest' = [newest EXCEPT ![s] = @ + 1]
    /\ UNCHANGED <<store, unknown, tick, faults>>

-----------------------------------------------------------------------------
Step(p) ==
    \/ StartTick(p)
    \/ \E b \in Bars : SelectFindsFree(p, b) \/ SelectFindsTaken(p, b) \/ FinishKey(p, b)
    \/ Insert(p) \/ InsertRaises(p) \/ Update(p)
    \/ Evaluate(p) \/ EvaluateUnknown(p) \/ EvaluateRaises(p)
    \/ Allocate(p) \/ BatchRaises(p) \/ FinishTick(p)

Next == (\E p \in Procs : Step(p) \/ Crash(p)) \/ TimePasses \/ \E s \in Symbols : BarCloses(s)

Spec == Init /\ [][Next]_vars

(* The engine loop ticks on and time passes.  Nothing is assumed of the     *)
(* bars, which may close before a tick comes, nor of the UNKNOWN orders.    *)
Fairness == WF_vars(TimePasses) /\ \A p \in Procs : WF_vars(Step(p))

FairSpec == Spec /\ Fairness
-----------------------------------------------------------------------------
(* Properties.                                                              *)

(* A bar is processed unless the next one closes first: a claim orphaned by *)
(* a crash or a failed tick is taken over when its lease has run out.  Not  *)
(* so while an order of the account stays UNKNOWN.                          *)
EventuallyProcessed ==
    \/ <>[]unknown
    \/ \A b \in Bars : LET now == newest[b[1]]
                       IN  now = b[2] ~> status[b] = "processed" \/ now > b[2]
=============================================================================
