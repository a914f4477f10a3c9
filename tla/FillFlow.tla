------------------------------ MODULE FillFlow ------------------------------
(***************************************************************************)
(* Where the risk of an order is while it travels: approved by the budget  *)
(* guard, reserved, working at the venue, filled, recorded, owned as lots, *)
(* sold.  Composes the submission and reconciliation handlers, the risk    *)
(* reservations (core/risk/reservation.py), the fill projection            *)
(* (OwnedLots), the account sync and the drawdown budget guard, as one     *)
(* engine runs them tick by tick, with crashes between any two writes.     *)
(*                                                                         *)
(* Risk is counted in units bought: a unit carries the same risk from its  *)
(* approval to its sale, prices standing still.                            *)
(***************************************************************************)
EXTENDS OwnedLots, OrderLifecycle

CONSTANTS
    Qty,          \* requested quantity of each order
    Budget,       \* units the drawdown budget admits
    Details,      \* what payloads tell of fills: "trades" or "average"
    MaxFaults     \* bound: crashes, account syncs and projection saves that fail

ASSUME FillFlowAssumption ==
    /\ Qty \in [Orders -> Nat \ {0}]
    /\ Budget \in Nat /\ MaxFaults \in Nat
    /\ Details \subseteq {"trades", "average"} /\ Details # {}
ASSUME FiniteAssumption == IsFiniteSet(Orders) /\ IsFiniteSet(Symbols)

VARIABLES
    venue,       \* "none", "working" or "ended": the order at the venue
    executed,    \* the orders of the trades there, of one unit each, in time
    row,         \* orders.status; "created" is no row
    attempted,   \* submission_attempted
    filled,      \* orders.filled_qty
    ledger,      \* the fills table
    checkpoint,  \* the projection's checkpoint
    lots,        \* portfolio.lot_books
    issues,      \* whether projection_issues has any
    positions,   \* portfolio.positions
    reserved,    \* remaining_qty of the order's reservation
    verified,    \* the account report allows new risk
    mode,        \* "down", "idle", or the phase of the tick: "recover",
                 \* "manage" (cancellations and exits), "batch" (allocation)
    asked,       \* orders a cancellation was asked of in this tick
    pc,          \* the point an operation of the broker has reached
    op,          \* its order, the payload it works on, whether it syncs after
    faults

durable == <<row, attempted, filled, ledger, checkpoint>>
memory == <<lots, issues, positions, reserved, verified>>
control == <<mode, asked, pc, op>>
market == <<venue, executed>>
vars == <<venue, executed, row, attempted, filled, ledger, checkpoint, lots,
          issues, positions, reserved, verified, mode, asked, pc, op, faults>>

NoOp == [order |-> "", upto |-> 0, ended |-> FALSE, details |-> "", sync |-> FALSE]
NewCheckpoint == [books |-> EmptyBooks, issues |-> {}, invalid |-> {}, last |-> 0, fills |-> 0]

TypeOK ==
    /\ venue \in [Orders -> {"none", "working", "ended"}]
    /\ executed \in Seq(Orders)
    /\ row \in [Orders -> Status] /\ attempted \subseteq Orders
    /\ filled \in [Orders -> Nat]
    /\ ledger \in Seq(FillRecord)
    /\ checkpoint \in [books : [Symbols -> Seq(Lot)], issues : SUBSET Nat,
                       invalid : SUBSET Symbols, last : Nat, fills : Nat]
    /\ lots \in [Symbols -> Seq(Lot)]
    /\ issues \in BOOLEAN /\ verified \in BOOLEAN
    /\ positions \in [Symbols -> Nat]
    /\ \A o \in Orders : reserved[o] \in 0 .. Qty[o]
    /\ mode \in {"down", "idle", "recover", "manage", "batch"} /\ asked \subseteq Orders
    /\ pc \in {"top", "send", "answer", "persist", "publish", "sync"}
    /\ op \in [order : Orders \cup {""}, upto : Nat, ended : BOOLEAN,
               details : Details \cup {""}, sync : BOOLEAN]
    /\ faults \in 0 .. MaxFaults

Init ==
    /\ venue = [o \in Orders |-> "none"] /\ executed = <<>>
    /\ row = [o \in Orders |-> "created"] /\ attempted = {}
    /\ filled = [o \in Orders |-> 0]
    /\ ledger = <<>> /\ checkpoint = NewCheckpoint
    /\ lots = EmptyBooks /\ issues = FALSE
    /\ positions = [s \in Symbols |-> 0]
    /\ reserved = [o \in Orders |-> 0] /\ verified = FALSE
    /\ mode = "down" /\ asked = {} /\ pc = "top" /\ op = NoOp
    /\ faults = 0

-----------------------------------------------------------------------------
(* The venue.                                                               *)

ExecutedOf(o, n) == Cardinality({i \in 1 .. n : executed[i] = o})
ExecutedQty(o) == ExecutedOf(o, Len(executed))

(* A total, as the number of its units. *)
Sum(quantity(_), S) == Cardinality(UNION {{e} \X (1 .. quantity(e)) : e \in S})

OrdersOf(s) == {o \in Orders : SymbolOf[o] = s}
ExecutedFor(S) == Cardinality({i \in DOMAIN executed : executed[i] \in S})
VenuePosition(s) == ExecutedFor(OrdersOf(s) \cap Opening) - ExecutedFor(OrdersOf(s) \ Opening)

(* A unit trades; inventory is not sold twice. *)
VenueFills(o) ==
    /\ venue[o] = "working"
    /\ o \in Opening \/ VenuePosition(SymbolOf[o]) > 0
    /\ executed' = Append(executed, o)
    /\ venue' = [venue EXCEPT ![o] = IF ExecutedQty(o) + 1 = Qty[o] THEN "ended" ELSE @]
    /\ UNCHANGED <<durable, memory, control, faults>>

(* It ends an order on its own. *)
VenueEnds(o) ==
    /\ venue[o] = "working"
    /\ venue' = [venue EXCEPT ![o] = "ended"]
    /\ UNCHANGED <<executed, durable, memory, control, faults>>

-----------------------------------------------------------------------------
(* Rows, reservations and the projection.                                   *)

Live(o) == row[o] \notin TERMINAL_STATUSES \cup {"created"}
Unknown == \E o \in Orders : row[o] = "unknown"

(* _apply of an OrderEvent: only these statuses free what is reserved. *)
RELEASING_STATUSES == {"canceled", "rejected", "expired", "filled"}
Publish(o, status) ==
    /\ row' = [row EXCEPT ![o] = status]
    /\ reserved' = [reserved EXCEPT ![o] = IF status \in RELEASING_STATUSES THEN 0 ELSE @]

Consumed_Negative(o, qty) == reserved[o] - qty
(* _consume, on a FillEvent. *)
Consumed(o, qty) == IF qty < reserved[o] THEN reserved[o] - qty ELSE 0

(* _rebuild_fill_projection: what the fills behind the cursor make of the   *)
(* checkpoint, and whether any issue is left: one of a fill or an order     *)
(* whose trades do not account for what its row shows.                      *)
Projection ==
    LET out == Applied(checkpoint, SubSeq(ledger, checkpoint.fills + 1, Len(ledger))) IN
    [books |-> out.books, issues |-> out.issues, invalid |-> out.invalid,
     last |-> out.last, fills |-> Len(ledger)]
HasIssues_FillsOnly(projection, rows) == projection.issues # {}
HasIssues(projection, rows) ==
    projection.issues # {} \/ \E o \in Orders : Documented(ledger, o) # rows[o]

Rebuild ==
    /\ checkpoint' = Projection
    /\ lots' = checkpoint'.books

-----------------------------------------------------------------------------
(* A tick: account sync, recovery of orders, cancellations and exits,       *)
(* allocation.                                                              *)

(* reconcile_full_account: the report on an export of the account that is   *)
(* newer than the positions in memory.  The rebuild it starts with drops    *)
(* the unowned positions that sync has just put among the issues.           *)
Report(held) ==
    /\ Rebuild
    /\ issues' = HasIssues(checkpoint', filled)
    /\ verified' = /\ ~issues'
                   /\ \A s \in Symbols : /\ VenuePosition(s) = NetQty(lots'[s])
                                         /\ VenuePosition(s) = held[s]

(* AccountSync.sync: the positions of the venue, and the report on them. *)
Synced ==
    /\ positions' = [s \in Symbols |-> VenuePosition(s)]
    /\ Report(positions')
    /\ UNCHANGED faults

(* Nothing but the report is touched when the balance cannot be read. *)
SyncFails ==
    /\ faults < MaxFaults /\ faults' = faults + 1
    /\ verified' = FALSE
    /\ UNCHANGED <<positions, checkpoint, lots, issues>>

(* A reconciliation run is due or not. *)
StartTick ==
    /\ mode = "idle" /\ pc = "top"
    /\ \/ Synced /\ mode' \in {"recover", "manage"}
       \/ SyncFails /\ UNCHANGED mode
    /\ UNCHANGED <<market, row, attempted, filled, ledger, reserved, asked, pc, op>>

(* The report at the end of the run. *)
CheckAccount ==
    /\ mode = "recover" /\ pc = "top"
    /\ Report(positions)
    /\ mode' = "manage"
    /\ UNCHANGED <<market, row, attempted, filled, ledger, positions, reserved,
                   asked, pc, op, faults>>

(* The gate before the candidates of a bar are allocated. *)
StartBatch ==
    /\ mode = "manage" /\ pc = "top"
    /\ verified /\ ~Unknown
    /\ mode' = "batch"
    /\ UNCHANGED <<market, durable, memory, asked, pc, op, faults>>

EndTick ==
    /\ mode \in {"manage", "batch"} /\ pc = "top"
    /\ mode' = "idle" /\ asked' = {}
    /\ UNCHANGED <<market, durable, memory, pc, op, faults>>

-----------------------------------------------------------------------------
(* submit_intent                                                            *)

Unsubmitted(o) == row[o] = "created" \/ (row[o] = "submitting" /\ o \notin attempted)

(* DrawdownBudget.snapshot: lots are counted for the symbols of positions.  *)
Held == {s \in Symbols : positions[s] > 0}
LotsVerifiable == \A s \in Held : NetQty(lots[s]) = positions[s]
OpenRisk == Sum(LAMBDA s : NetQty(lots[s]), Held)
PendingRisk(o) == Sum(LAMBDA p : reserved[p], Orders \ {o})

(* check_intent; its own reservation, restored, is not counted twice. *)
WithinBudget(o) == LotsVerifiable /\ OpenRisk + PendingRisk(o) + Qty[o] <= Budget

HasOtherActiveOpenOrder(o) ==
    \E p \in (OrdersOf(SymbolOf[o]) \cap Opening) \ {o} : Live(p) /\ filled[p] < Qty[p]

OutstandingExits(o) ==
    Sum(LAMBDA p : Qty[p] - filled[p], {p \in OrdersOf(SymbolOf[o]) \ (Opening \cup {o}) : Live(p)})

Submittable(o) ==
    IF o \in Opening THEN ~issues /\ WithinBudget(o) /\ ~HasOtherActiveOpenOrder(o)
    ELSE Qty[o] + OutstandingExits(o) <= positions[SymbolOf[o]]

At(here) == pc = here

(* An opening order is reserved and its row is created; what fails a check  *)
(* is rejected on the spot, and what it has reserved is released.           *)
Approve(o) ==
    /\ At("top") /\ mode = IF o \in Opening THEN "batch" ELSE "manage"
    /\ Unsubmitted(o)
    /\ IF Submittable(o)
         THEN /\ row' = [row EXCEPT ![o] = "submitting"]
              /\ reserved' = [reserved EXCEPT ![o] = IF o \in Opening THEN Qty[o] ELSE 0]
              /\ pc' = "send" /\ op' = [NoOp EXCEPT !.order = o]
         ELSE Publish(o, "rejected") /\ UNCHANGED <<pc, op>>
    /\ UNCHANGED <<market, attempted, filled, ledger, checkpoint, lots, issues,
                   positions, verified, mode, asked, faults>>

(* mark_submission_attempted and create_order, which arrives or does not. *)
Send ==
    /\ At("send")
    /\ attempted' = attempted \cup {op.order}
    /\ \/ venue' = [venue EXCEPT ![op.order] = "working"] /\ UNCHANGED <<row, reserved>>
       \/ UNCHANGED venue /\ \E status \in {"unknown", "rejected"} : Publish(op.order, status)
    /\ pc' = IF row' = row THEN "answer" ELSE "top"
    /\ op' = IF row' = row THEN op ELSE NoOp
    /\ UNCHANGED <<executed, filled, ledger, checkpoint, lots, issues, positions,
                   verified, mode, asked, faults>>

(* What the venue tells of the order now. *)
Read(o, d, sync) ==
    /\ pc' = "persist"
    /\ op' = [order |-> o, upto |-> Len(executed), ended |-> venue'[o] = "ended",
              details |-> d, sync |-> sync]

(* The answer arrives, or is lost. *)
Answer ==
    /\ At("answer")
    /\ UNCHANGED venue
    /\ \/ (\E d \in Details : Read(op.order, d, TRUE)) /\ UNCHANGED <<row, reserved>>
       \/ Publish(op.order, "unknown") /\ pc' = "top" /\ op' = NoOp
    /\ UNCHANGED <<executed, attempted, filled, ledger, checkpoint, lots, issues,
                   positions, verified, mode, asked, faults>>

-----------------------------------------------------------------------------
(* reconcile_order and cancel_order                                         *)

FillsOf(o) == {i \in DOMAIN ledger : ledger[i].order = o}
Synthetic(o) == \E i \in FillsOf(o) : ledger[i].synthetic

(* A terminal order is read again as long as one of its fills is inferred;  *)
(* a failed read or an order the venue does not know makes it UNKNOWN.      *)
Reconcile(o) ==
    /\ At("top") /\ mode = "recover" /\ o \in attempted
    /\ UNCHANGED venue
    /\ \/ /\ Live(o) \/ Synthetic(o)
          /\ venue[o] # "none" /\ \E d \in Details : Read(o, d, TRUE)
          /\ UNCHANGED <<row, reserved>>
       \/ Live(o) /\ Publish(o, "unknown") /\ UNCHANGED <<pc, op>>
    /\ UNCHANGED <<executed, attempted, filled, ledger, checkpoint, lots, issues,
                   positions, verified, mode, asked, faults>>

(* An order proven absent from the venue, or never sent, expires; that      *)
(* status releases nothing.                                                 *)
ResolveUnsubmitted(o) ==
    /\ At("top") /\ mode = "recover"
    /\ venue[o] = "none"
    /\ row[o] = "unknown" \/ (row[o] = "submitting" /\ o \notin attempted)
    /\ Publish(o, "expired_unsubmitted")
    /\ UNCHANGED <<market, attempted, filled, ledger, checkpoint, lots, issues,
                   positions, verified, control, faults>>

(* The venue ends the order if it still works; the answer, or the read that *)
(* follows a refused cancellation, tells what it has filled until then.     *)
(* Only the latter is followed by a sync.                                   *)
Cancel(o) ==
    /\ At("top") /\ mode = "manage" /\ o \in Opening \ asked
    /\ asked' = asked \cup {o}
    /\ row[o] \in {"accepted", "partial", "cancel_pending"}
    /\ row' = [row EXCEPT ![o] = "cancel_pending"]
    /\ \E d \in Details :
         \/ venue' = [venue EXCEPT ![o] = "ended"] /\ Read(o, d, FALSE)
         \/ UNCHANGED venue /\ Read(o, d, TRUE)
    /\ UNCHANGED <<executed, attempted, filled, ledger, checkpoint, memory, mode, faults>>

-----------------------------------------------------------------------------
(* _persist_exchange_payload: the fills one by one, then the row.           *)

Trade(i) == [id |-> 2 * i, order |-> executed[i], qty |-> 1, key |-> 2 * i,
             synthetic |-> FALSE, sound |-> TRUE]
(* Inferred from the average price, at the local time of the read. *)
Inferred(o, qty) == [id |-> 2 * op.upto + 1, order |-> o, qty |-> qty,
                     key |-> 2 * op.upto + 1, synthetic |-> TRUE, sound |-> TRUE]

Reported == ExecutedOf(op.order, op.upto)
Recorded(o) == Cardinality(UNION {{i} \X (1 .. ledger[i].qty) : i \in FillsOf(o)})
Missing == {i \in 1 .. op.upto : executed[i] = op.order /\ Trade(i) \notin ToSet(ledger)}

NextFill ==
    IF op.details = "trades"
      THEN IF Missing = {} THEN {} ELSE {Trade(Min(Missing))}
      ELSE IF Reported > Recorded(op.order)
             THEN {Inferred(op.order, Reported - Recorded(op.order))} ELSE {}

(* add_fill *)
AddFill ==
    /\ At("persist")
    /\ \E f \in NextFill : ledger' = Append(ledger, f)
    /\ pc' = "publish"
    /\ UNCHANGED <<market, row, attempted, filled, checkpoint, memory, mode, asked, op, faults>>

(* _publish_fill_event: the projection first, then the event, from which    *)
(* the reservation is consumed.                                             *)
PublishFill ==
    /\ At("publish")
    /\ Rebuild
    /\ issues' = HasIssues(checkpoint', filled)
    /\ reserved' = [reserved EXCEPT ![op.order] = Consumed(op.order, Last(ledger).qty)]
    /\ pc' = "persist"
    /\ UNCHANGED <<market, row, attempted, filled, ledger, positions, verified, mode, asked, op, faults>>

(* The save of the projection fails: the exception ends the operation, in a *)
(* reconciliation the tick, in an allocation the batch.  The books the      *)
(* portfolio shares with the projection keep the fill.                      *)
PublishRaises ==
    /\ At("publish")
    /\ faults < MaxFaults /\ faults' = faults + 1
    /\ lots' \in {lots, Projection.books}
    /\ pc' = "top" /\ op' = NoOp
    /\ mode' = IF mode = "recover" THEN "idle" ELSE "manage"
    /\ UNCHANGED <<market, durable, issues, positions, reserved, verified, asked>>

NewStatus == ParsedStatus(IF op.ended THEN "canceled" ELSE "open", Reported, Qty[op.order])

UpdateRow_NoRelease ==
    /\ row' = [row EXCEPT ![op.order] = NewStatus]
    /\ filled' = [filled EXCEPT ![op.order] = Reported]
    /\ UNCHANGED reserved
(* The row and the OrderEvent of the new status. *)
UpdateRow ==
    /\ Publish(op.order, NewStatus)
    /\ filled' = [filled EXCEPT ![op.order] = Reported]

FinishPersist ==
    /\ At("persist") /\ NextFill = {}
    /\ UpdateRow
    /\ LET sync == op.sync /\ NewStatus \in {"partial", "filled"} IN
         pc' = (IF sync THEN "sync" ELSE "top") /\ op' = NoOp
    /\ UNCHANGED <<market, attempted, ledger, checkpoint, lots, issues, positions,
                   verified, mode, asked, faults>>

(* The sync after a fill, whose result is not looked at. *)
SyncAfter ==
    /\ At("sync")
    /\ Synced \/ SyncFails
    /\ pc' = "top"
    /\ UNCHANGED <<market, row, attempted, filled, ledger, reserved, mode, asked, op>>

-----------------------------------------------------------------------------
Crash ==
    /\ mode # "down"
    /\ faults < MaxFaults /\ faults' = faults + 1
    /\ mode' = "down" /\ asked' = {} /\ pc' = "top" /\ op' = NoOp
    /\ lots' = EmptyBooks /\ issues' = FALSE /\ verified' = FALSE
    /\ positions' = [s \in Symbols |-> 0]
    /\ reserved' = [o \in Orders |-> 0]
    /\ UNCHANGED <<market, durable>>

(* _restore_reservations: all of an order that is not finished. *)
Restored(o) == IF o \in Opening /\ Live(o) /\ filled[o] < Qty[o] THEN Qty[o] ELSE 0

(* LiveBroker.__init__ *)
Start ==
    /\ mode = "down"
    /\ reserved' = [o \in Orders |-> Restored(o)]
    /\ Rebuild
    /\ issues' = HasIssues(checkpoint', filled)
    /\ mode' = "idle"
    /\ UNCHANGED <<market, row, attempted, filled, ledger, positions, verified, asked, pc, op, faults>>

Next ==
    \/ \E o \in Orders :
         \/ VenueFills(o) \/ VenueEnds(o)
         \/ Approve(o) \/ Reconcile(o) \/ Cancel(o) \/ ResolveUnsubmitted(o)
    \/ Start \/ StartTick \/ CheckAccount \/ StartBatch \/ EndTick
    \/ Send \/ Answer \/ AddFill \/ PublishFill \/ PublishRaises \/ FinishPersist \/ SyncAfter
    \/ Crash

Spec == Init /\ [][Next]_vars

-----------------------------------------------------------------------------
(* Properties.                                                              *)

Outstanding(o) == IF venue[o] = "working" THEN Qty[o] - ExecutedQty(o) ELSE 0
Exposure == Sum(VenuePosition, Symbols) + Sum(Outstanding, Opening)
Unrecorded(o) == ExecutedQty(o) - Documented(ledger, o)

(* The budget is conserved from approval over reservation, working order    *)
(* and lot to exit (SYS-08): what is bought and not sold plus what working  *)
(* orders may still buy never exceeds it, whatever failed on the way.       *)
BudgetKept == Exposure <= Budget

(* So it is as long as the venue tells the trades of every fill, though a   *)
(* fill that ends an order, or one whose sync fails, is followed by         *)
(* approvals that look at the positions of before.                          *)
BudgetKeptWithTrades == (\A i \in DOMAIN ledger : ~ledger[i].synthetic) => BudgetKept

(* When no issue blocks new risk and no row is ahead of its trades, every   *)
(* unit an order may still buy or has bought unrecorded is reserved:        *)
(* FillEvents that were lost in a crash, are inferred and then come again,  *)
(* or come late free nothing that the venue still works on.                 *)
RiskCovered ==
    /\ pc = "top" /\ mode # "down" /\ ~issues
    /\ \A o \in Orders : Documented(ledger, o) = filled[o]
    => \A o \in Opening : Outstanding(o) + Unrecorded(o) <= reserved[o]

(* A finished order holds nothing back: its reservation is released, once   *)
(* the handler that finished it is done and whatever crashed before.  The   *)
(* exception is EXPIRED_UNSUBMITTED, which releases nothing.                *)
FinishedHoldsNothing ==
    pc = "top" => \A o \in Orders : row[o] \in RELEASING_STATUSES => reserved[o] = 0
=============================================================================
