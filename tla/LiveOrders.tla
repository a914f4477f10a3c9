----------------------------- MODULE LiveOrders -----------------------------
(***************************************************************************)
(* The life of opening orders in live trading: SafeLiveBroker and its      *)
(* SubmissionService and OrderReconciler, working on the durable order     *)
(* ledger (OrderStore) and the durable daily budget (PersistentOrder-      *)
(* SafetyGuard) against a venue that loses requests and answers.           *)
(*                                                                         *)
(* The broker is one sequential process that may stop between any two      *)
(* durable writes or network calls: `pc` is the point it has reached.      *)
(* ledger, row, fills, resolution and dailyUsed survive a crash; pc, op,   *)
(* cur, pay, todo and raised do not.  venue, inFlight and sent belong to   *)
(* the venue and the network.                                              *)
(***************************************************************************)
EXTENDS OrderLifecycle, FiniteSets

CONSTANTS
    Orders,        \* client_order_id of the opening intents of one account
    Symbols,       \* symbols traded
    SymbolOf,      \* the symbol of each intent
    Qty,           \* requested quantity of every order, in lots
    DailyLimit,    \* max_daily_new_risk, in orders' worth of notional
    MaxCrashes,    \* bound: crashes of the broker process
    Details,       \* how the venue documents fills, see Payload
    Faults,        \* which environment faults the instance includes
    NoOrder        \* no client_order_id

FaultNames ==
    {"stale_read",      \* a lookup may serve an older snapshot
     "bare_status",     \* a payload may miss its status
     "wrong_identity",  \* a payload may name another order
     "late_reject",     \* the venue may reject after acknowledging
     "late_fill",       \* the venue may report a fill after a cancel
     "absence",         \* lookups may prove that an order does not exist
     "operator_error"}  \* the operator may misread the venue

ASSUME OrdersAssumption == IsFiniteSet(Orders) /\ NoOrder \notin Orders
ASSUME SymbolAssumption == SymbolOf \in [Orders -> Symbols]
ASSUME QtyAssumption == Qty \in Nat \ {0}
ASSUME LimitAssumption == DailyLimit \in Nat /\ MaxCrashes \in Nat
ASSUME DetailsAssumption == Details \subseteq {"trades", "average", "none"}
ASSUME FaultsAssumption == Faults \subseteq FaultNames

VARIABLES
    ledger,      \* client ids that have a row in the orders table
    row,         \* [Orders -> Row], meaningful for members of ledger
    fills,       \* the fills table: trades recorded, synthetic quantity
    resolution,  \* operator_order_resolutions: confirmed_by of each order
    dailyUsed,   \* daily_risk of the current day
    venue,       \* the venue's own fact about each order
    inFlight,    \* create_order requests that may still reach the venue
    sent,        \* create_order calls made for each order
    pc, op, cur, pay, todo, raised,
    crashes      \* how many there were, and how many that tore a rejection

durable  == <<ledger, row, fills, resolution, dailyUsed>>
outside  == <<venue, inFlight, sent>>
process  == <<pc, op, cur, pay, todo, raised>>
vars == <<ledger, row, fills, resolution, dailyUsed, venue, inFlight, sent,
          pc, op, cur, pay, todo, raised, crashes>>

Row == [status : Status,         \* orders.status
        attempted : BOOLEAN,     \* orders.submission_attempted
        exchangeId : BOOLEAN,    \* exchange_order_id is known
        filled : 0 .. Qty,       \* filled_qty; remaining_qty is Qty - filled
        absent : BOOLEAN,        \* CONFIRMED_ABSENT and authoritative_absence
        expired : BOOLEAN]       \* updated_at is submitting_ttl or more ago

VenueStatus == {"nothing", "open", "closed", "canceled", "expired", "rejected"}
VenueFact == [status : VenueStatus, filled : 0 .. Qty]

(* What a response carries: the raw status and cumulative fill, whether it  *)
(* itemises trades, gives only an average price or neither, and whether     *)
(* client id, symbol and side are those of the order.                       *)
Payload == [raw : RawStatus, filled : 0 .. Qty,
            detail : {"trades", "average", "none"}, identity : BOOLEAN]
NoPayload == [raw |-> "none", filled |-> 0, detail |-> "none", identity |-> TRUE]

PCs == {"down", "idle", "reject", "prepare", "check", "send", "await", "fetch",
        "store", "recover", "precancel", "cancel"}
Ops == {"none", "submit", "replay", "recover", "precancel", "cancel"}

NewRow == [status |-> "submitting", attempted |-> FALSE, exchangeId |-> FALSE,
           filled |-> 0, absent |-> FALSE, expired |-> FALSE]

TypeOK ==
    /\ ledger \subseteq Orders
    /\ row \in [Orders -> Row]
    /\ fills \in [Orders -> [real : 0 .. Qty, synthetic : 0 .. Qty]]
    /\ resolution \in [Orders -> {"none", "submitting_ttl", "unknown_ttl", "operator"}]
    /\ dailyUsed \in Nat
    /\ venue \in [Orders -> VenueFact]
    /\ inFlight \subseteq Orders
    /\ sent \in [Orders -> Nat]
    /\ pc \in PCs
    /\ op \in Ops
    /\ cur \in Orders \cup {NoOrder}
    /\ pay \in Payload
    /\ todo \subseteq Orders
    /\ raised \in BOOLEAN
    /\ crashes \in [all : 0 .. MaxCrashes, torn : 0 .. MaxCrashes]
    /\ crashes.torn <= crashes.all

Init ==
    /\ ledger = {}
    /\ row = [o \in Orders |-> NewRow]
    /\ fills = [o \in Orders |-> [real |-> 0, synthetic |-> 0]]
    /\ resolution = [o \in Orders |-> "none"]
    /\ dailyUsed = 0
    /\ venue = [o \in Orders |-> [status |-> "nothing", filled |-> 0]]
    /\ inFlight = {}
    /\ sent = [o \in Orders |-> 0]
    /\ pc = "idle" /\ op = "none" /\ cur = NoOrder /\ pay = NoPayload
    /\ todo = {} /\ raised = FALSE
    /\ crashes = [all |-> 0, torn |-> 0]

-----------------------------------------------------------------------------
(* Readings of the ledger.                                                  *)

ListNonTerminal_SkipsCancelPending ==
    {o \in ledger : row[o].status \notin TERMINAL_STATUSES \cup {"cancel_pending"}}
list_non_terminal == {o \in ledger : row[o].status \notin TERMINAL_STATUSES}

OtherActive_IgnoresUnknown(o) ==
    \E p \in list_non_terminal \ {o} :
        SymbolOf[p] = SymbolOf[o] /\ row[p].filled < Qty /\ row[p].status # "unknown"
(* _is_opening_record and _has_other_active_open_order *)
HasOtherActiveOpenOrder(o) ==
    \E p \in list_non_terminal \ {o} :
        SymbolOf[p] = SymbolOf[o] /\ row[p].filled < Qty

PreSubmit_IgnoresAttempt(o) == row[o].status = "submitting"
(* A persisted intent whose network submission has not begun. *)
PreSubmit(o) == row[o].status = "submitting" /\ ~row[o].attempted

(* reconcile_order asks the venue: not of a settled order, unless part of   *)
(* its fills is synthetic, and not of one that was never attempted.         *)
NeedsLookup(o) ==
    /\ row[o].attempted
    /\ row[o].status \in TERMINAL_STATUSES => fills[o].synthetic > 0

-----------------------------------------------------------------------------
(* Control of the process.                                                  *)

GoIdle ==
    /\ pc' = "idle" /\ op' = "none" /\ cur' = NoOrder /\ pay' = NoPayload
    /\ todo' = {}

(* The call in progress returns: to the recovery loop, to the cancel that   *)
(* reconciled first, or to the caller.                                      *)
Return ==
    \/ op = "recover" /\ pc' = "recover" /\ cur' = NoOrder /\ pay' = NoPayload
       /\ UNCHANGED <<op, todo, raised>>
    \/ op = "precancel" /\ pc' = "precancel" /\ pay' = NoPayload
       /\ UNCHANGED <<op, cur, todo, raised>>
    \/ op \notin {"recover", "precancel"} /\ GoIdle /\ UNCHANGED raised

(* validate_transition raised ValueError: nothing catches it in the broker, *)
(* so the whole operation, a recovery loop included, is abandoned.          *)
Raise == GoIdle /\ raised' = TRUE

(* OrderStore.transition followed by the return of the call. *)
TransitionAndReturn(new) ==
    \/ /\ ValidTransition(row[cur].status, new.status)
       /\ row' = [row EXCEPT ![cur] = new]
       /\ Return
    \/ /\ ~ValidTransition(row[cur].status, new.status)
       /\ UNCHANGED row
       /\ Raise

UnknownRow_ForgetsAttempt(r) ==
    [r EXCEPT !.status = "unknown", !.attempted = FALSE, !.absent = FALSE, !.expired = FALSE]
UnknownRow(r) == [r EXCEPT !.status = "unknown", !.absent = FALSE, !.expired = FALSE]
RejectedRow(r) == [r EXCEPT !.status = "rejected", !.absent = FALSE, !.expired = FALSE]

-----------------------------------------------------------------------------
(* submit_intent                                                            *)

(* SafeLiveBroker, first sight of the intent: the symbol has no other open  *)
(* opening order and the daily budget takes it.                             *)
Reserve(o) ==
    /\ pc = "idle" /\ o \notin ledger
    /\ ~HasOtherActiveOpenOrder(o)
    /\ dailyUsed + 1 <= DailyLimit
    /\ dailyUsed' = dailyUsed + 1
    /\ pc' = "prepare" /\ op' = "submit" /\ cur' = o /\ raised' = FALSE
    /\ UNCHANGED <<ledger, row, fills, resolution, outside, pay, todo, crashes>>

Block_FallsThrough(o) ==
    /\ pc = "idle" /\ o \notin ledger
    /\ ledger' = ledger \cup {o}
    /\ pc' = "check" /\ op' = "submit" /\ cur' = o /\ raised' = FALSE
    /\ UNCHANGED <<row, fills, resolution, dailyUsed, outside, pay, todo, crashes>>
(* SafeLiveBroker refuses the new intent: another opening order is active,  *)
(* the budget is exhausted, or policy forbids it (kill switch, allowlist,   *)
(* notional).  record_local_rejection first creates the row.                *)
Block(o) ==
    /\ pc = "idle" /\ o \notin ledger
    /\ ledger' = ledger \cup {o}
    /\ pc' = "reject" /\ op' = "submit" /\ cur' = o /\ raised' = FALSE
    /\ UNCHANGED <<row, fills, resolution, dailyUsed, outside, pay, todo, crashes>>

(* A replay of an intent that was persisted and never attempted resumes     *)
(* behind the guard.                                                        *)
Resume(o) ==
    /\ pc = "idle" /\ o \in ledger /\ PreSubmit(o)
    /\ pc' = "prepare" /\ op' = "submit" /\ cur' = o /\ raised' = FALSE
    /\ UNCHANGED <<durable, outside, pay, todo, crashes>>

(* Health, validation, exchange_boundary.prepare or the reservation refuse. *)
PrepareFails ==
    /\ pc = "prepare"
    /\ ledger' = ledger \cup {cur}
    /\ pc' = "reject"
    /\ UNCHANGED <<row, fills, resolution, dailyUsed, outside, op, cur, pay, todo,
                   raised, crashes>>

(* record_local_rejection, second write. *)
RejectLocally ==
    /\ pc = "reject"
    /\ TransitionAndReturn(RejectedRow(row[cur]))
    /\ UNCHANGED <<ledger, fills, resolution, dailyUsed, outside, crashes>>

CreateIntent ==
    /\ pc = "prepare"
    /\ ledger' = ledger \cup {cur}
    /\ pc' = "check"
    /\ UNCHANGED <<row, fills, resolution, dailyUsed, outside, op, cur, pay, todo,
                   raised, crashes>>

(* The last look at the other orders of the symbol. *)
CheckBlocks ==
    /\ pc = "check" /\ HasOtherActiveOpenOrder(cur)
    /\ pc' = "reject"
    /\ UNCHANGED <<durable, outside, op, cur, pay, todo, raised, crashes>>

mark_submission_attempted ==
    /\ pc = "check" /\ ~HasOtherActiveOpenOrder(cur)
    /\ row' = [row EXCEPT ![cur] = [@ EXCEPT !.attempted = TRUE, !.expired = FALSE]]
    /\ pc' = "send"
    /\ UNCHANGED <<ledger, fills, resolution, dailyUsed, outside, op, cur, pay, todo,
                   raised, crashes>>

(* create_order is called once and never retried. *)
Send ==
    /\ pc = "send"
    /\ sent' = [sent EXCEPT ![cur] = @ + 1]
    /\ inFlight' = inFlight \cup {cur}
    /\ pc' = "await"
    /\ UNCHANGED <<durable, venue, op, cur, pay, todo, raised, crashes>>

(* Snapshots a response about o can carry: the venue's present fact, or     *)
(* with stale reads any earlier one of the order's working life.            *)
Snapshots(o) ==
    {venue[o]} \cup
    IF "stale_read" \in Faults
      THEN {[status |-> "open", filled |-> f] : f \in 0 .. venue[o].filled}
      ELSE {}

Responses(o) ==
    {[raw |-> r, filled |-> s.filled, detail |-> d, identity |-> i] :
        s \in Snapshots(o), d \in Details, r \in RawStatus, i \in BOOLEAN}

Genuine(o, p) ==
    /\ \E s \in Snapshots(o) : p.raw \in {s.status, "none"} /\ p.filled = s.filled
    /\ p.raw = "none" => "bare_status" \in Faults
    /\ ~p.identity => "wrong_identity" \in Faults

VenueKnows(o) == venue[o].status # "nothing"

(* The call returned a payload about the order. *)
Answered(p) ==
    /\ VenueKnows(cur)
    /\ Genuine(cur, p)
    /\ pay' = p
    /\ pc' = "store"
    /\ UNCHANGED <<durable, outside, op, cur, todo, raised, crashes>>

CreateOrderResponse == pc = "await" /\ \E p \in Responses(cur) : Answered(p)

(* Network, timeout, rate limit, unavailable or unclassified: the request   *)
(* may or may not have reached the venue.                                   *)
CreateOrderAmbiguous ==
    /\ pc = "await"
    /\ TransitionAndReturn(UnknownRow(row[cur]))
    /\ UNCHANGED <<ledger, fills, resolution, dailyUsed, outside, crashes>>

(* Authentication, balance or trading rule: the venue took nothing. *)
CreateOrderRefused ==
    /\ pc = "await" /\ cur \in inFlight
    /\ inFlight' = inFlight \ {cur}
    /\ TransitionAndReturn(RejectedRow(row[cur]))
    /\ UNCHANGED <<ledger, fills, resolution, dailyUsed, venue, sent, crashes>>

-----------------------------------------------------------------------------
(* reconcile_order                                                          *)

(* submit_intent of an intent already submitted: a replay reconciles. *)
Replay(o) ==
    /\ pc = "idle" /\ o \in ledger /\ ~PreSubmit(o) /\ NeedsLookup(o)
    /\ pc' = "fetch" /\ op' = "replay" /\ cur' = o /\ raised' = FALSE
    /\ UNCHANGED <<durable, outside, pay, todo, crashes>>

(* The lookup fails after its retries: only a status change is written, so  *)
(* an order already UNKNOWN keeps its label and its age.                    *)
FetchFails ==
    /\ pc = "fetch"
    /\ \/ row[cur].status = "unknown" /\ Return /\ UNCHANGED row
       \/ row[cur].status # "unknown" /\ TransitionAndReturn(UnknownRow(row[cur]))
    /\ UNCHANGED <<ledger, fills, resolution, dailyUsed, outside, crashes>>

(* Not found, an incomplete list or an unsupported lookup. *)
FetchInconclusive ==
    /\ pc = "fetch"
    /\ \/ /\ row[cur].status = "unknown"
          /\ row' = [row EXCEPT ![cur] = [@ EXCEPT !.absent = FALSE]]
          /\ Return
       \/ row[cur].status # "unknown" /\ TransitionAndReturn(UnknownRow(row[cur]))
    /\ UNCHANGED <<ledger, fills, resolution, dailyUsed, outside, crashes>>

(* AUTHORITATIVE_ABSENCE, true when it is given: the label and the evidence *)
(* are stored under the old updated_at.                                     *)
FetchProvesAbsence ==
    /\ pc = "fetch" /\ "absence" \in Faults /\ ~VenueKnows(cur)
    /\ TransitionAndReturn([row[cur] EXCEPT !.status = "unknown", !.absent = TRUE])
    /\ UNCHANGED <<ledger, fills, resolution, dailyUsed, outside, crashes>>

FetchFinds == pc = "fetch" /\ \E p \in Responses(cur) : Answered(p)

-----------------------------------------------------------------------------
(* _persist_exchange_payload                                                *)

MissingTrades_NotOfCanceled ==
    pay.detail = "trades" /\ pay.raw # "canceled" /\ fills[cur].real < pay.filled
(* The quantity _persist_fills has still to write for the payload in hand.  *)
MissingTrades == pay.detail = "trades" /\ fills[cur].real < pay.filled
MissingSynthetic ==
    /\ pay.detail = "average"
    /\ fills[cur].real + fills[cur].synthetic < pay.filled

StoreMismatch ==
    /\ pc = "store" /\ ~pay.identity
    /\ TransitionAndReturn(UnknownRow(row[cur]))
    /\ UNCHANGED <<ledger, fills, resolution, dailyUsed, outside, crashes>>

(* Each trade is a transaction of its own, ahead of the order row; one the  *)
(* store already has is skipped.                                            *)
StoreTrade ==
    /\ pc = "store" /\ pay.identity /\ MissingTrades
    /\ fills' = [fills EXCEPT ![cur].real = @ + 1]
    /\ UNCHANGED <<ledger, row, resolution, dailyUsed, outside, process, crashes>>

(* Without trades the cumulative quantity not yet on record becomes one     *)
(* synthetic fill.                                                          *)
StoreSynthetic ==
    /\ pc = "store" /\ pay.identity /\ MissingSynthetic
    /\ fills' = [fills EXCEPT ![cur].synthetic = pay.filled - fills[cur].real]
    /\ UNCHANGED <<ledger, row, resolution, dailyUsed, outside, process, crashes>>

(* An older snapshot never takes back a fill the row already shows. *)
StoreIgnoresOlder ==
    /\ pc = "store" /\ pay.identity /\ ~MissingTrades /\ ~MissingSynthetic
    /\ pay.filled < row[cur].filled
    /\ Return
    /\ UNCHANGED <<durable, outside, crashes>>

StoreRow ==
    /\ pc = "store" /\ pay.identity /\ ~MissingTrades /\ ~MissingSynthetic
    /\ pay.filled >= row[cur].filled
    /\ TransitionAndReturn(
         [row[cur] EXCEPT !.status = ParsedStatus(pay.raw, pay.filled, Qty),
                          !.exchangeId = TRUE, !.filled = pay.filled,
                          !.absent = FALSE, !.expired = FALSE])
    /\ UNCHANGED <<ledger, fills, resolution, dailyUsed, outside, crashes>>

-----------------------------------------------------------------------------
(* cancel_order                                                             *)

CancelPending(r) == [r EXCEPT !.status = "cancel_pending", !.expired = FALSE]

RequestCancel(o) ==
    /\ ValidTransition(row[o].status, "cancel_pending")
    /\ row' = [row EXCEPT ![o] = CancelPending(row[o])]
    /\ pc' = "cancel" /\ op' = "cancel" /\ cur' = o
    /\ UNCHANGED <<pay, todo>>

(* The order is first moved to CANCEL_PENDING; from a status that does not  *)
(* allow it the call raises and the venue is not asked.                     *)
Cancel(o) ==
    /\ pc = "idle" /\ o \in list_non_terminal /\ row[o].status # "unknown"
    /\ \/ RequestCancel(o) /\ raised' = FALSE
       \/ ~ValidTransition(row[o].status, "cancel_pending") /\ UNCHANGED row /\ Raise
    /\ UNCHANGED <<ledger, fills, resolution, dailyUsed, outside, crashes>>

(* An UNKNOWN order is reconciled before it is canceled. *)
CancelUnknown(o) ==
    /\ pc = "idle" /\ o \in ledger /\ row[o].status = "unknown"
    /\ pc' = IF NeedsLookup(o) THEN "fetch" ELSE "precancel"
    /\ op' = "precancel" /\ cur' = o /\ raised' = FALSE
    /\ UNCHANGED <<durable, outside, pay, todo, crashes>>

CancelResolved ==
    /\ pc = "precancel"
    /\ \/ /\ row[cur].status \in TERMINAL_STATUSES \cup {"unknown"}
          /\ GoIdle /\ UNCHANGED <<row, raised>>
       \/ /\ row[cur].status \notin TERMINAL_STATUSES \cup {"unknown"}
          /\ RequestCancel(cur) /\ UNCHANGED raised
    /\ UNCHANGED <<ledger, fills, resolution, dailyUsed, outside, crashes>>

(* The venue cancels what still works and answers with the result. *)
CanceledAtVenue(o) ==
    venue' = [venue EXCEPT ![o].status = IF @ = "open" THEN "canceled" ELSE @]

CancelAnswered ==
    /\ pc = "cancel" /\ VenueKnows(cur)
    /\ CanceledAtVenue(cur)
    /\ \E d \in Details :
         pay' = [raw |-> venue'[cur].status, filled |-> venue[cur].filled,
                 detail |-> d, identity |-> TRUE]
    /\ pc' = "store"
    /\ UNCHANGED <<durable, inFlight, sent, op, cur, todo, raised, crashes>>

(* The cancel fails or its answer is lost: the venue is asked what is so. *)
CancelFails ==
    /\ pc = "cancel"
    /\ \/ VenueKnows(cur) /\ CanceledAtVenue(cur)
       \/ UNCHANGED venue
    /\ pc' = "fetch"
    /\ UNCHANGED <<durable, inFlight, sent, op, cur, pay, todo, raised, crashes>>

-----------------------------------------------------------------------------
(* recover_open_orders                                                      *)

StartRecovery ==
    /\ pc = "idle"
    /\ todo' = list_non_terminal
    /\ pc' = "recover" /\ op' = "recover" /\ raised' = FALSE
    /\ UNCHANGED <<durable, outside, cur, pay, crashes>>

(* resolve_as_unsubmitted: status and audit row in one transaction. *)
MayResolveAsUnsubmitted(o) ==
    /\ row[o].status \in {"submitting", "unknown"}
    /\ ~row[o].exchangeId /\ row[o].filled = 0
    /\ fills[o].real = 0 /\ fills[o].synthetic = 0

ResolveAsUnsubmitted(o, by) ==
    /\ MayResolveAsUnsubmitted(o)
    /\ row' = [row EXCEPT ![o] = [@ EXCEPT !.status = "expired_unsubmitted",
                                           !.absent = FALSE, !.expired = FALSE]]
    /\ resolution' = [resolution EXCEPT ![o] = by]

ProvenAbsent(o) ==
    /\ row[o].status = "unknown" /\ row[o].absent
    /\ ~row[o].exchangeId /\ row[o].filled = 0

RecoverExpires(o) ==
    /\ pc = "recover" /\ o \in todo /\ row[o].expired
    /\ \/ PreSubmit(o) /\ ResolveAsUnsubmitted(o, "submitting_ttl")
       \/ ProvenAbsent(o) /\ ResolveAsUnsubmitted(o, "unknown_ttl")
    /\ todo' = todo \ {o}
    /\ UNCHANGED <<ledger, fills, dailyUsed, outside, pc, op, cur, pay, raised, crashes>>

(* resolve_as_unsubmitted refuses an order with fills on record. *)
RecoverRaises(o) ==
    /\ pc = "recover" /\ o \in todo /\ row[o].expired
    /\ ProvenAbsent(o) /\ ~MayResolveAsUnsubmitted(o)
    /\ Raise
    /\ UNCHANGED <<durable, outside, crashes>>

RecoverSkips(o) ==
    /\ pc = "recover" /\ o \in todo /\ PreSubmit(o) /\ ~row[o].expired
    /\ todo' = todo \ {o}
    /\ UNCHANGED <<durable, outside, pc, op, cur, pay, raised, crashes>>

RecoverReconciles(o) ==
    /\ pc = "recover" /\ o \in todo /\ ~PreSubmit(o)
    /\ ~(row[o].expired /\ ProvenAbsent(o))
    /\ todo' = todo \ {o} /\ cur' = o /\ pc' = "fetch"
    /\ UNCHANGED <<durable, outside, op, pay, raised, crashes>>

RecoverDone ==
    /\ pc = "recover" /\ todo = {}
    /\ GoIdle
    /\ UNCHANGED <<durable, outside, raised, crashes>>

-----------------------------------------------------------------------------
(* Crashes, the clock, the operator and the venue.                          *)

(* At "reject" the row may be there without the rejection: it then is an    *)
(* intent like any other.                                                   *)
Crash ==
    /\ pc # "down" /\ crashes.all < MaxCrashes
    /\ crashes' = [all  |-> crashes.all + 1,
                   torn |-> IF pc = "reject" THEN crashes.torn + 1 ELSE crashes.torn]
    /\ pc' = "down" /\ op' = "none" /\ cur' = NoOrder /\ pay' = NoPayload
    /\ todo' = {} /\ raised' = FALSE
    /\ UNCHANGED <<durable, outside>>

(* LiveTradingEngine.initialize: the first thing it does is recover. *)
Restart ==
    /\ pc = "down"
    /\ pc' = "recover" /\ op' = "recover" /\ todo' = list_non_terminal
    /\ UNCHANGED <<durable, outside, cur, pay, raised, crashes>>

(* submitting_ttl passes since the row was last written.  A request does    *)
(* not stay under way that long.                                            *)
TtlElapses(o) ==
    /\ o \in list_non_terminal /\ ~row[o].expired
    /\ o \notin inFlight /\ pc \in {"idle", "down"}
    /\ row' = [row EXCEPT ![o] = [@ EXCEPT !.expired = TRUE]]
    /\ UNCHANGED <<ledger, fills, resolution, dailyUsed, outside, process, crashes>>

(* resolve_live_order, run with the trading process stopped. *)
OperatorResolves(o) ==
    /\ pc = "down" /\ o \in ledger
    /\ (VenueKnows(o) \/ o \in inFlight) => "operator_error" \in Faults
    /\ ResolveAsUnsubmitted(o, "operator")
    /\ UNCHANGED <<ledger, fills, dailyUsed, outside, process, crashes>>

RequestArrives(o) ==
    /\ o \in inFlight
    /\ inFlight' = inFlight \ {o}
    /\ venue' = [venue EXCEPT ![o].status = "open"]
    /\ UNCHANGED <<durable, sent, process, crashes>>

RequestLost(o) ==
    /\ o \in inFlight
    /\ inFlight' = inFlight \ {o}
    /\ UNCHANGED <<durable, venue, sent, process, crashes>>

VenueFills(o) ==
    /\ venue[o].filled < Qty
    /\ \/ venue[o].status = "open"
       \/ venue[o].status = "canceled" /\ "late_fill" \in Faults
    /\ venue' = [venue EXCEPT ![o] =
                   [status |-> IF @.status = "open" /\ @.filled + 1 = Qty
                                 THEN "closed" ELSE @.status,
                    filled |-> @.filled + 1]]
    /\ UNCHANGED <<durable, inFlight, sent, process, crashes>>

VenueEnds(o) ==
    /\ venue[o].status = "open"
    /\ \E s \in {"expired"} \cup IF "late_reject" \in Faults THEN {"rejected"} ELSE {} :
         venue' = [venue EXCEPT ![o].status = s]
    /\ UNCHANGED <<durable, inFlight, sent, process, crashes>>

-----------------------------------------------------------------------------
(* What the trading loop may start when no call is in progress. *)
Begin ==
    \/ \E o \in Orders : Reserve(o) \/ Block(o) \/ Resume(o) \/ Replay(o)
                         \/ Cancel(o) \/ CancelUnknown(o)
    \/ StartRecovery

(* The call in progress takes its next step. *)
Continue ==
    \/ \E o \in Orders : RecoverExpires(o) \/ RecoverRaises(o) \/ RecoverSkips(o)
                         \/ RecoverReconciles(o)
    \/ PrepareFails \/ RejectLocally \/ CreateIntent \/ CheckBlocks
    \/ mark_submission_attempted \/ Send
    \/ CreateOrderResponse \/ CreateOrderAmbiguous \/ CreateOrderRefused
    \/ FetchFails \/ FetchInconclusive \/ FetchProvesAbsence \/ FetchFinds
    \/ StoreMismatch \/ StoreTrade \/ StoreSynthetic \/ StoreIgnoresOlder \/ StoreRow
    \/ CancelResolved \/ CancelAnswered \/ CancelFails
    \/ RecoverDone \/ Restart

Environment ==
    \/ Crash
    \/ \E o \in Orders : TtlElapses(o) \/ OperatorResolves(o) \/ RequestArrives(o)
                         \/ RequestLost(o) \/ VenueFills(o) \/ VenueEnds(o)

Next == Begin \/ Continue \/ Environment

Spec == Init /\ [][Next]_vars

(* The venue answers a lookup of o with the present fact. *)
LookupAnswered(o) ==
    /\ pc = "fetch" /\ cur = o
    /\ \E d \in Details :
         Answered([raw |-> venue[o].status, filled |-> venue[o].filled,
                   detail |-> d, identity |-> TRUE])

(* The engine's loop runs recovery again and again, a call in progress      *)
(* goes on, time passes, and lookups are not answered badly for ever.       *)
Fairness ==
    /\ WF_vars(Continue)
    /\ SF_vars(StartRecovery)
    /\ \A o \in Orders : SF_vars(TtlElapses(o)) /\ SF_vars(LookupAnswered(o))

FairSpec == Spec /\ Fairness
-----------------------------------------------------------------------------
(* Properties.                                                              *)

(* create_order is called at most once for a client order id, whatever      *)
(* crashes, replays, lost answers and recoveries happen in between          *)
(* (submit_intent marks the attempt durably before it calls the venue).     *)
AtMostOneSubmission == \A o \in Orders : sent[o] <= 1

(* An order written off by the pre-submit TTL never reached the network:    *)
(* the mark, the crash and the TTL cannot be ordered so that a sent order   *)
(* is declared unsubmitted.                                                 *)
TtlExpiredNeverSent ==
    \A o \in Orders : resolution[o] = "submitting_ttl" => sent[o] = 0

(* Every order that went out had its share of the daily budget taken first, *)
(* across crashes and resumed intents, but for the crashes between the two  *)
(* writes of a local rejection: each lets at most one order past the budget *)
(* (SafeLiveBroker.submit_intent, record_local_rejection,                   *)
(* PersistentOrderSafetyGuard.assert_order_allowed).                        *)
SubmittedOrders == Cardinality({o \in Orders : sent[o] > 0})
EverySubmissionReserved == SubmittedOrders <= dailyUsed + crashes.torn

(* What the documentation says of every live order: it passed the guard.    *)
WithinBudget == SubmittedOrders <= dailyUsed

(* Of the opening orders of a symbol at most one is working at the venue or *)
(* on its way there (has_other_active_open_order, checked against a ledger  *)
(* that trails the venue).                                                  *)
OneWorkingOpening ==
    \A o, p \in {q \in Orders : q \in inFlight \/ venue[q].status = "open"} :
        SymbolOf[o] = SymbolOf[p] => o = p

(* What the ledger says is executed is true and on record: the row shows no *)
(* more than the fill records say, and neither row nor trades show more     *)
(* than the venue executed, at every crash point between the fills, which   *)
(* are committed first, and the row (_persist_fills, then                   *)
(* _persist_exchange_payload).                                              *)
FillsBackRow ==
    \A o \in Orders : row[o].filled <= fills[o].real + fills[o].synthetic
LedgerTrailsVenue ==
    \A o \in Orders : row[o].filled <= venue[o].filled /\ fills[o].real <= venue[o].filled
LedgerSound == FillsBackRow /\ LedgerTrailsVenue

(* The ledger and the calls made keep the promise stated in OrderPromise:   *)
(* its phases are read off the orders table.                                *)
PhaseOf(o) ==
    IF o \notin ledger THEN "absent"
    ELSE IF ~row[o].attempted
      THEN IF row[o].status = "submitting" THEN "intent" ELSE "withdrawn"
    ELSE IF row[o].status \in TERMINAL_STATUSES THEN "settled" ELSE "attempted"

Promise == INSTANCE OrderPromise WITH
    phase <- [o \in Orders |-> PhaseOf(o)],
    asked <- sent,
    executed <- [o \in Orders |-> row[o].filled]

(* Every step of the order path, on any interleaving of calls, crashes and  *)
(* venue answers, is a step the promise allows.                             *)
KeepsPromise == Promise!Spec

(* An observed fill is never taken back, even by an older snapshot that     *)
(* arrives later (_persist_exchange_payload).                               *)
FilledNeverShrinks == [][\A o \in Orders : row'[o].filled >= row[o].filled]_vars

VenueEnded(o) == venue[o].status \in {"closed", "canceled", "expired", "rejected"}

(* An order that was proven absent and has fills on record all the same:    *)
(* resolve_as_unsubmitted refuses it, and recovery raises at it.            *)
AbsentWithFills(o) == ProvenAbsent(o) /\ ~MayResolveAsUnsubmitted(o)

(* Once an order has ended at the venue, recovery settles its row, and an   *)
(* intent that a crash left unsent does not occupy its symbol for ever      *)
(* (recover_open_orders), with the exception just named.                    *)
EventuallySettled ==
    \A o \in Orders :
        /\ VenueEnded(o) ~> (row[o].status \in TERMINAL_STATUSES \/ AbsentWithFills(o))
        /\ (o \in ledger /\ PreSubmit(o)) ~> ~PreSubmit(o)
=============================================================================
