---------------------------- MODULE RiskActions ----------------------------
(***************************************************************************)
(* Portfolio risk actions (live_trading/risk_actions.py) and the exits     *)
(* they submit (_submit_risk_exit): an action is written down before       *)
(* anything is cancelled, its targets are frozen once the opening orders   *)
(* are final, and it is taken up again after a crash between any two       *)
(* writes.  A reduction keeps half of what it froze and then is over; a    *)
(* liquidation is repeated as long as the breaker asks for it.             *)
(*                                                                         *)
(* Quantities are whole units of long positions.  Actions recorded by the  *)
(* version before checkpoints (_legacy_portfolio_risk_action) are left out.*)
(***************************************************************************)
EXTENDS Integers, FiniteSets, FiniteSetsExt

CONSTANTS
    Symbols,
    Actions,       \* the ids plans of the breaker may have
    Liquidations,  \* those with remaining_fraction 0
    DailyHalts,    \* liquidations for the loss of a day, the others for a drawdown
    EntrySizes,    \* quantities of the opening orders of a symbol, in order
    MaxExits,      \* bound: orders of an action in a symbol
    MaxStops,      \* bound: protective stops of a symbol
    MaxFaults,     \* bound: crashes, requests or answers lost, refused or
                   \* without effect, syncs that fail, orders the venue
                   \* ends on its own
    NoAction

ASSUME RiskActionsAssumption ==
    /\ DailyHalts \subseteq Liquidations /\ Liquidations \subseteq Actions
    /\ Actions \cap {"entry", "stop", NoAction} = {}
    /\ MaxExits \in Nat /\ MaxStops \in Nat /\ MaxFaults \in Nat
    /\ IsFiniteSet(Actions) /\ IsFiniteSet(DOMAIN EntrySizes) /\ DOMAIN EntrySizes \subseteq Nat
    /\ \A n \in DOMAIN EntrySizes : EntrySizes[n] \in Nat \ {0}

VARIABLES
    venue,       \* "none", "working" or "ended": the order at the venue
    traded,      \* what it has filled there
    row,         \* the order's status: "none" without a row, "intent" before it is
                 \* marked as being sent, "unknown", "live", "final"
    recorded,    \* the fills on record, out of which the lots are made
    size,        \* orders.requested_qty
    held,        \* portfolio.positions, as of the last sync
    opened,      \* number of the symbol's position (its position_id)
    index,       \* state "portfolio_risk_action_active"
    checkpoint,  \* state "portfolio_risk_action:<id>"
    directive,   \* the action the breaker asks for now
    transition,  \* the one its drawdown asks for, under a daily halt too
    issued,      \* the ids it has ever used
    pc,          \* where the tick is
    todo,        \* the orders its cancellation loop has still to visit
    symbols,     \* the symbols it has still to reduce
    order,       \* the order it is sending
    tick,        \* plan, its symbol, done and performed
    faults

market == <<venue, traded>>
ledger == <<row, recorded, opened>>
control == <<pc, todo, symbols, order, tick>>
store == <<index, checkpoint>>
breaker == <<directive, transition, issued>>
vars == <<venue, traded, row, recorded, size, held, opened, index, checkpoint,
          directive, transition, issued, pc, todo, symbols, order, tick, faults>>

Orders ==
    {<<"entry", s, n>> : s \in Symbols, n \in DOMAIN EntrySizes}
    \cup {<<"stop", s, n>> : s \in Symbols, n \in 1 .. MaxStops}
    \cup {<<a, s, n>> : a \in Actions, s \in Symbols, n \in 1 .. MaxExits}
Kind(o) == o[1]
SymbolOf(o) == o[2]
Opening == {o \in Orders : Kind(o) = "entry"}
Exits == Orders \ Opening
OpeningIn == [s \in Symbols |-> {o \in Opening : SymbolOf(o) = s}]
ExitsIn == [s \in Symbols |-> {o \in Exits : SymbolOf(o) = s}]
OrdersIn(s) == OpeningIn[s] \cup ExitsIn[s]
NoOrder == <<"none", NoAction, 0>>

Statuses == {"none", "preparing", "active", "completed"}
NoPosition == [position |-> 0, original |-> 0, target |-> 0]
NoCheckpoint == [status |-> "none", positions |-> [s \in Symbols |-> NoPosition],
                 supersedes |-> NoAction]
NoIndex == [action |-> NoAction, copy |-> NoCheckpoint]
NoTick == [plan |-> NoAction, symbol |-> NoAction, done |-> TRUE, performed |-> FALSE]

Checkpoints ==
    [status : Statuses,
     positions : [Symbols -> [position : Nat, original : Nat, target : Nat]],
     supersedes : Actions \cup {NoAction}]

CancelLoops == {"cancel_openings", "cancel_remainder", "cancel_competing", "cancel_trim"}

TypeOK ==
    /\ venue \in [Orders -> {"none", "working", "ended"}]
    /\ row \in [Orders -> {"none", "intent", "live", "unknown", "final"}]
    /\ size \in [Orders -> Nat]
    /\ \A o \in Orders : traded[o] \in 0 .. size[o] /\ recorded[o] \in 0 .. traded[o]
    /\ held \in [Symbols -> Nat] /\ opened \in [Symbols -> Nat]
    /\ index \in [action : Actions \cup {NoAction}, copy : Checkpoints]
    /\ checkpoint \in [Actions -> Checkpoints]
    /\ {directive, transition} \subseteq issued \cup {NoAction} /\ issued \subseteq Actions
    /\ pc \in {"idle", "recover", "plan", "write_key", "begin", "freeze",
               "write_index", "supersede", "exits", "own_sync", "decide", "recheck",
               "send", "answer", "exit_sync", "clear", "after"} \cup CancelLoops
    /\ todo \subseteq Orders /\ symbols \subseteq Symbols
    /\ order \in Orders \cup {NoOrder}
    /\ tick \in [plan : Actions \cup {NoAction}, symbol : Symbols \cup {NoAction},
                 done : BOOLEAN, performed : BOOLEAN]
    /\ faults \in 0 .. MaxFaults

Init ==
    /\ venue = [o \in Orders |-> "none"] /\ traded = [o \in Orders |-> 0]
    /\ row = [o \in Orders |-> "none"] /\ recorded = [o \in Orders |-> 0]
    /\ size = [o \in Orders |-> 0]
    /\ held = [s \in Symbols |-> 0] /\ opened = [s \in Symbols |-> 0]
    /\ index = NoIndex /\ checkpoint = [a \in Actions |-> NoCheckpoint]
    /\ directive = NoAction /\ transition = NoAction /\ issued = {}
    /\ pc = "idle" /\ todo = {} /\ symbols = {} /\ order = NoOrder /\ tick = NoTick
    /\ faults = 0

Fault == faults < MaxFaults /\ faults' = faults + 1

-----------------------------------------------------------------------------
(* The venue, and the breaker.                                              *)

(* A quantity counted in units: the first so many of each of S.             *)
Units(quantity, S) == UNION {{o} \X (1 .. quantity[o]) : o \in S}

Bought(quantity, s) == Cardinality(Units(quantity, OpeningIn[s]))
SoldBy(quantity, s) == Cardinality(Units(quantity, ExitsIn[s]))
Net(quantity, s) == Bought(quantity, s) - SoldBy(quantity, s)
VenuePosition(s) == Net(traded, s)
(* What the lots of the symbol add up to. *)
Owned(s) == Net(recorded, s)

(* A unit trades; inventory is not sold twice. *)
VenueTrades(o) ==
    /\ venue[o] = "working"
    /\ o \in Opening \/ VenuePosition(SymbolOf(o)) > 0
    /\ traded' = [traded EXCEPT ![o] = @ + 1]
    /\ venue' = [venue EXCEPT ![o] = IF traded[o] + 1 = size[o] THEN "ended" ELSE @]
    /\ UNCHANGED <<ledger, size, held, store, breaker, control, faults>>

(* It ends an order on its own. *)
VenueEnds(o) ==
    /\ venue[o] = "working"
    /\ Fault
    /\ venue' = [venue EXCEPT ![o] = "ended"]
    /\ UNCHANGED <<traded, ledger, size, held, store, breaker, control>>

(* plan_risk_action: a transition of the breaker and a daily halt have ids  *)
(* of their own.  The halt goes before the transition, which is there again *)
(* when the day is over.                                                    *)
BreakerMoves ==
    /\ pc = "idle"
    /\ \/ /\ transition' \in ((Actions \ (issued \cup DailyHalts)) \cup {NoAction})
                            \ {transition}
          /\ directive' = IF directive \in DailyHalts THEN directive ELSE transition'
       \/ /\ directive' \in ((DailyHalts \ issued) \cup {transition}) \ {directive}
          /\ UNCHANGED transition
    /\ issued' = issued \cup ({directive', transition'} \ {NoAction})
    /\ UNCHANGED <<market, ledger, size, held, store, control, faults>>

-----------------------------------------------------------------------------
(* Reading orders and the account.                                          *)

Live(o) == row[o] \in {"intent", "live", "unknown"}
Intents == {o \in Orders : row[o] = "intent"}
Unknown == \E o \in Orders : row[o] = "unknown"

(* A fill from flat begins a position; entries are listed before exits.     *)
Opened(now) ==
    [s \in Symbols |->
        IF Owned(s) <= 0 /\ \E o \in OpeningIn[s] : now[o] > recorded[o]
          THEN opened[s] + 1 ELSE opened[s]]

(* reconcile_order of each of known; the reads of lost fail.  An order the  *)
(* venue does not have stays UNKNOWN; one that was not sent is not read.    *)
Read(known, lost) ==
    /\ row' = [o \in Orders |->
                 IF o \notin known \/ row[o] = "intent" THEN row[o]
                 ELSE IF o \in lost THEN "unknown"
                 ELSE CASE venue'[o] = "none" -> "unknown"
                        [] venue'[o] = "working" -> "live"
                        [] venue'[o] = "ended" -> "final"]
    /\ recorded' = [o \in Orders |-> IF o \in known \ lost THEN traded[o] ELSE recorded[o]]
    /\ opened' = Opened(recorded')

(* AccountSync.sync *)
Synced == held' = [s \in Symbols |-> VenuePosition(s)]

(* The sync a tick begins with; then a reconciliation run, if one is due or *)
(* an order is UNKNOWN.                                                     *)
StartTick(due) ==
    /\ pc = "idle"
    /\ \/ Synced /\ pc' = (IF due \/ Unknown THEN "recover" ELSE "plan") /\ UNCHANGED faults
       \/ Fault /\ UNCHANGED <<held, pc>>
    /\ UNCHANGED <<market, ledger, size, store, breaker, todo, symbols, order, tick>>

(* recover_open_orders: of the orders that were not sent, those whose time  *)
(* has passed expire, the others are read.  A fill is followed by a sync,   *)
(* whose result is not looked at.                                           *)
Recover(expired) ==
    /\ pc = "recover"
    /\ LET read == {o \in Orders : Live(o)} \ Intents IN
       \E lost \in {{}} \cup {{o} : o \in read} :
         /\ IF lost = {} THEN UNCHANGED faults ELSE Fault
         /\ row' = [o \in Orders |->
                      IF o \in expired THEN "final"
                      ELSE IF o \notin read THEN row[o]
                      ELSE IF o \in lost \/ venue[o] = "none" THEN "unknown"
                      ELSE IF venue[o] = "working" THEN "live" ELSE "final"]
         /\ recorded' = [o \in Orders |-> IF o \in read \ lost THEN traded[o] ELSE recorded[o]]
         /\ opened' = Opened(recorded')
         /\ \/ UNCHANGED held
            \/ \E o \in read \ lost : traded[o] > 0 /\ Synced
    /\ pc' = "plan"
    /\ UNCHANGED <<market, size, store, breaker, todo, symbols, order, tick>>

(* confirm_order_not_submitted: between two runs of the engine an operator  *)
(* ends an order whose outcome is UNKNOWN and that the venue does not have. *)
Confirm(o) ==
    /\ pc = "idle"
    /\ row[o] = "unknown" /\ venue[o] = "none"
    /\ row' = [row EXCEPT ![o] = "final"]
    /\ UNCHANGED <<market, recorded, opened, size, held, store, breaker, control, faults>>

-----------------------------------------------------------------------------
(* The end of a tick: an action that is pending or was performed keeps new  *)
(* entries back; protective stops are seen to in any case.                  *)

EndRisk(pending, performed) ==
    /\ pc' = "after"
    /\ tick' = [NoTick EXCEPT !.performed = pending \/ performed]
    /\ todo' = {} /\ symbols' = {} /\ order' = NoOrder

MayOpen == ~tick.performed /\ directive \notin Liquidations /\ ~Unknown

Unused(k, s) == {o \in OrdersIn(s) : Kind(o) = k /\ row[o] = "none"}
(* One order, as long as there is one. *)
NextOrder(k, s) == {o \in Unused(k, s) : \A p \in Unused(k, s) : o[3] <= p[3]}

(* The process is started again without positions and tick. *)
Restart ==
    /\ held' = [s \in Symbols |-> 0]
    /\ pc' = "idle" /\ todo' = {} /\ symbols' = {} /\ order' = NoOrder /\ tick' = NoTick

(* create_order, by which the order works at the venue or the outcome is    *)
(* not known, or before which the process dies.                             *)
Place(o, qty) ==
    /\ size' = [size EXCEPT ![o] = qty]
    /\ \/ /\ venue' = [venue EXCEPT ![o] = "working"]
          /\ row' = [row EXCEPT ![o] = "live"] /\ UNCHANGED <<held, control, faults>>
       \/ /\ Fault /\ row' = [row EXCEPT ![o] = "unknown"]
          /\ venue' \in {venue, [venue EXCEPT ![o] = "working"]}
          /\ UNCHANGED <<held, control>> \/ Restart
       \/ /\ Fault /\ row' = [row EXCEPT ![o] = "intent"]
          /\ UNCHANGED venue /\ Restart
    /\ UNCHANGED <<traded, recorded, opened, store, breaker>>

(* An allocation opens, or sends what it left unsent; one opening order     *)
(* works at a time in a symbol.                                             *)
Enter(o) ==
    /\ pc = "after" /\ MayOpen
    /\ o \in Opening /\ row[o] \in {"none", "intent"}
    /\ \A p \in OpeningIn[SymbolOf(o)] : p[3] < o[3] => row[p] = "final"
    /\ Place(o, EntrySizes[o[3]])

(* What unresolved exits of the symbol may still sell. *)
OutstandingExits(s) ==
    LET live == {o \in ExitsIn[s] : Live(o)} IN
    Cardinality(Units(size, live) \ Units(recorded, live))
Reducible(s) == IF held[s] > OutstandingExits(s) THEN held[s] - OutstandingExits(s) ELSE 0

(* A stop for what no exit covers yet, once lots and position agree. *)
Protect(s) ==
    /\ pc = "after"
    /\ held[s] = Owned(s) /\ Reducible(s) > 0
    /\ ~\E o \in OrdersIn(s) : Kind(o) = "stop" /\ Live(o)
    /\ \E o \in NextOrder("stop", s) : Place(o, Reducible(s))

EndTick ==
    /\ pc = "after"
    /\ pc' = "idle" /\ tick' = NoTick
    /\ UNCHANGED <<market, ledger, size, held, store, breaker, todo, symbols, order, faults>>

-----------------------------------------------------------------------------
(* _reconcile_portfolio_risk_action                                         *)

Carried_Dropped == FALSE
(* The index names an action whose own checkpoint was not written yet. *)
Carried == index.action # NoAction /\ checkpoint[index.action].status = "none"

(* It is restored from the copy the index carries. *)
RestoreCarried ==
    /\ pc = "plan" /\ Carried
    /\ checkpoint' = [checkpoint EXCEPT ![index.action] = index.copy]
    /\ UNCHANGED <<market, ledger, size, held, index, breaker, control, faults>>

Active == index.action # NoAction /\ checkpoint[index.action].status \in {"preparing", "active"}

(* An unfinished action goes on; only a liquidation takes its place.        *)
Supersedes ==
    IF Active /\ directive \in Liquidations /\ directive # index.action
      THEN index.action ELSE NoAction
Plan == IF Active /\ Supersedes = NoAction THEN index.action ELSE directive

(* No action, or one that is begun already. *)
TakeUp ==
    /\ pc = "plan" /\ ~Carried
    /\ IF Plan = NoAction THEN EndRisk(FALSE, FALSE)
       ELSE /\ checkpoint[Plan].status # "none"
            /\ pc' = "begin" /\ tick' = [tick EXCEPT !.plan = Plan]
            /\ UNCHANGED <<todo, symbols, order>>
    /\ UNCHANGED <<market, ledger, size, held, store, breaker, faults>>

New_ForgetsTheOther == [NoCheckpoint EXCEPT !.status = "preparing"]
New == [NoCheckpoint EXCEPT !.status = "preparing", !.supersedes = Supersedes]

(* A new action: the index first, then its own key. *)
BeginAction ==
    /\ pc = "plan" /\ ~Carried
    /\ Plan # NoAction /\ checkpoint[Plan].status = "none"
    /\ index' = [action |-> Plan, copy |-> New]
    /\ pc' = "write_key" /\ tick' = [tick EXCEPT !.plan = Plan]
    /\ UNCHANGED <<market, ledger, size, held, checkpoint, breaker,
                   todo, symbols, order, faults>>

WriteKey ==
    /\ pc = "write_key"
    /\ checkpoint' = [checkpoint EXCEPT ![tick.plan] = index.copy]
    /\ pc' = "begin"
    /\ UNCHANGED <<market, ledger, size, held, index, breaker,
                   todo, symbols, order, tick, faults>>

Reduction(a) == a \notin Liquidations

(* The key is read, not the copy, which may lag behind it. *)
At(a) == checkpoint[a]

Frozen_PlannedAgain(a) == At(a).status = "none"
(* The reduction has its targets. *)
Frozen(a) == Reduction(a) /\ At(a).status = "active"

(* The orders a preparation cancels: openings, and what is left of the      *)
(* action it supersedes.                                                    *)
ToCancel(a) == {o \in Orders : Live(o) /\ (o \in Opening \/ Kind(o) = At(a).supersedes)}
Covered(a) == {s \in Symbols : At(a).positions[s] # NoPosition}

(* A completed reduction is over; one with targets goes on to its exits;    *)
(* anything else is prepared.                                               *)
Begin ==
    LET a == tick.plan IN
    /\ pc = "begin"
    /\ \/ Reduction(a) /\ At(a).status = "completed" /\ EndRisk(FALSE, FALSE)
       \/ /\ Frozen(a)
          /\ pc' = "exits" /\ symbols' = Covered(a) /\ UNCHANGED <<todo, order, tick>>
       \/ /\ ~Frozen(a) /\ ~(Reduction(a) /\ At(a).status = "completed")
          /\ pc' = "cancel_openings" /\ todo' = ToCancel(a)
          /\ tick' = [tick EXCEPT !.performed = ToCancel(a) # {}]
          /\ UNCHANGED <<symbols, order>>
    /\ UNCHANGED <<market, ledger, size, held, store, breaker, faults>>

(* A change of the position counts as performed. *)
Moved == [tick EXCEPT !.performed = @ \/ held' # held]

(* The exits of a symbol end in accepted or not; the loop goes on.          *)
SymbolDone(accepted) ==
    /\ pc' = "exits"
    /\ tick' = [Moved EXCEPT !.symbol = NoAction, !.done = @ /\ accepted]
    /\ todo' = {} /\ order' = NoOrder
    /\ UNCHANGED symbols

(* A cancellation or the sync after it failed. *)
GiveUp ==
    IF pc = "cancel_openings" THEN EndRisk(TRUE, tick.performed) ELSE SymbolDone(FALSE)

Goto(there) == pc' = there /\ UNCHANGED <<todo, symbols, order, tick>>

Settled_AnyAnswer(o) == row'[o] # "none"
Settled(o) == row'[o] = "final"

(* _cancel_risk_orders: the order at hand is cancelled at the venue, or the *)
(* cancellation is refused, and the order is read; what is not final after  *)
(* that ends the loop.                                                      *)
CancelOne(o) ==
    /\ pc \in CancelLoops /\ o \in todo \ Intents
    /\ UNCHANGED <<traded, size, held, store, breaker>>
    /\ venue' \in {venue, [venue EXCEPT ![o] = IF @ = "working" THEN "ended" ELSE @]}
    /\ \/ Read({o}, {}) /\ IF venue'[o] = "working" THEN Fault ELSE UNCHANGED faults
       \/ Read({o}, {o}) /\ Fault
    /\ IF Settled(o)
         THEN todo' = todo \ {o} /\ UNCHANGED <<pc, symbols, order, tick>>
         ELSE GiveUp

(* cancel_order raises for an order that was not sent, which ends the tick. *)
CancelRaises(o) ==
    /\ pc \in CancelLoops /\ o \in todo \cap Intents
    /\ pc' = "idle" /\ todo' = {} /\ symbols' = {} /\ order' = NoOrder /\ tick' = NoTick
    /\ UNCHANGED <<market, ledger, size, held, store, breaker, faults>>

Target == At(tick.plan).positions[tick.symbol].target

(* owns_position: "unclear" when lots and position disagree.  A liquidation *)
(* does not ask.                                                            *)
Ownership(position) ==
    IF ~Reduction(tick.plan) THEN "own"
    ELSE IF position # Owned(tick.symbol) THEN "unclear"
    ELSE IF position > 0 /\ opened[tick.symbol] = At(tick.plan).positions[tick.symbol].position
      THEN "own" ELSE "other"

(* The sync at the end of the loop, and what the loop was for. *)
Cancelled ==
    /\ pc \in CancelLoops /\ todo = {}
    /\ \/ Fault /\ UNCHANGED held /\ GiveUp
       \/ /\ Synced /\ UNCHANGED faults
          /\ CASE pc = "cancel_openings" -> Goto("freeze")
               [] pc = "cancel_competing" ->
                    /\ pc' = "recheck" /\ tick' = Moved
                    /\ UNCHANGED <<todo, symbols, order>>
               [] pc = "cancel_trim" -> SymbolDone(TRUE)
               [] pc = "cancel_remainder" ->
                    LET position == held'[tick.symbol] IN
                    SymbolDone(\/ Ownership(position) = "other"
                               \/ Ownership(position) = "own" /\ position <= Target)
    /\ UNCHANGED <<market, ledger, size, store, breaker>>

Kept(a, qty) == IF Reduction(a) THEN qty \div 2 ELSE 0

(* The positions held now; a liquidation also keeps those it had before.    *)
Targets(a) ==
    [s \in Symbols |->
        IF held[s] > 0
          THEN [position |-> opened[s], original |-> held[s], target |-> Kept(a, held[s])]
        ELSE IF Reduction(a) THEN NoPosition ELSE At(a).positions[s]]

(* The targets are written to the action's key, unless the lots of what is  *)
(* held do not add up to it.                                                *)
Freeze ==
    /\ pc = "freeze"
    /\ IF \E s \in Symbols : held[s] > 0 /\ held[s] # Owned(s)
         THEN EndRisk(TRUE, tick.performed) /\ UNCHANGED checkpoint
         ELSE /\ checkpoint' = [checkpoint EXCEPT ![tick.plan] =
                   [@ EXCEPT !.status = "active", !.positions = Targets(tick.plan)]]
              /\ Goto("write_index")
    /\ UNCHANGED <<market, ledger, size, held, index, breaker, faults>>

WriteIndex ==
    /\ pc = "write_index"
    /\ index' = [action |-> tick.plan, copy |-> At(tick.plan)]
    /\ Goto("supersede")
    /\ UNCHANGED <<market, ledger, size, held, checkpoint, breaker, faults>>

(* The superseded action is closed; the exits begin. *)
Supersede ==
    /\ pc = "supersede"
    /\ checkpoint' = [a \in Actions |->
         IF a = At(tick.plan).supersedes /\ checkpoint[a].status # "none"
           THEN [checkpoint[a] EXCEPT !.status = "completed"] ELSE checkpoint[a]]
    /\ pc' = "exits" /\ symbols' = Covered(tick.plan)
    /\ UNCHANGED <<market, ledger, size, held, index, breaker,
                   todo, order, tick, faults>>

(* All exits were gone through: the action is complete, or pending.         *)
Complete ==
    /\ pc = "exits" /\ symbols = {}
    /\ IF tick.done
         THEN checkpoint' = [checkpoint EXCEPT ![tick.plan].status = "completed"] /\ Goto("clear")
         ELSE EndRisk(TRUE, tick.performed) /\ UNCHANGED checkpoint
    /\ UNCHANGED <<market, ledger, size, held, index, breaker, faults>>

ClearIndex ==
    /\ pc = "clear"
    /\ index' = IF index.action = tick.plan THEN NoIndex ELSE index
    /\ EndRisk(FALSE, tick.performed)
    /\ UNCHANGED <<market, ledger, size, held, checkpoint, breaker, faults>>

-----------------------------------------------------------------------------
(* _submit_risk_exit                                                        *)

Own(s) == {o \in OrdersIn(s) : Kind(o) = tick.plan /\ Live(o)}

(* The action's orders in the symbol are read first. *)
ExitStart(s) ==
    /\ pc = "exits" /\ s \in symbols
    /\ symbols' = symbols \ {s}
    /\ tick' = [tick EXCEPT !.symbol = s,
                            !.performed = @ \/ \E o \in Orders : Kind(o) = tick.plan /\ Live(o)]
    /\ UNCHANGED venue
    /\ \/ Read(Own(s), {}) /\ UNCHANGED faults
       \/ \E o \in Own(s) : Read(Own(s), {o}) /\ Fault
    /\ pc' = "own_sync"
    /\ UNCHANGED <<traded, size, held, store, breaker, todo, order>>

OwnSync ==
    /\ pc = "own_sync"
    /\ \/ Synced /\ UNCHANGED faults /\ pc' = "decide"
          /\ tick' = Moved /\ UNCHANGED <<todo, symbols, order>>
       \/ Fault /\ UNCHANGED held /\ SymbolDone(FALSE)
    /\ UNCHANGED <<market, ledger, size, store, breaker>>

CancelLoop(loop, orders) ==
    /\ pc' = loop /\ todo' = orders
    /\ UNCHANGED <<symbols, order, tick>>

(* The target is reached, or the position is another one: only what is left *)
(* of its own orders goes.  An own order still at work is waited for.       *)
(* Otherwise every order of the symbol makes way.                           *)
Decide ==
    /\ pc = "decide"
    /\ UNCHANGED <<market, ledger, size, held, store, breaker, faults>>
    /\ LET s == tick.symbol  ownership == Ownership(held[s])
           reached == ownership = "other" \/ held[s] <= Target IN
       CASE ownership = "unclear" -> SymbolDone(FALSE)
         [] ownership # "unclear" /\ reached -> CancelLoop("cancel_remainder", Own(s))
         [] ownership # "unclear" /\ ~reached /\ Own(s) # {} -> SymbolDone(FALSE)
         [] OTHER -> CancelLoop("cancel_competing", {o \in OrdersIn(s) : Live(o)})

ExitQty == held[tick.symbol] - Target

(* Cancelling may have sold the position; what is above the target is sold, *)
(* as far as no other exit may still sell it.                               *)
SubmitExit ==
    /\ pc = "recheck"
    /\ UNCHANGED <<market, recorded, opened, held, store, breaker, faults>>
    /\ LET s == tick.symbol
           qty == Min({ExitQty, Reducible(s)})
           free == NextOrder(tick.plan, s) IN
       CASE Ownership(held[s]) = "unclear" -> SymbolDone(FALSE) /\ UNCHANGED <<row, size>>
         [] Ownership(held[s]) = "other" \/ (Ownership(held[s]) = "own" /\ ExitQty <= 0) ->
              SymbolDone(TRUE) /\ UNCHANGED <<row, size>>
         [] OTHER ->
              IF qty = 0 \/ free = {} THEN SymbolDone(FALSE) /\ UNCHANGED <<row, size>>
              ELSE /\ order' \in free
                   /\ row' = [row EXCEPT ![order'] = "unknown"]
                   /\ size' = [size EXCEPT ![order'] = qty]
                   /\ pc' = "send"
                   /\ tick' = [tick EXCEPT !.performed = TRUE]
                   /\ UNCHANGED <<todo, symbols>>

(* create_order arrives, is refused, or is lost on the way. *)
Send ==
    /\ pc = "send"
    /\ UNCHANGED <<traded, recorded, opened, size, held, store, breaker>>
    /\ \/ venue' = [venue EXCEPT ![order] = "working"] /\ Goto("answer")
          /\ UNCHANGED <<row, faults>>
       \/ Fault /\ SymbolDone(FALSE)
          /\ UNCHANGED venue /\ row' \in {row, [row EXCEPT ![order] = "final"]}

(* So may be its answer. *)
Answer ==
    /\ pc = "answer"
    /\ UNCHANGED <<traded, size, held, store, breaker>>
    /\ UNCHANGED venue
    /\ \/ Read({order}, {}) /\ UNCHANGED faults /\ Goto("exit_sync")
       \/ Fault /\ SymbolDone(FALSE) /\ UNCHANGED ledger

ExitSync ==
    /\ pc = "exit_sync"
    /\ \/ /\ Synced /\ UNCHANGED faults
          /\ IF held'[tick.symbol] > Target THEN SymbolDone(FALSE)
             ELSE CancelLoop("cancel_trim", Own(tick.symbol))
       \/ Fault /\ UNCHANGED held /\ SymbolDone(FALSE)
    /\ UNCHANGED <<market, ledger, size, store, breaker>>

-----------------------------------------------------------------------------
(* The process dies: the state, the orders and their fills are on disk.  An *)
(* order about to be sent is marked already, or it is not.                  *)
Crash ==
    /\ Fault
    /\ row' \in {row} \cup (IF pc = "send" THEN {[row EXCEPT ![order] = "intent"]} ELSE {})
    /\ Restart
    /\ UNCHANGED <<market, recorded, opened, size, store, breaker>>

Step ==
    \/ (\E expired \in SUBSET Intents : Recover(expired))
    \/ RestoreCarried \/ TakeUp \/ BeginAction \/ WriteKey \/ Begin
    \/ (\E o \in Orders : CancelOne(o) \/ CancelRaises(o)) \/ Cancelled
    \/ Freeze \/ WriteIndex \/ Supersede \/ Complete \/ ClearIndex
    \/ (\E s \in Symbols : ExitStart(s)) \/ OwnSync \/ Decide \/ SubmitExit
    \/ Send \/ Answer \/ ExitSync \/ EndTick

Next ==
    \/ \E o \in Orders : VenueTrades(o) \/ VenueEnds(o) \/ Enter(o) \/ Confirm(o)
    \/ \E s \in Symbols : Protect(s)
    \/ BreakerMoves \/ (\E due \in BOOLEAN : StartTick(due)) \/ Step \/ Crash

Spec == Init /\ [][Next]_vars

(* A tick ends and the next one begins, a reconciliation is due again and   *)
(* again, the time of an order that was not sent passes, and a market order *)
(* at the venue is filled as long as there is something to sell.  Nothing   *)
(* makes an operator look.                                                  *)
Fairness ==
    /\ WF_vars(Step) /\ WF_vars(\E due \in BOOLEAN : StartTick(due))
    /\ SF_vars(StartTick(TRUE)) /\ SF_vars(Recover(Intents))
    /\ \A o \in Orders : Kind(o) \in Actions => WF_vars(VenueTrades(o))

FairSpec == Spec /\ Fairness

-----------------------------------------------------------------------------
(* Properties.                                                              *)

(* The target of a reduction is worked out once: whatever is cancelled,     *)
(* crashes or is restored between the writes of its checkpoint, what it     *)
(* froze is what it reduces (the module's own promise).                     *)
FrozenOnce ==
    [][\A a \in Actions \ Liquidations :
         checkpoint[a].status \in {"active", "completed"}
            => checkpoint'[a].positions = checkpoint[a].positions]_vars

(* The action is in the index, or the one in the index takes its place.     *)
UnderWay(a) ==
    \/ index.action = a
    \/ Carried /\ index.copy.supersedes = a
    \/ Active /\ checkpoint[index.action].supersedes = a

(* While an action has targets and is not through with them, nothing can    *)
(* still buy: its openings were final before it froze, and no tick opens    *)
(* before it is over.                                                       *)
NothingOpensWhileFrozen ==
    \A a \in Actions : checkpoint[a].status = "active" /\ UnderWay(a) =>
        \A o \in Opening : venue[o] # "working" /\ recorded[o] = traded[o]

(* A reduction that has targets is not left behind.  (One is, when a        *)
(* liquidation under preparation that supersedes it is superseded itself,   *)
(* for which it takes a second one.)                                        *)
NoneOrphaned ==
    \A a \in Actions \ Liquidations : checkpoint[a].status = "active" => UnderWay(a)

OrdersOf(a, s) == {o \in OrdersIn(s) : Kind(o) = a}
Sold(a, s) == Cardinality(Units(traded, OrdersOf(a, s)))

(* A reduction sells no more than what it froze is above its target,        *)
(* though it submits again after every crash and every lost answer.         *)
ReductionBounded ==
    \A a \in Actions \ Liquidations, s \in Symbols :
        Sold(a, s) <= checkpoint[a].positions[s].original - checkpoint[a].positions[s].target

Unfinished(a) == checkpoint[a].status \in {"preparing", "active"}

(* Marked as being sent and lost: reconciliation leaves it UNKNOWN.         *)
AwaitsOperator == \E o \in Orders : row[o] = "unknown" /\ venue[o] = "none"

(* A started reduction, and whatever is being prepared, is not orphaned:    *)
(* again and again there is none, though the breaker may have stopped       *)
(* asking for it, and wherever a crash cut it off, since a new action is in *)
(* the index before it has a key (reconcile_portfolio_risk); unless an order*)
(* that was lost on the way waits for an operator for ever.  (A liquidation *)
(* that is repeated has targets in its key before it is in the index again.)*)
ReductionsFinish ==
    \/ <>[]AwaitsOperator
    \/ []<>~(Carried \/ \E a \in Actions :
                Unfinished(a) /\ (Reduction(a) \/ At(a).status = "preparing"))
=============================================================================
