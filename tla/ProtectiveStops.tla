-------------------------- MODULE ProtectiveStops --------------------------
(***************************************************************************)
(* The stop that rests at the venue for a position: what                   *)
(* ProtectiveOrderManager.evaluate makes of position, wanted level and     *)
(* known stops, and how the live tick carries it out, with orders that are *)
(* lost, refused or answered late and with crashes in between.             *)
(*                                                                         *)
(* One symbol, held long.  A level is a small number, 0 for none; higher   *)
(* is tighter.  An entry is filled and on record at once: the life of      *)
(* opening orders is the subject of LiveOrders and FillFlow.  The market   *)
(* exit of _submit_risk_exit, with target 0, is told here as far as it     *)
(* touches stops; RiskActions has it in full.                              *)
(***************************************************************************)
EXTENDS Integers, Sequences, FiniteSets, FiniteSetsExt

CONSTANTS
    Entries,      \* units each entry buys, in order
    Levels,       \* levels a stop may have
    MaxStops,     \* bound: stop orders
    MaxExits,     \* bound: market exits
    MaxFaults     \* bound: crashes, requests or answers lost, cancellations
                  \* without effect, syncs that fail, orders the venue refuses

ASSUME ProtectiveStopsAssumption ==
    /\ Entries \in Seq(Nat \ {0})
    /\ Levels \subseteq Nat \ {0} /\ IsFiniteSet(Levels) /\ Levels # {}
    /\ MaxStops \in Nat /\ MaxExits \in Nat /\ MaxFaults \in Nat

Stops == {"stop"} \X (1 .. MaxStops)
Exits == {"exit"} \X (1 .. MaxExits)
Orders == Stops \cup Exits
NoOrder == <<"none", 0>>

VARIABLES
    entered,     \* entries filled
    venue,       \* "none", "working" or "ended": the order at the venue
    traded,      \* what it has sold there
    row,         \* status of its row: "intent" before it is marked as being sent,
                 \* "canceled" for every end at the venue, "rejected" for the others
    recorded,    \* its fills on record
    order,       \* quantity, level and position of the order
    external,    \* the orders of the external-position action that is pending
    held,        \* portfolio.positions, as of the last sync
    opened,      \* number of the position the lots belong to (position_id)
    late,        \* sales older than an entry on record are still to be read: they
                 \* are not taken from the lots then, which stay as they are
    manager,     \* the levels and the position ProtectiveOrderManager remembers
    desired,     \* the level the strategy or the lots call for
    pc,          \* where the tick is
    intents,     \* what is left of the plan
    current,     \* the order being sent
    own,         \* orders of the exit under way
    todo,        \* orders it still has to cancel
    degraded,    \* the tick set the operational state DEGRADED
    faults

account == <<entered, opened, late>>
market == <<venue, traded>>
ledger == <<row, recorded, order, external>>
control == <<pc, intents, current, own, todo, degraded>>
vars == <<entered, venue, traded, row, recorded, order, external, held, opened, late,
          manager, desired, pc, intents, current, own, todo, degraded, faults>>

NoManager == [known |-> FALSE, accepted |-> 0, requested |-> 0, position |-> 0]
Level == Levels \cup {0}
Intent == [action : {"place", "replace", "cancel", "flatten", "external", "review"},
           order : Stops \cup {NoOrder}, qty : Nat, level : Level, position : Nat]

TypeOK ==
    /\ entered \in 0 .. Len(Entries)
    /\ venue \in [Orders -> {"none", "working", "ended"}]
    /\ row \in [Orders -> {"none", "intent", "live", "unknown", "rejected", "canceled"}]
    /\ order \in [Orders -> [qty : Nat, level : Level, position : Nat]]
    /\ traded \in [Orders -> Nat] /\ recorded \in [Orders -> Nat] /\ external \subseteq Exits
    /\ \A o \in Orders : recorded[o] <= traded[o] /\ traded[o] <= order[o].qty
    /\ held \in Nat /\ opened \in 0 .. Len(Entries) /\ late \in BOOLEAN
    /\ manager \in [known : BOOLEAN, accepted : Level, requested : Level, position : Nat]
    /\ desired \in Level
    /\ pc \in {"idle", "recover", "external", "protect", "apply", "resync", "place", "send",
               "answer", "exit", "clear", "sell", "after"}
    /\ intents \in Seq(Intent)
    /\ current \in Orders \cup {NoOrder} /\ own \subseteq Orders /\ todo \subseteq Orders
    /\ degraded \in BOOLEAN /\ faults \in 0 .. MaxFaults

Init ==
    /\ entered = 0 /\ opened = 0 /\ late = FALSE /\ held = 0
    /\ venue = [o \in Orders |-> "none"] /\ traded = [o \in Orders |-> 0]
    /\ row = [o \in Orders |-> "none"] /\ recorded = [o \in Orders |-> 0]
    /\ order = [o \in Orders |-> [qty |-> 0, level |-> 0, position |-> 0]]
    /\ external = {} /\ manager = NoManager /\ desired \in Level
    /\ pc = "idle" /\ intents = <<>> /\ current = NoOrder
    /\ own = {} /\ todo = {} /\ degraded = FALSE
    /\ faults = 0

Fault == faults < MaxFaults /\ faults' = faults + 1

-----------------------------------------------------------------------------
(* The venue and the strategies.                                            *)

(* A quantity counted in units: the first so many of each of S. *)
Units(quantity, S) == UNION {{o} \X (1 .. quantity[o]) : o \in S}

Bought == Cardinality(Units(Entries, 1 .. entered))
VenuePosition == Bought - Cardinality(Units(traded, Orders))
(* What the lots add up to, unless they were left as they are. *)
Owned == Bought - Cardinality(Units(recorded, Orders))

(* A unit is sold; inventory is not sold twice. *)
VenueTrades(o) ==
    /\ venue[o] = "working" /\ VenuePosition > 0
    /\ traded' = [traded EXCEPT ![o] = @ + 1]
    /\ venue' = [venue EXCEPT ![o] = IF traded[o] + 1 = order[o].qty THEN "ended" ELSE @]
    /\ UNCHANGED <<account, ledger, held, manager, desired, control, faults>>

StrategyMoves ==
    /\ pc = "idle"
    /\ desired' \in Level \ {desired}
    /\ UNCHANGED <<account, market, ledger, held, manager, control, faults>>

-----------------------------------------------------------------------------
(* Reading orders and the account.                                          *)

Live_Acknowledged(o) == row[o] = "live"
Live(o) == row[o] \in {"intent", "live", "unknown"}
Unsent == {o \in Orders : row[o] = "intent"}
Unknown == \E o \in Orders : row[o] = "unknown"

(* authoritative_position_ids raises otherwise. *)
Attributed == ~late /\ held = Owned
(* unowned_positions, as the sync finds it. *)
Unowned == held > 0 /\ ~Attributed

(* The status a read finds; an order the venue does not have stays UNKNOWN. *)
Found(o) ==
    CASE venue'[o] = "none" -> "unknown"
      [] venue'[o] = "working" -> "live"
      [] venue'[o] = "ended" -> "canceled"

(* reconcile_order of each of known, all marked as sent; the reads of lost  *)
(* fail.                                                                    *)
Read(known, lost) ==
    /\ row' = [o \in Orders |-> IF o \in lost THEN "unknown"
                                ELSE IF o \in known THEN Found(o) ELSE row[o]]
    /\ recorded' = [o \in Orders |-> IF o \in known \ lost THEN traded[o] ELSE recorded[o]]
    /\ UNCHANGED <<order, external>>

Synced == held' = VenuePosition

Goto(there) == pc' = there /\ UNCHANGED <<intents, current, own, todo, degraded>>

(* What is unowned is sold first; the action that sells it is over when     *)
(* nothing is.                                                              *)
Secure(unowned) ==
    /\ Goto(IF unowned THEN "external" ELSE "protect")
    /\ external' = IF unowned THEN external ELSE {}

(* The sync a tick begins with; then a reconciliation run, if one is due or *)
(* an order is UNKNOWN.                                                     *)
StartTick(due) ==
    /\ pc = "idle"
    /\ UNCHANGED <<account, market, row, recorded, order, manager, desired>>
    /\ \/ /\ Synced /\ UNCHANGED faults
          /\ IF due \/ Unknown THEN Goto("recover") /\ UNCHANGED external ELSE Secure(Unowned')
       \/ Fault /\ UNCHANGED <<external, held, control>>

(* recover_open_orders: of the orders that were not sent, those whose time  *)
(* has passed expire, the others are read.  A fill is followed by a sync,   *)
(* whose result is not looked at.                                           *)
Recover(expired) ==
    /\ pc = "recover"
    /\ UNCHANGED <<account, market, manager, desired>>
    /\ LET read == {o \in Orders : Live(o)} \ Unsent IN
       \E lost \in {{}} \cup {{o} : o \in read} :
         /\ IF lost = {} THEN UNCHANGED faults ELSE Fault
         /\ row' = [o \in Orders |->
                      IF o \in expired THEN "rejected"
                      ELSE IF o \in lost THEN "unknown"
                      ELSE IF o \in read THEN Found(o) ELSE row[o]]
         /\ recorded' = [o \in Orders |-> IF o \in read \ lost THEN traded[o] ELSE recorded[o]]
         /\ UNCHANGED order
    /\ \/ UNCHANGED held /\ Secure(Unowned)
       \/ recorded' # recorded /\ Synced /\ Secure(Unowned')

(* confirm_order_not_submitted: between two runs of the engine an operator  *)
(* ends an order whose outcome is UNKNOWN and that the venue does not have. *)
Confirm(o) ==
    /\ pc = "idle"
    /\ row[o] = "unknown" /\ venue[o] = "none"
    /\ row' = [row EXCEPT ![o] = "rejected"]
    /\ UNCHANGED <<account, market, recorded, order, external, held, manager, desired, control, faults>>

-----------------------------------------------------------------------------
(* The manager.                                                             *)

Top(levels) == Max(levels \cup {0})
LevelsOf(orders) == {order[o].level : o \in orders}

Confirmed(o) == row[o] \in {"live", "canceled"}

(* restore_confirmed_stop of every stop on record, for the position held.   *)
Restored ==
    [known |-> TRUE, requested |-> 0,
     position |-> IF {o \in Stops : Confirmed(o) /\ order[o].position = opened} # {} /\ held > 0
                    THEN opened ELSE 0,
     accepted |-> IF held = 0 THEN 0
                  ELSE Top(LevelsOf({o \in Stops : Confirmed(o) /\ order[o].position = opened}))]

LiveStops == {o \in Stops : row[o] = "live"}
Indeterminate == {o \in Stops : row[o] \in {"intent", "unknown"}}

(* What is asked of orders and not on record as sold. *)
Asked == [o \in Orders |-> order[o].qty]
Outstanding(S) == Cardinality(Units(Asked, S) \ Units(recorded, S))

(* What market exits under way leave to protect. *)
Available_Held == held
Available ==
    LET reserved == Outstanding({o \in Exits : Live(o)}) IN
    IF held > reserved THEN held - reserved ELSE 0

Cancel(o) == [action |-> "cancel", order |-> o, qty |-> 0, level |-> 0, position |-> 0]
Cancels(orders) == [n \in 1 .. Cardinality(orders) |->
                      Cancel(CHOOSE o \in orders :
                        Cardinality({p \in orders : p[2] < o[2]}) = n - 1)]
Flatten == [action |-> "flatten", order |-> NoOrder, qty |-> Available, level |-> 0,
            position |-> opened]

(* A position with another number makes the manager forget the last one's.  *)
Remembered(m) == IF m.position = opened THEN m ELSE [NoManager EXCEPT !.known = TRUE, !.position = opened]

Ratchet_WantedOnly(m, stops) == desired
(* _ratchet *)
Ratchet(m, stops) == Top({desired, m.accepted, m.requested} \cup LevelsOf(stops))

Stop(action, o, level) ==
    [action |-> action, order |-> o, qty |-> Available, level |-> level, position |-> opened]

(* evaluate: the intents, and the levels the manager keeps in mind.         *)
Evaluate(m) ==
    LET stale == {o \in LiveStops : order[o].position # opened}
        surviving == LiveStops \ stale
        target == Ratchet(m, IF stale # {} THEN surviving ELSE LiveStops)
        tightest == CHOOSE o \in LiveStops :
                      \A p \in LiveStops : order[p].level < order[o].level
                                           \/ (order[p].level = order[o].level /\ o[2] <= p[2])
        duplicates == Cancels(LiveStops \ {tightest})
        ask(plan) == [plan |-> plan, manager |-> [m EXCEPT !.requested = target]]
        only(plan) == [plan |-> plan, manager |-> m]
    IN CASE held = 0 -> [plan |-> Cancels(LiveStops \cup Indeterminate),
                         manager |-> [NoManager EXCEPT !.known = TRUE]]
         [] held > 0 /\ Available = 0 -> only(Cancels(LiveStops \cup Indeterminate))
         [] OTHER ->
              IF Indeterminate # {} THEN only(<<Flatten>>)
              ELSE IF stale # {} THEN
                IF Cardinality(stale) = 1 /\ surviving = {} /\ target # 0
                  THEN ask(<<Stop("replace", CHOOSE o \in stale : TRUE, target)>>)
                  ELSE only(Cancels(stale))
              ELSE IF target = 0 THEN only(<<Flatten>>)
              ELSE IF LiveStops = {} THEN ask(<<Stop("place", NoOrder, target)>>)
              ELSE IF order[tightest].qty - recorded[tightest] # Available
                      \/ target > order[tightest].level
                THEN ask(duplicates \o <<Stop("replace", tightest, target)>>)
              ELSE [plan |-> duplicates,
                    manager |-> [m EXCEPT !.accepted = order[tightest].level]]

(* _reconcile_protective_orders, with a manager made anew after a start.    *)
(* Lots that do not add up to the position leave everything as it is.       *)
Protect ==
    /\ pc = "protect"
    /\ IF ~Attributed
         THEN pc' = "after" /\ degraded' = TRUE /\ UNCHANGED <<manager, intents, current, own, todo>>
         ELSE LET m == IF manager.known THEN manager ELSE Restored
                  out == Evaluate(IF held > 0 THEN Remembered(m) ELSE m) IN
              /\ manager' = out.manager /\ intents' = out.plan
              /\ pc' = "apply" /\ UNCHANGED <<current, own, todo, degraded>>
    /\ UNCHANGED <<account, market, ledger, held, desired, faults>>

-----------------------------------------------------------------------------
(* _apply_protective_intent                                                 *)

Step(there) == pc' = there /\ UNCHANGED <<intents, own, todo, degraded>>

(* The intent is done with, or given up. *)
Drop(trouble) ==
    /\ intents' = Tail(intents) /\ pc' = "apply"
    /\ current' = NoOrder /\ own' = {} /\ todo' = {}
    /\ degraded' = (degraded \/ trouble)

(* cancel_order: the venue ends the order, or refuses and it is read.  One  *)
(* that was not sent raises.                                                *)
CancelAndRead(o) ==
    /\ venue' \in {venue, [venue EXCEPT ![o] = IF @ = "working" THEN "ended" ELSE @]}
    /\ IF Live(o) /\ o \notin Unsent
         THEN \/ Read({o}, {}) /\ IF venue'[o] = "working" THEN Fault ELSE UNCHANGED faults
              \/ Read({o}, {o}) /\ Fault
         ELSE UNCHANGED <<venue, ledger, faults>>
    /\ UNCHANGED traded

(* Only an authoritative end of the old stop makes room for a new one. *)
Ended(o) == row'[o] = "canceled"

ApplyCancel ==
    /\ pc = "apply" /\ intents # <<>> /\ Head(intents).action \in {"cancel", "replace"}
    /\ CancelAndRead(Head(intents).order)
    /\ IF Ended(Head(intents).order) /\ Head(intents).action = "replace"
         THEN Step("resync") /\ UNCHANGED current
         ELSE Drop(~Ended(Head(intents).order))
    /\ UNCHANGED <<account, held, manager, desired>>

(* A replacement looks at the position again. *)
Resync ==
    /\ pc = "resync"
    /\ \/ /\ Synced /\ UNCHANGED faults
          /\ IF held' = 0 THEN Drop(FALSE) ELSE Step("place") /\ UNCHANGED current
       \/ Fault /\ UNCHANGED held /\ Drop(TRUE)
    /\ UNCHANGED <<account, market, ledger, manager, desired>>

StartPlace ==
    /\ pc = "apply" /\ intents # <<>> /\ Head(intents).action = "place"
    /\ Step("place") /\ UNCHANGED current
    /\ UNCHANGED <<account, market, ledger, held, manager, desired, faults>>

OutstandingExits == Outstanding({o \in Orders : Live(o)})
Sellable(qty) == Max({0, Min({qty, held - OutstandingExits})})

Free(orders) == {o \in orders : row[o] = "none"}
First(orders) == CHOOSE o \in orders : \A p \in orders : o[2] <= p[2]

(* The row of an order that is about to be sent. *)
Create(o, qty, level) ==
    /\ row' = [row EXCEPT ![o] = "unknown"]
    /\ order' = [order EXCEPT ![o] = [qty |-> qty, level |-> level, position |-> opened]]
    /\ external' = IF Head(intents).action = "external" THEN external \cup {o} ELSE external
    /\ current' = o
    /\ UNCHANGED recorded

SamePosition(intent) == intent.position = opened

(* A stop is placed for the position it was planned for; one that would sell*)
(* what other exits may sell is not sent, and the position is sold instead. *)
Place ==
    /\ pc = "place"
    /\ LET intent == Head(intents)
           qty == Sellable(Min({intent.qty, held})) IN
       IF ~Attributed \/ held = 0 \/ ~SamePosition(intent)
         THEN Drop(TRUE) /\ UNCHANGED ledger
       ELSE IF qty = 0 \/ Free(Stops) = {}
         THEN /\ pc' = "exit" /\ degraded' = TRUE
              /\ UNCHANGED <<ledger, current, intents, own, todo>>
       ELSE Create(First(Free(Stops)), qty, intent.level) /\ Step("send")
    /\ UNCHANGED <<account, market, held, manager, desired, faults>>

(* A stop that is not accepted is itself the order the exit looks at first. *)
NotAccepted ==
    IF current \in Stops
      THEN /\ pc' = "exit" /\ own' = {current} /\ degraded' = TRUE /\ current' = NoOrder
           /\ UNCHANGED <<intents, todo>>
      ELSE Drop(TRUE)

(* create_order arrives, is refused, or is lost. *)
Send ==
    /\ pc = "send"
    /\ \/ venue' = [venue EXCEPT ![current] = "working"]
          /\ Step("answer") /\ UNCHANGED <<current, row, faults>>
       \/ Fault /\ UNCHANGED venue
          /\ row' \in {row, [row EXCEPT ![current] = "rejected"]} /\ NotAccepted
    /\ UNCHANGED <<account, traded, recorded, order, external, held, manager, desired>>

Answer ==
    /\ pc = "answer"
    /\ UNCHANGED market
    /\ \/ Read({current}, {}) /\ Drop(FALSE) /\ UNCHANGED faults
       \/ Fault /\ UNCHANGED ledger /\ NotAccepted
    /\ UNCHANGED <<account, held, manager, desired>>

-----------------------------------------------------------------------------
(* _submit_risk_exit, to sell all.                                          *)

External(action) == [action |-> action, order |-> NoOrder, qty |-> 0, level |-> 0, position |-> 0]

(* Its own orders are those of the same plan: after a bar or a fill has     *)
(* passed, earlier exits are others.                                        *)
StartFlatten ==
    /\ pc = "apply" /\ intents # <<>> /\ Head(intents).action = "flatten"
    /\ own' \in {{}, {o \in Exits : Live(o)}}
    /\ pc' = "exit" /\ degraded' = TRUE
    /\ UNCHANGED <<account, market, ledger, held, manager, desired, intents, current, todo, faults>>

(* _reconcile_external_positions: what the lots do not account for is sold, *)
(* whoever owns it, and protection is looked at again.                      *)
StartExternal ==
    /\ pc = "external"
    /\ own' = {o \in external : Live(o)}
    /\ intents' = <<External("external"), External("review")>>
    /\ pc' = "exit" /\ degraded' = TRUE
    /\ UNCHANGED <<account, market, ledger, held, manager, desired, current, todo, faults>>

Review ==
    /\ pc = "apply" /\ intents # <<>> /\ Head(intents).action = "review"
    /\ intents' = Tail(intents)
    /\ pc' = "protect"
    /\ UNCHANGED <<account, market, ledger, held, manager, desired, current, own, todo, degraded, faults>>

Bound == Head(intents).action = "flatten"   \* to the position it was planned for
Foreign == Bound /\ (~Attributed' \/ opened # Head(intents).position)

(* Own orders are read and the account is synced.  What is left of them is  *)
(* waited for; otherwise every order of the symbol makes way.               *)
Exit ==
    /\ pc = "exit"
    /\ UNCHANGED <<account, market>>
    /\ \/ /\ Read({o \in own \ Unsent : Live(o)}, {}) /\ Synced /\ UNCHANGED faults
          /\ LET waiting == {o \in own : Live(o)'} IN
             IF Foreign \/ (held' > 0 /\ waiting # {}) THEN Drop(TRUE)
             ELSE /\ pc' = "clear"
                  /\ todo' = IF held' = 0 THEN waiting
                             ELSE {o \in Orders : Live(o)'}
                  /\ UNCHANGED <<intents, current, own, degraded>>
       \/ /\ Fault /\ Drop(TRUE)
          /\ \/ UNCHANGED <<ledger, held>>
             \/ (\E o \in own \ Unsent : Live(o) /\ Read({o}, {o})) /\ Synced
    /\ UNCHANGED <<manager, desired>>

Clear(o) ==
    /\ pc = "clear" /\ o \in todo
    /\ CancelAndRead(o)
    /\ IF Ended(o) THEN todo' = todo \ {o} /\ UNCHANGED <<pc, intents, current, own, degraded>>
       ELSE Drop(TRUE)
    /\ UNCHANGED <<account, held, manager, desired>>

Cleared ==
    /\ pc = "clear" /\ todo = {}
    /\ \/ Synced /\ UNCHANGED faults /\ Goto("sell")
       \/ Fault /\ UNCHANGED held /\ Drop(TRUE)
    /\ UNCHANGED <<account, market, ledger, manager, desired>>

Sell ==
    /\ pc = "sell"
    /\ UNCHANGED <<account, market, held, manager, desired, faults>>
    /\ IF held = 0 \/ (Bound /\ ~Attributed) \/ Sellable(held) = 0 \/ Free(Exits) = {}
         THEN Drop(TRUE) /\ UNCHANGED ledger
         ELSE Create(First(Free(Exits)), Sellable(held), 0) /\ Step("send")

-----------------------------------------------------------------------------
(* The rest of the tick, and crashes.                                       *)

PlanDone ==
    /\ pc = "apply" /\ intents = <<>>
    /\ Goto("after")
    /\ UNCHANGED <<account, market, ledger, held, manager, desired, faults>>

(* An entry is filled, unless the tick found trouble or account and lots    *)
(* disagreed when the account was last synced.  A sync follows.             *)
Enter ==
    /\ pc = "after" /\ ~degraded /\ ~Unknown
    /\ entered < Len(Entries)
    /\ Attributed
    /\ UNCHANGED <<market, ledger, manager, desired, control>>
    /\ entered' = entered + 1
    /\ opened' = IF Owned = 0 THEN opened + 1 ELSE opened
    /\ late' = (VenuePosition # Owned)
    /\ \/ held' = VenuePosition' /\ UNCHANGED faults
       \/ Fault /\ UNCHANGED held

EndTick ==
    /\ pc = "after"
    /\ pc' = "idle" /\ degraded' = FALSE
    /\ UNCHANGED <<account, market, ledger, held, manager, desired, intents, current, own, todo, faults>>

(* Orders, fills and lots are on disk; the manager is not.  An order about  *)
(* to be sent is marked already, or it is not.                              *)
Crash ==
    /\ Fault
    /\ row' \in {row} \cup (IF pc = "send" THEN {[row EXCEPT ![current] = "intent"]} ELSE {})
    /\ held' = 0 /\ manager' = NoManager
    /\ pc' = "idle" /\ intents' = <<>> /\ current' = NoOrder
    /\ own' = {} /\ todo' = {} /\ degraded' = FALSE
    /\ UNCHANGED <<account, market, recorded, order, external, desired>>

Engine ==
    \/ (\E expired \in SUBSET Unsent : Recover(expired))
    \/ StartExternal \/ Review \/ Protect \/ ApplyCancel \/ Resync \/ StartPlace \/ Place \/ Send \/ Answer
    \/ StartFlatten \/ Exit \/ (\E o \in Orders : Clear(o)) \/ Cleared \/ Sell
    \/ PlanDone \/ EndTick

Next ==
    \/ \E o \in Orders : VenueTrades(o) \/ Confirm(o)
    \/ StrategyMoves \/ Enter
    \/ (\E due \in BOOLEAN : StartTick(due)) \/ Engine \/ Crash

Spec == Init /\ [][Next]_vars

(* Ticks go on, reconciliations are due again and again, the time of an     *)
(* order that was not sent passes, and a market exit sells as long as there *)
(* is something to sell; a stop may never trigger.  Nothing makes an        *)
(* operator look.                                                           *)
Fairness ==
    /\ WF_vars(Engine) /\ WF_vars(\E due \in BOOLEAN : StartTick(due))
    /\ SF_vars(StartTick(TRUE)) /\ SF_vars(Recover(Unsent))
    /\ \A o \in Exits : WF_vars(VenueTrades(o))

FairSpec == Spec /\ Fairness

-----------------------------------------------------------------------------
(* Properties.                                                              *)

Remaining(o) == order[o].qty - traded[o]
Working == {o \in Orders : venue[o] = "working"}

(* A stop only moves up: none is sent with a level below one that was       *)
(* confirmed for the same position, whatever the strategy asks for and      *)
(* whatever a crash made the engine forget (§4.4 of the roadmap the code    *)
(* names: the level only ever moves up).                                    *)
NeverLoosened ==
    [][\A o, p \in Stops :
         /\ venue[o] = "none" /\ venue'[o] = "working"
         /\ Confirmed(p) /\ order[p].position = order[o].position
         => order[p].level <= order[o].level]_vars

(* Stops and exits together never ask the venue for more than is held,      *)
(* whatever answers were lost while one replaced the other; so none outlives*)
(* its position to fire into the next one.                                  *)
NeverOversold == Cardinality(Units(Asked, Working) \ Units(traded, Working)) <= VenuePosition

Protected ==
    \/ VenuePosition = 0
    \/ \E o \in Stops \cap Working : Remaining(o) = VenuePosition

(* Marked as being sent and lost: reconciliation leaves it UNKNOWN.         *)
AwaitsOperator == \E o \in Orders : row[o] = "unknown" /\ venue[o] = "none"

(* Again and again the position is flat or one stop covers all of it, though*)
(* faults leave it unprotected for a time; unless an order that was lost on *)
(* the way waits for an operator for ever, for neither stop nor exit is     *)
(* placed beside it.                                                        *)
ProtectedAgain == <>[]AwaitsOperator \/ []<>Protected
=============================================================================
