-------------------------- MODULE StrategyCloses ---------------------------
(***************************************************************************)
(* How a strategy of the live engine learns of the closes of its positions *)
(* and remembers what it does about them: the stream of close events, the  *)
(* cursor and queues of _consume_execution_trades, the aggregation of lots *)
(* into completed positions, the context of each symbol with its stop and  *)
(* the latch of an exit under way, and the three rows of the state store   *)
(* they are kept in, with writes that fail and crashes between any two.    *)
(*                                                                         *)
(* One strategy.  A lot is one unit.  Lots of a position may belong to     *)
(* another strategy; its closes are in the same stream.                    *)
(***************************************************************************)
EXTENDS Integers, StrategyClosesState

VARIABLES
    pc, at,      \* where the tick is, and the symbol it is about
    todo,        \* symbols whose bar is still to be evaluated
    candidates,  \* symbols with an entry proposal
    previous,    \* local of _consume_execution_trades
    faults

market == <<entry, exit, opened, lots, closed, stream>>
store == <<checkpoint, runtime, health>>
control == <<pc, at, todo, candidates, previous>>
vars == <<entry, exit, opened, lots, closed, stream, memory, told, checkpoint, runtime, health,
          pc, at, todo, candidates, previous, faults>>

Owners == {"own", "other"}

\* entry_pending, the entry whose stop_loss it holds, the order that is exit_order_id
NoContext == [entry |-> FALSE, stop |-> 0, latch |-> 0]
Fresh == [cursor |-> 0, pending |-> [s \in Symbols |-> {}], acc |-> [p \in Positions |-> {}],
          completed |-> {}, ctx |-> [s \in Symbols |-> NoContext],
          counts |-> [p \in Positions |-> 0]]

Position(s) == <<s, opened[s]>>
Held(s) == opened[s] > 0 /\ closed[Position(s)] < Len(lots[Position(s)])
HeldQty(s) == IF Held(s) THEN Len(lots[Position(s)]) - closed[Position(s)] ELSE 0

Fault(kind) == kind \in Faults /\ faults < MaxFaults /\ faults' = faults + 1

TypeOK ==
    /\ \A s \in Symbols :
         /\ entry[s] \in [no : 0 .. MaxEntries, left : 0 .. MaxLots[s]]
         /\ exit[s] \in [no : 0 .. MaxExits[s], left : 0 .. MaxLots[s]]
         /\ memory.pending[s] \subseteq 1 .. memory.cursor
         /\ memory.ctx[s] \in [entry : BOOLEAN, stop : 0 .. MaxEntries, latch : 0 .. MaxExits[s]]
    /\ \A s \in Symbols : opened[s] = 0 \/ Position(s) \in Positions
    /\ \A p \in Positions : lots[p] \in Seq(Owners) /\ closed[p] \in 0 .. Len(lots[p])
    /\ \A i \in DOMAIN stream : stream[i] \in [pos : Positions, lot : Nat, final : BOOLEAN]
    /\ memory.cursor \in 0 .. Len(stream) /\ memory.completed \subseteq Positions
    /\ \A row \in {checkpoint, previous} : row = NoRow \/ row.cursor <= memory.cursor
    /\ pc \in {"idle", "visit", "checkpoint", "reconcile", "decide", "track"}
    /\ at \in Symbols \cup {NoSymbol} /\ todo \subseteq Symbols /\ candidates \subseteq Symbols
    /\ faults \in 0 .. MaxFaults

Init ==
    /\ entry = [s \in Symbols |-> [no |-> 0, left |-> 0]]
    /\ exit = [s \in Symbols |-> [no |-> 0, left |-> 0]]
    /\ opened = [s \in Symbols |-> 0]
    /\ lots = [p \in Positions |-> <<>>] /\ closed = [p \in Positions |-> 0]
    /\ stream = <<>>
    /\ memory = Fresh /\ told = {}
    /\ checkpoint = NoRow /\ runtime = NoRow /\ health = Fresh.counts
    /\ pc = "idle" /\ at = NoSymbol /\ todo = {} /\ candidates = {} /\ previous = NoRow
    /\ faults = 0

-----------------------------------------------------------------------------
(* Orders and fills, as the sync at the start of a tick finds them: lots,   *)
(* close events and order rows stay what they are while bars are evaluated. *)

(* A fill opens a lot, of a new position when the symbol was flat. *)
Opens(s, owner) ==
    LET n == IF Held(s) THEN opened[s] ELSE opened[s] + 1 IN
    /\ n <= MaxPositions /\ Len(lots[<<s, n>>]) < MaxLots[s]
    /\ opened' = [opened EXCEPT ![s] = n]
    /\ lots' = [lots EXCEPT ![<<s, n>>] = Append(@, owner)]
    /\ UNCHANGED <<closed, stream>>

(* A fill closes q lots, oldest first; each is an event. *)
Closes(s, q) ==
    LET p == Position(s)
        flat == closed[p] + q = Len(lots[p])
    IN  /\ q <= HeldQty(s)
        /\ closed' = [closed EXCEPT ![p] = @ + q]
        /\ stream' = stream \o [k \in 1 .. q |-> [pos |-> p, lot |-> closed[p] + k, final |-> flat]]
        /\ UNCHANGED <<opened, lots>>

EntryFills(s) ==
    /\ pc = "idle" /\ entry[s].left > 0 /\ entry' = [entry EXCEPT ![s].left = @ - 1]
    /\ Opens(s, "own")
    /\ UNCHANGED <<exit, memory, told, store, control, faults>>

EntryEnds(s) ==
    /\ pc = "idle" /\ entry[s].left > 0 /\ entry' = [entry EXCEPT ![s].left = 0]
    /\ UNCHANGED <<exit, opened, lots, closed, stream, memory, told, store, control, faults>>

(* Another strategy adds to the position. *)
OtherAdds(s) ==
    /\ pc = "idle" /\ Held(s) /\ Opens(s, "other")
    /\ UNCHANGED <<entry, exit, memory, told, store, control, faults>>

(* A resident stop, a risk exit or another strategy sells. *)
OtherCloses(s) ==
    /\ pc = "idle" /\ \E q \in 1 .. MaxLots[s] : Closes(s, q)
    /\ UNCHANGED <<entry, exit, memory, told, store, control, faults>>

ExitFills(s) ==
    /\ pc = "idle" /\ \E q \in 1 .. exit[s].left : Closes(s, q) /\ exit' = [exit EXCEPT ![s].left = @ - q]
    /\ UNCHANGED <<entry, memory, told, store, control, faults>>

ExitEnds(s) ==
    /\ pc = "idle" /\ exit[s].left > 0 /\ exit' = [exit EXCEPT ![s].left = 0]
    /\ UNCHANGED <<entry, opened, lots, closed, stream, memory, told, store, control, faults>>

-----------------------------------------------------------------------------
(* Consuming the stream.                                                    *)

(* The queue of s with what is new in the stream. *)
Queue(s) == memory.pending[s] \cup {i \in memory.cursor + 1 .. Len(stream) :
                                       stream[i].pos[1] = s /\ (Mine(i) \/ stream[i].final)}

Changed(s) == Len(stream) > memory.cursor \/ memory.pending[s] # {}

(* The lots of p that are folded once a batch is. *)
Folded(batch, p) ==
    memory.acc[p] \cup (IF p \in memory.completed THEN {}
                        ELSE {stream[i].lot : i \in {j \in batch : stream[j].pos = p /\ Mine(j)}})

(* Any close taken for the last one. *)
Completing_AnyClose(batch) == {p \in {stream[i].pos : i \in batch} : Folded(batch, p) # {}}
(* The positions a batch completes: with lots folded and a final event. *)
Completing(batch) ==
    {p \in {stream[i].pos : i \in {j \in batch : stream[j].final}} : Folded(batch, p) # {}}

Counted(counts, done) ==
    [p \in Positions |-> IF p \notin done THEN counts[p]
                         ELSE IF KeepsHealth THEN 1 ELSE counts[p] + 1]

Cleared(c) == [NoContext EXCEPT !.latch = c.latch]

Consumed_OthersDropped(s, batch, done) ==
    [cursor |-> Len(stream),
     pending |-> [memory.pending EXCEPT ![s] = {}],
     acc |-> [p \in Positions |-> IF p \in done THEN {} ELSE Folded(batch, p)],
     completed |-> memory.completed \cup done,
     ctx |-> memory.ctx,
     counts |-> Counted(memory.counts, done)]
(* The strategy after the batch of s, with done delivered. *)
Consumed(s, batch, done) ==
    [cursor |-> Len(stream),
     pending |-> [t \in Symbols |-> IF t = s THEN {} ELSE Queue(t)],
     acc |-> [p \in Positions |-> IF p \in done THEN {} ELSE Folded(batch, p)],
     completed |-> memory.completed \cup done,
     ctx |-> [memory.ctx EXCEPT ![s] = IF done # {} /\ ~Held(s) THEN Cleared(@) ELSE @],
     counts |-> Counted(memory.counts, done)]

(* The health machine is not part of the checkpoint. *)
Row(m) == [m EXCEPT !.counts = IF KeepsHealth THEN Fresh.counts ELSE @]
Restored(row, counts) == [row EXCEPT !.counts = IF KeepsHealth THEN counts ELSE @]
RollBack_CursorKept(row) == memory' = [(IF row # NoRow THEN row ELSE previous) EXCEPT !.cursor = memory.cursor]
RollBack(row) == memory' = Restored(IF row # NoRow THEN row ELSE previous, memory.counts)

Saved_AtTickEnd(done) == health
(* on_trade_closed saves the health, but not for a duplicate. *)
Saved(done) ==
    IF KeepsHealth /\ \E p \in done : memory.counts[p] = 0 THEN Counted(memory.counts, done) ELSE health

Told(batch, done) == told' = told \cup {[pos |-> p, lots |-> Folded(batch, p)] : p \in done}

(* An exception releases the bar; the tick goes on with the next symbol. *)
NextSymbol(s) ==
    pc' = "visit" /\ at' = NoSymbol /\ todo' = todo \ {s} /\ previous' = NoRow /\ UNCHANGED candidates
Goto(there, s) == pc' = there /\ at' = s /\ UNCHANGED <<todo, candidates>>

StartTick(bars) ==
    /\ pc = "idle" /\ pc' = "visit" /\ todo' = bars /\ candidates' = {}
    /\ UNCHANGED <<market, memory, told, store, at, previous, faults>>

NothingNew(s) ==
    /\ pc = "visit" /\ s \in todo /\ ~Changed(s)
    /\ Goto("reconcile", s)
    /\ UNCHANGED <<market, memory, told, store, previous, faults>>

(* The batch in memory, and on_trade_closed with its write of the health. *)
Deliver(s) ==
    /\ pc = "visit" /\ s \in todo /\ Changed(s)
    /\ LET batch == Queue(s)
           done == Completing(batch)
       IN  /\ memory' = Consumed(s, batch, done)
           /\ Told(batch, done)
           /\ health' = Saved(done)
    /\ previous' = Row(memory) /\ Goto("checkpoint", s)
    /\ UNCHANGED <<market, checkpoint, runtime, faults>>

(* That write raises for one position, after it was made for others. *)
DeliverRaises(s) ==
    /\ Fault("health_write") /\ KeepsHealth
    /\ pc = "visit" /\ s \in todo /\ Changed(s)
    /\ LET batch == Queue(s)
           done == Completing(batch)
       IN  \E p \in done : \E before \in SUBSET (done \ {p}) :
             /\ memory.counts[p] = 0
             /\ memory' = Restored(IF checkpoint # NoRow THEN checkpoint ELSE memory,
                                   Counted(memory.counts, before \cup {p}))
             /\ health' = Saved(before)
             /\ Told(batch, before \cup {p})
    /\ NextSymbol(s)
    /\ UNCHANGED <<market, checkpoint, runtime>>

WriteCheckpoint ==
    /\ pc = "checkpoint"
    /\ checkpoint' = Row(memory) /\ previous' = NoRow /\ Goto("reconcile", at)
    /\ UNCHANGED <<market, memory, told, runtime, health, faults>>

(* Before or after it was committed; what the row holds then is restored. *)
WriteRaises ==
    /\ pc = "checkpoint" /\ Fault("close_write")
    /\ checkpoint' \in {checkpoint, Row(memory)} /\ RollBack(checkpoint')
    /\ NextSymbol(at)
    /\ UNCHANGED <<market, told, runtime, health>>

-----------------------------------------------------------------------------
(* The latch of an exit, and the entry that came to nothing.                *)

Terminal_Replaced(s, order) == exit[s].no > order
Terminal(s, order) == exit[s].no > order \/ exit[s].left = 0

(* The release of an entry that left neither a position nor an order. *)
Tidied(s, c) ==
    IF c.entry /\ c.latch = 0 /\ ~Held(s) /\ entry[s].left = 0 THEN NoContext ELSE c

With(s, c) == [memory EXCEPT !.ctx[s] = c]

NoLatch ==
    /\ pc = "reconcile" /\ memory.ctx[at].latch = 0
    /\ memory' = With(at, Tidied(at, memory.ctx[at])) /\ Goto("decide", at)
    /\ UNCHANGED <<market, told, store, previous, faults>>

(* The facts of the order; any news of it is saved with the context. *)
Facts(s) ==
    LET c == memory.ctx[s] IN IF Terminal(s, c.latch) THEN [c EXCEPT !.latch = 0] ELSE c

Reconcile ==
    /\ pc = "reconcile" /\ memory.ctx[at].latch # 0
    /\ checkpoint' \in {Row(With(at, Facts(at)))} \cup (IF Terminal(at, memory.ctx[at].latch) THEN {} ELSE {checkpoint})
    /\ memory' = With(at, Tidied(at, Facts(at))) /\ Goto("decide", at)
    /\ UNCHANGED <<market, told, runtime, health, previous, faults>>

ReconcileRaises ==
    /\ pc = "reconcile" /\ memory.ctx[at].latch # 0 /\ Fault("close_write")
    /\ checkpoint' \in {checkpoint, Row(With(at, Facts(at)))}
    /\ memory' = With(at, Facts(at)) /\ NextSymbol(at)
    /\ UNCHANGED <<market, told, runtime, health>>

(* No signal, or none that may be acted on. *)
Pass ==
    /\ pc = "decide" /\ NextSymbol(at)
    /\ UNCHANGED <<market, memory, told, store, faults>>

Enters(s) == ~Held(s) /\ ~memory.ctx[s].entry /\ memory.ctx[s].latch = 0

(* should_enter asks check_health, which saves the health. *)
Propose ==
    /\ pc = "decide" /\ Enters(at)
    /\ health' = IF KeepsHealth THEN memory.counts ELSE health
    /\ pc' = "visit" /\ at' = NoSymbol /\ todo' = todo \ {at} /\ candidates' = candidates \cup {at}
    /\ UNCHANGED <<market, memory, told, checkpoint, runtime, previous, faults>>

ProposeRaises ==
    /\ pc = "decide" /\ Enters(at) /\ KeepsHealth /\ Fault("health_write")
    /\ NextSymbol(at)
    /\ UNCHANGED <<market, memory, told, store>>

(* The whole position is to be sold.  The order path refuses what exceeds the
   position after exits outstanding; a refused exit is not latched. *)
SubmitExit ==
    /\ pc = "decide" /\ Held(at) /\ lots[Position(at)][closed[Position(at)] + 1] = "own"
    /\ memory.ctx[at].latch = 0 /\ exit[at].left = 0
    /\ exit[at].no < MaxExits[at]
    /\ exit' = [exit EXCEPT ![at] = [no |-> @.no + 1, left |-> HeldQty(at)]]
    /\ Goto("track", at)
    /\ UNCHANGED <<entry, opened, lots, closed, stream, memory, told, store, previous, faults>>

Latched(s) == With(s, [memory.ctx[s] EXCEPT !.latch = exit[s].no])

Track ==
    /\ pc = "track" /\ memory' = Latched(at) /\ checkpoint' = Row(Latched(at)) /\ NextSymbol(at)
    /\ UNCHANGED <<market, told, runtime, health, faults>>

TrackRaises ==
    /\ pc = "track" /\ Fault("close_write")
    /\ checkpoint' \in {checkpoint, Row(Latched(at))}
    /\ memory' = Latched(at) /\ NextSymbol(at)
    /\ UNCHANGED <<market, told, runtime, health>>

-----------------------------------------------------------------------------
(* Allocation and the end of the tick.                                      *)

(* One entry order at a time; an answer that never comes is not an acceptance,
   and only an acceptance sets the context. *)
Allocate(s) ==
    /\ pc = "visit" /\ todo = {} /\ s \in candidates /\ candidates' = candidates \ {s}
    /\ entry[s].left = 0 /\ entry[s].no < MaxEntries
    /\ \E size \in 1 .. MaxLots[s] :
         entry' = [entry EXCEPT ![s] = [no |-> @.no + 1, left |-> size]]
    /\ \/ memory' = With(s, [entry |-> TRUE, stop |-> entry[s].no + 1, latch |-> 0]) /\ UNCHANGED faults
       \/ Fault("unanswered") /\ UNCHANGED memory
    /\ UNCHANGED <<exit, opened, lots, closed, stream, told, store, pc, at, todo, previous>>

Drop(s) ==
    /\ pc = "visit" /\ todo = {} /\ s \in candidates /\ candidates' = candidates \ {s}
    /\ UNCHANGED <<market, memory, told, store, pc, at, todo, previous, faults>>

FinishTick ==
    /\ pc = "visit" /\ todo = {} /\ candidates = {}
    /\ runtime' = [ctx |-> memory.ctx, counts |-> Row(memory).counts]
    /\ pc' = "idle"
    /\ UNCHANGED <<market, memory, told, checkpoint, health, at, todo, candidates, previous, faults>>

(* _ensure_state_store of the next process: the checkpoint of the closes, and
   over it the context and trade_state of the last tick that was finished. *)
Loaded ==
    LET base == IF checkpoint = NoRow THEN Fresh ELSE checkpoint
        over == IF runtime = NoRow THEN base
                ELSE [base EXCEPT !.ctx = runtime.ctx, !.counts = runtime.counts]
    IN  Restored(over, health)

Crash ==
    /\ Fault("crash")
    /\ memory' = Loaded
    /\ pc' = "idle" /\ at' = NoSymbol /\ todo' = {} /\ candidates' = {} /\ previous' = NoRow
    /\ UNCHANGED <<market, told, store>>

Market(s) == EntryFills(s) \/ EntryEnds(s) \/ OtherAdds(s) \/ OtherCloses(s) \/ ExitFills(s) \/ ExitEnds(s)
Visit(s) == NothingNew(s) \/ Deliver(s)
Tick ==
    \/ \E s \in Symbols : Visit(s) \/ Allocate(s) \/ Drop(s)
    \/ WriteCheckpoint \/ NoLatch \/ Reconcile \/ Pass \/ Propose \/ SubmitExit \/ Track \/ FinishTick
Trouble ==
    \/ \E s \in Symbols : DeliverRaises(s)
    \/ WriteRaises \/ ReconcileRaises \/ ProposeRaises \/ TrackRaises \/ Crash

Next ==
    \/ \E s \in Symbols : Market(s)
    \/ \E bars \in (SUBSET Symbols) \ {{}} : StartTick(bars)
    \/ Tick
    \/ Trouble

Spec == Init /\ [][Next]_vars

-----------------------------------------------------------------------------
(* The bars of all symbols close together and a released bar is claimed     *)
(* again: every symbol is visited again and again.  Exits end at the venue. *)
Fairness ==
    /\ WF_vars(Tick) /\ SF_vars(StartTick(Symbols))
    /\ \A s \in Symbols : SF_vars(ExitEnds(s))
FairSpec == Spec /\ Fairness

(* test_restart_restores_exit_identity_and_uses_durable_live_terminal_fact: *)
(* an exit that works and that the checkpoint knows of is latched, also     *)
(* after a restart.                                                         *)
ExitLatched ==
    \A s \in Symbols :
        /\ pc = "idle" /\ checkpoint # NoRow /\ exit[s].left > 0
        /\ checkpoint.ctx[s].latch = exit[s].no
        => memory.ctx[s].latch = exit[s].no

(* docs/modules/strategies.md: context keeps state across bars by symbol.    *)
(* The approved stop of an entry that was accepted is there while it works. *)
StopKnown ==
    \A s \in Symbols : pc = "idle" /\ entry[s].left > 0 => memory.ctx[s].stop = entry[s].no

(* The results of all positions that are closed have been counted, again     *)
(* and again: whatever was rolled back or lost is delivered once more.      *)
Due(p) == Len(lots[p]) > 0 /\ closed[p] = Len(lots[p]) /\ \E l \in DOMAIN lots[p] : lots[p][l] = "own"
EveryResultCounted == []<>(\A p \in Positions : Due(p) => memory.counts[p] = 1)

(* No latch of an exit outlives its order for good, also of one that ends   *)
(* without a fill: again and again the strategy may sell.                   *)
LatchesReleased == []<>(\A s \in Symbols : memory.ctx[s].latch = 0)
=============================================================================
