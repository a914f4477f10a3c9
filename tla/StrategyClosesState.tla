------------------------ MODULE StrategyClosesState -------------------------
(* A strategy that learns of its closes: what it is set up with, the market *)
(* facts and the strategy's memory and rows, and how they must agree        *)
(* whatever steps StrategyCloses takes.                                     *)
EXTENDS Sequences, StrategyParameters

CONSTANTS
    NoSymbol,
    KeepsHealth,    \* TRUE: results go to a health machine with a row of its
                    \* own (TrendBreakout); FALSE: to trade_state, which the
                    \* checkpoints hold (RangeMeanReversion)
    MaxEntries,     \* bound: entry orders of a symbol
    MaxPositions,   \* bound: positions of a symbol
    MaxLots,        \* bound, by symbol: lots of a position
    MaxExits        \* bound, by symbol: exit orders
\* Faults: "crash", "close_write", "health_write" and "unanswered"

ASSUME StrategyClosesAssumption ==
    /\ NoSymbol \notin Symbols /\ KeepsHealth \in BOOLEAN
    /\ MaxEntries \in Nat /\ MaxPositions \in Nat
    /\ MaxLots \in [Symbols -> Nat] /\ MaxExits \in [Symbols -> Nat]

VARIABLES
    \* orders, lots and close events
    entry,       \* number of the last entry order and the units it may still buy
    exit,        \* number of the last exit order and the units it may still sell
    opened,      \* positions a symbol has had
    lots,        \* who opened the lots of a position, in the order they were opened
    closed,      \* how many of them are closed
    stream,      \* close events
    \* the strategy in memory
    memory,      \* cursor, queues and totals, completed positions, context, results
    told,        \* history: the completions on_trade_closed was called with
    \* the state store
    checkpoint,  \* strategy_close_cursor
    runtime,     \* strategy_runtime
    health       \* strategy_health

Positions == Symbols \X (1 .. MaxPositions)
NoRow == [absent |-> TRUE]
Mine(i) == lots[stream[i].pos][stream[i].lot] = "own"

-----------------------------------------------------------------------------
(* No close falls between the cursor and the queues: what the cursor has    *)
(* passed waits in the queue of its symbol, is folded into the running      *)
(* total of its position, or belongs to a completed one - in memory and in  *)
(* the checkpoint a restart reads, over rolled back batches and crashes.    *)
AccountedIn(row) ==
    \A i \in 1 .. row.cursor :
        Mine(i) => \/ i \in row.pending[stream[i].pos[1]]
                   \/ stream[i].lot \in row.acc[stream[i].pos]
                   \/ stream[i].pos \in row.completed
NoCloseSkipped == AccountedIn(memory) /\ (checkpoint # NoRow => AccountedIn(checkpoint))

(* on_trade_closed is told of a position when all its lots are closed, with  *)
(* every lot of the strategy in the total, also when a fill closes several   *)
(* lots or the last one belongs to another strategy.                         *)
ToldInFull ==
    \A t \in told :
        /\ closed[t.pos] = Len(lots[t.pos])
        /\ t.lots = {l \in DOMAIN lots[t.pos] : lots[t.pos][l] = "own"}

(* A result enters the health or the losing streak once, however often its  *)
(* delivery is rolled back and repeated: never twice, and what counts as    *)
(* delivered has been counted.                                              *)
CountedOnce ==
    /\ \A p \in Positions : memory.counts[p] <= 1
    /\ \A p \in memory.completed : memory.counts[p] = 1
=============================================================================
