--------------------------- MODULE BarClaimsState ---------------------------
(* The claims of closed bars: what they are set up with, the rows and the   *)
(* ticks of the processes, and what must be true of them whatever steps     *)
(* BarClaims takes.                                                         *)
EXTENDS FaultBound

CONSTANTS
    Procs,       \* engine processes that share the state database
    Symbols,     \* the symbols traded, on one timeframe
    Bars,        \* bound: the bars that close, each a symbol and a number
    Lease,       \* bar_claim_lease_seconds, in time units
    MaxLag,      \* bound: time from a tick's clock reading to its last claim
    LateFailures,\* whether reading the order ledger can raise after a bar
                 \* joined its batch
    NoBar        \* no bar
\* MaxFaults: crashes, failures of strategies or allocator, and orders that
\* turn UNKNOWN

ASSUME LeaseAssumption == Lease \in Nat \ {0} /\ MaxLag \in Nat
ASSUME FailureAssumption == LateFailures \in BOOLEAN
ASSUME BarsAssumption == Bars \subseteq Symbols \X (Nat \ {0})
ASSUME NoBarAssumption == NoBar \notin Bars

VARIABLES
    newest,      \* the last closed bar of each symbol, 0 before the first
    status,      \* processed_bars.status, "none" for a bar without a row
    age,         \* time since processed_at of each claim, 0 of the others
    unknown,     \* some order of the account is UNKNOWN
    pc,          \* where each process is in its tick
    lag,         \* time since the tick read its clock, 0 after its claims
    todo,        \* bars the tick has still to visit, then to finish
    bar,         \* the bar the process is claiming or evaluating
    keys         \* bars of the batch

-----------------------------------------------------------------------------
(* A processed bar is never claimed or given back again, whatever faults,  *)
(* failures and releases happen (claim_bar, release_bar).                   *)
ProcessedForever ==
    [][\A b \in Bars : status[b] = "processed" => status'[b] = "processed"]_status

(* A tick that comes to complete its bars finds the row of each: a bar it   *)
(* gave back is never in a batch that is then completed (complete_bar).     *)
(* Proved for one engine whose order ledger does not fail after a bar       *)
(* joined its batch.                                                        *)
CompletionFindsItsRow ==
    \A p \in Procs :
        pc[p] = "finish" /\ ~unknown => \A b \in todo[p] : status[b] # "none"
=============================================================================
