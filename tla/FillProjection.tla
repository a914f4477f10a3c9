--------------------------- MODULE FillProjection ---------------------------
(***************************************************************************)
(* The incremental projection of the fill ledger into owned lots and close *)
(* events (IncrementalFillProjection.update) and the SQLite statements it  *)
(* is made of (OrderStore.projection_checkpoint, projection_delta,         *)
(* projection_close_events, save_projection).                              *)
(*                                                                         *)
(* Several processes update the same projection while fills and order rows *)
(* change under them.  Each statement is one step: `pc` is the point a     *)
(* process has reached.  ledger, rowFilled, lastChange, changeSeq, saved   *)
(* and closes are on disk; the rest is lost in a crash.                    *)
(***************************************************************************)
EXTENDS OwnedLots

CONSTANTS
    Facts,       \* the fill records that may reach the ledger
    Procs,       \* processes that update the projection
    MaxCrashes,  \* bound: crashes
    MaxChanges,  \* bound: updates of order rows
    Faults       \* "interrupted": a save may fail, before or after it commits;
                 \* "drill": a process that updates once and ends

ASSUME FactsAssumption ==
    /\ Facts \subseteq FillRecord
    /\ \A f, g \in Facts : f.id = g.id \/ f.key = g.key => f = g
    /\ \A o \in Orders : IsFiniteSet({f \in Facts : f.order = o})
ASSUME BoundsAssumption == MaxCrashes \in Nat /\ MaxChanges \in Nat
ASSUME FaultsAssumption == Faults \subseteq {"interrupted", "drill"}

VARIABLES
    ledger,      \* the fills table, in the order of rowid
    rowFilled,   \* orders.filled_qty
    lastChange,  \* sequence of the last change recorded of each order
    changeSeq,   \* the highest sequence of projection_order_changes
    saved,       \* fill_projection_state: the checkpoint
    closes,      \* projected_close_events, in order of sequence
    pc,          \* the point each process has reached
    mem,         \* its copy of the checkpoint, as loaded or saved
    got,         \* its event_cursor: the closes it has delivered
    delta,       \* what its call of projection_delta has read so far
    held,        \* how many fills are in the books its portfolio holds
    alias,       \* whether these books are the ones an update works on
    crashes

disk == <<ledger, rowFilled, lastChange, changeSeq, saved, closes>>
facts == <<ledger, rowFilled, lastChange, changeSeq>>
memory == <<pc, mem, got, delta, held, alias>>
vars == <<ledger, rowFilled, lastChange, changeSeq, saved, closes,
          pc, mem, got, delta, held, alias, crashes>>

Checkpoint ==
    [version : Nat,            \* version of the row
     fills : Nat,              \* fill_cursor
     changes : Nat,            \* order_cursor
     books : [Symbols -> Seq(Lot)],
     issues : SUBSET Nat,      \* issues, named by their fill
     orderIssues : SUBSET Orders,  \* trade_details_required
     invalid : SUBSET Symbols,
     last : Nat]               \* last_ordering
NoCheckpoint == [version |-> 0, fills |-> 0, changes |-> 0, books |-> EmptyBooks,
                 issues |-> {}, orderIssues |-> {}, invalid |-> {}, last |-> 0]

Delta == [fills : Nat, changes : Nat, ids : SUBSET Orders,
          rows : [Orders -> Nat], orderIssues : SUBSET Orders]
NoDelta == [fills |-> 0, changes |-> 0, ids |-> {},
            rows |-> [o \in Orders |-> 0], orderIssues |-> {}]

(* load and events run at the start of an update, when its version is old,  *)
(* and at its end when it fails: then they end in "idle".                   *)
PCs == {"down", "idle", "load", "events", "reload", "reevents",
        "fills", "changes", "rows", "sums", "save", "deliver"}

TypeOK ==
    /\ ledger \in Seq(Facts)
    /\ rowFilled \in [Orders -> Nat]
    /\ lastChange \in [Orders -> Nat] /\ changeSeq \in Nat
    /\ saved \in Checkpoint
    /\ closes \in Seq(Close)
    /\ pc \in [Procs -> PCs]
    /\ mem \in [Procs -> Checkpoint]
    /\ got \in [Procs -> Nat]
    /\ delta \in [Procs -> Delta]
    /\ held \in [Procs -> Nat]
    /\ alias \in [Procs -> BOOLEAN]
    /\ crashes \in 0 .. MaxCrashes

(* The orders are in the table, with a change recorded for each. *)
Init ==
    /\ ledger = <<>>
    /\ rowFilled = [o \in Orders |-> 0]
    /\ lastChange = [o \in Orders |-> 1] /\ changeSeq = 1
    /\ saved = NoCheckpoint /\ closes = <<>>
    /\ pc = [p \in Procs |-> "down"]
    /\ mem = [p \in Procs |-> NoCheckpoint]
    /\ got = [p \in Procs |-> 0]
    /\ delta = [p \in Procs |-> NoDelta]
    /\ held = [p \in Procs |-> 0]
    /\ alias = [p \in Procs |-> FALSE]
    /\ crashes = 0

-----------------------------------------------------------------------------
(* The ledger changes.                                                      *)

Recorded == ToSet(ledger)

(* OrderStore.add_fill of a fill not seen before. *)
add_fill(f) ==
    /\ f \notin Recorded
    /\ ledger' = Append(ledger, f)
    /\ UNCHANGED <<rowFilled, lastChange, changeSeq, saved, closes, memory, crashes>>

(* What the venue has filled of an order, counted in units. *)
Executed(o) ==
    Cardinality(UNION {{f} \X (1 .. f.qty) : f \in {g \in Facts : g.order = o /\ ~g.synthetic}})

(* An update of the order's row, whose trigger records the change: the row  *)
(* shows what the venue has filled, which the fills recorded may trail.     *)
UpdateRow(o) ==
    /\ changeSeq <= MaxChanges
    /\ rowFilled' = [rowFilled EXCEPT ![o] = Executed(o)]
    /\ changeSeq' = changeSeq + 1
    /\ lastChange' = [lastChange EXCEPT ![o] = changeSeq']
    /\ UNCHANGED <<ledger, saved, closes, memory, crashes>>

-----------------------------------------------------------------------------
(* update                                                                   *)

At(p, here, next) == pc[p] = here /\ pc' = [pc EXCEPT ![p] = next]

(* The version of the checkpoint is compared with the one in memory. *)
CheckVersion(p) ==
    /\ At(p, "idle", IF saved.version = mem[p].version THEN "fills" ELSE "load")
    /\ UNCHANGED <<disk, mem, got, delta, held, alias, crashes>>

(* _load, first statement: the checkpoint, into new books. *)
LoadCheckpoint(p) ==
    /\ At(p, "load", "events") \/ At(p, "reload", "reevents")
    /\ mem' = [mem EXCEPT ![p] = saved]
    /\ alias' = [alias EXCEPT ![p] = FALSE]
    /\ UNCHANGED <<disk, got, delta, held, crashes>>

LoadEvents_OnlyAtStart(p) ==
    /\ \/ At(p, "events", "fills") /\ UNCHANGED got
       \/ At(p, "reevents", "idle") /\ got' = [got EXCEPT ![p] = Len(closes)]
    /\ UNCHANGED <<disk, mem, delta, held, alias, crashes>>
(* _load, second statement: the close events not delivered yet. *)
LoadEvents(p) ==
    /\ At(p, "events", "fills") \/ At(p, "reevents", "idle")
    /\ got' = [got EXCEPT ![p] = Len(closes)]
    /\ UNCHANGED <<disk, mem, delta, held, alias, crashes>>

(* projection_delta: the fills behind the cursor, ... *)
ReadFills(p) ==
    /\ At(p, "fills", "changes")
    /\ delta' = [delta EXCEPT ![p] = [NoDelta EXCEPT !.fills = Len(ledger)]]
    /\ UNCHANGED <<disk, mem, got, held, alias, crashes>>

NewFills(p) == SubSeq(ledger, mem[p].fills + 1, delta[p].fills)
ChangedSince(cursor) == {o \in Orders : lastChange[o] > cursor}

(* ... the orders changed behind the other cursor or named by these fills,  *)
ReadChanges(p) ==
    /\ At(p, "changes", "rows")
    /\ delta' = [delta EXCEPT ![p].changes = changeSeq,
                              ![p].ids = ChangedSince(mem[p].changes)
                                         \cup {f.order : f \in ToSet(NewFills(p))}]
    /\ UNCHANGED <<disk, mem, got, held, alias, crashes>>

RowsOf(ids) == [o \in Orders |-> IF o \in ids THEN rowFilled[o] ELSE 0]

ReadRows_CursorAfter(p) ==
    /\ At(p, "rows", "sums")
    /\ delta' = [delta EXCEPT ![p].rows = RowsOf(delta[p].ids), ![p].changes = changeSeq]
    /\ UNCHANGED <<disk, mem, got, held, alias, crashes>>
(* ... their rows ...                                                       *)
ReadRows(p) ==
    /\ At(p, "rows", "sums")
    /\ delta' = [delta EXCEPT ![p].rows = RowsOf(delta[p].ids)]
    /\ UNCHANGED <<disk, mem, got, held, alias, crashes>>

(* The orders reported of those looked at, beside the ones reported before. *)
OrderIssues(checkpoint, ids, rows) ==
    (checkpoint.orderIssues \ ids) \cup {o \in ids : Documented(ledger, o) # rows[o]}

News(p) == NewFills(p) # <<>> \/ delta[p].changes # mem[p].changes

(* ... and the quantity their trades account for.  With no news the books   *)
(* in memory are returned; with news _apply_fill works on them in place,    *)
(* and if the portfolio holds these very books it holds the result.         *)
ReadSums(p) ==
    /\ pc[p] = "sums"
    /\ delta' = [delta EXCEPT ![p] =
         IF News(p)
           THEN [NoDelta EXCEPT !.fills = delta[p].fills, !.changes = delta[p].changes,
                                !.orderIssues = OrderIssues(mem[p], delta[p].ids, delta[p].rows)]
           ELSE NoDelta]
    /\ pc' = [pc EXCEPT ![p] = IF News(p) THEN "save" ELSE "idle"]
    /\ held' = [held EXCEPT ![p] = IF ~News(p) THEN mem[p].fills
                                   ELSE IF alias[p] THEN delta[p].fills ELSE @]
    /\ alias' = [alias EXCEPT ![p] = @ \/ ~News(p)]
    /\ UNCHANGED <<disk, mem, got, crashes>>

(* What is saved from a checkpoint: the fills and changes up to the         *)
(* cursors of d are accounted for.                                          *)
Behind(checkpoint, d) == SubSeq(ledger, checkpoint.fills + 1, d.fills)
Proposed(checkpoint, d) ==
    LET out == Applied(checkpoint, Behind(checkpoint, d)) IN
    [version |-> checkpoint.version + 1, fills |-> d.fills, changes |-> d.changes,
     books |-> out.books, issues |-> out.issues, orderIssues |-> d.orderIssues,
     invalid |-> out.invalid, last |-> out.last]
NewCloses(checkpoint, d) == Applied(checkpoint, Behind(checkpoint, d)).closes

(* UNIQUE(projection_name, close_event_id): the id of a close event is made *)
(* of the fill and of the order whose lot it closes.                        *)
SameId(c, d) == c.fill = d.fill /\ c.order = d.order
IdsUnique(cs) == \A i, j \in DOMAIN cs : SameId(cs[i], cs[j]) => i = j

Savable(checkpoint, d) ==
    /\ saved.version = checkpoint.version
    /\ IdsUnique(closes \o NewCloses(checkpoint, d))

Commit(checkpoint, d) ==
    /\ Savable(checkpoint, d)
    /\ saved' = Proposed(checkpoint, d)
    /\ closes' = closes \o NewCloses(checkpoint, d)

(* save_projection: version, closes and checkpoint in one transaction. *)
Save(p) ==
    /\ At(p, "save", "deliver")
    /\ Commit(mem[p], delta[p])
    /\ mem' = [mem EXCEPT ![p] = saved']
    /\ UNCHANGED <<facts, got, delta, held, alias, crashes>>

(* The save raises: another process was first or an id is taken, or the     *)
(* answer is lost, with or without the commit.  update loads and raises.    *)
SaveRaises(p) ==
    /\ At(p, "save", "reload")
    /\ \/ ~Savable(mem[p], delta[p]) /\ UNCHANGED <<saved, closes>>
       \/ "interrupted" \in Faults /\ (Commit(mem[p], delta[p]) \/ UNCHANGED <<saved, closes>>)
    /\ delta' = [delta EXCEPT ![p] = NoDelta]
    /\ UNCHANGED <<facts, mem, got, held, alias, crashes>>

(* The events just saved are loaded and the update returns: the portfolio   *)
(* takes the books.                                                         *)
Deliver(p) ==
    /\ At(p, "deliver", "idle")
    /\ got' = [got EXCEPT ![p] = Len(closes)]
    /\ held' = [held EXCEPT ![p] = mem[p].fills]
    /\ alias' = [alias EXCEPT ![p] = TRUE]
    /\ delta' = [delta EXCEPT ![p] = NoDelta]
    /\ UNCHANGED <<disk, mem, crashes>>

Crash(p) ==
    /\ pc[p] # "down" /\ crashes < MaxCrashes
    /\ crashes' = crashes + 1
    /\ pc' = [pc EXCEPT ![p] = "down"]
    /\ mem' = [mem EXCEPT ![p] = NoCheckpoint]
    /\ got' = [got EXCEPT ![p] = 0]
    /\ delta' = [delta EXCEPT ![p] = NoDelta]
    /\ held' = [held EXCEPT ![p] = 0]
    /\ alias' = [alias EXCEPT ![p] = FALSE]
    /\ UNCHANGED disk

(* A new object starts with _load. *)
Restart(p) ==
    /\ At(p, "down", "reload")
    /\ UNCHANGED <<disk, mem, got, delta, held, alias, crashes>>

(* A process that opens the ledger, projects it and ends                    *)
(* (run_offline_recovery_drill.py); no one sees its memory, so its update   *)
(* is one step.                                                             *)
Drill ==
    /\ "drill" \in Faults
    /\ saved.fills < Len(ledger) \/ saved.changes < changeSeq
    /\ LET ids == ChangedSince(saved.changes)
                  \cup {ledger[i].order : i \in saved.fills + 1 .. Len(ledger)}
       IN Commit(saved, [fills |-> Len(ledger), changes |-> changeSeq,
                         orderIssues |-> OrderIssues(saved, ids, rowFilled)])
    /\ UNCHANGED <<facts, memory, crashes>>

-----------------------------------------------------------------------------
Step(p) ==
    \/ CheckVersion(p) \/ LoadCheckpoint(p) \/ LoadEvents(p)
    \/ ReadFills(p) \/ ReadChanges(p) \/ ReadRows(p) \/ ReadSums(p)
    \/ Save(p) \/ SaveRaises(p) \/ Deliver(p) \/ Restart(p)

Next ==
    \/ \E f \in Facts : add_fill(f)
    \/ \E o \in Orders : UpdateRow(o)
    \/ Drill
    \/ \E p \in Procs : Step(p) \/ Crash(p)

Spec == Init /\ [][Next]_vars

-----------------------------------------------------------------------------
(* Properties.                                                              *)

(* However the fills came in, in whatever batches and by whichever process  *)
(* they were applied, through crashes and failed saves: the books and close *)
(* events of a symbol without issues are those of all its trades in the     *)
(* order of the venue, first bought first sold, each closed once.           *)
ValidSymbolsReplay ==
    \A s \in Symbols \ saved.invalid :
        LET fs == TradesOf(SubSeq(ledger, 1, saved.fills), s)
            of(f, o) == {i \in DOMAIN closes : closes[i].fill = f.id /\ closes[i].order = o}
        IN /\ UnitsOpen(saved.books[s]) = SubSeq(Bought(fs), Sold(fs) + 1, Len(Bought(fs)))
           /\ \A k \in DOMAIN fs, o \in Orders :
                LET units == IF fs[k].order \in Opening THEN 0 ELSE UnitsClosed(fs, k, o)
                IN MapThenSumSet(LAMBDA i : closes[i].qty, of(fs[k], o)) = units
           /\ \A i \in DOMAIN closes :
                SymbolOf[closes[i].order] = s => \E k \in DOMAIN fs : closes[i].fill = fs[k].id

(* Once the cursors have caught up, exactly the orders whose trades do not  *)
(* account for what their row shows are reported, however rows and fills    *)
(* changed while they were being read.                                      *)
CaughtUpIssuesExact ==
    saved.fills = Len(ledger) /\ saved.changes = changeSeq =>
        saved.orderIssues = {o \in Orders : Documented(ledger, o) # rowFilled[o]}

(* After an update that returned, a portfolio whose books lack what a fill  *)
(* closed has been given the close events of that fill.                     *)
NoCloseMissing ==
    \A p \in Procs : pc[p] = "idle" /\ alias[p] =>
        \A i \in DOMAIN closes :
            (\E k \in 1 .. held[p] : ledger[k].id = closes[i].fill) => i <= got[p]
=============================================================================
