------------------------ MODULE FillProjection_proofs ------------------------
(***************************************************************************)
(* The fill projection with any number of processes, fills, crashes and    *)
(* failed saves: the state keeps its types, the orders it reports are the  *)
(* right ones as soon as its cursors have caught up, and no close event is *)
(* kept from a portfolio whose books show the close.                       *)
(*                                                                         *)
(* What each process has in hand is bounded by the store through the       *)
(* cursors (Cursors).  On them rest the other two invariants: what a       *)
(* checkpoint says of an order holds unless something of the order is      *)
(* behind a cursor (IssuesInv), and a process that knows a fill has its    *)
(* closes (Delivery).                                                      *)
(***************************************************************************)
EXTENDS FillProjection, OwnedLots_proofs

LEMMA ExecutedTyped == ASSUME NEW o \in Orders PROVE Executed(o) \in Nat
<1> DEFINE S == {g \in Facts : g.order = o /\ ~g.synthetic}
           units == [f \in S |-> {f} \X (1 .. f.qty)]
           T == {{f} \X (1 .. f.qty) : f \in S}
<1>1. S \in SUBSET {g \in Facts : g.order = o} /\ S \in SUBSET FillRecord
  BY FactsAssumption
<1>2. IsFiniteSet(S)
  <2>1. IsFiniteSet({g \in Facts : g.order = o})
    BY FactsAssumption
  <2> HIDE DEF S
  <2> QED BY <1>1, <2>1, FS_Subset
<1> HIDE DEF S
<1>3. units \in Surjection(S, T)
  BY DEF Surjection
<1>4. IsFiniteSet(T)
  <2> HIDE DEF units, T
  <2> QED BY <1>2, <1>3, FS_Surjection
<1>5. ASSUME NEW U \in T PROVE IsFiniteSet(U)
  <2>1. PICK f \in S : U = {f} \X (1 .. f.qty)
    OBVIOUS
  <2>2. 1 \in Int /\ f.qty \in Int
    BY <1>1 DEF FillRecord
  <2>3. IsFiniteSet(1 .. f.qty)
    BY <2>2, FS_Interval
  <2>4. IsFiniteSet({f} \X (1 .. f.qty))
    BY <2>3, FS_Singleton, FS_Product
  <2> QED BY <2>1, <2>4
<1>6. IsFiniteSet(UNION T)
  <2> HIDE DEF T
  <2> QED BY <1>4, <1>5, FS_UNION
<1>7. Executed(o) = Cardinality(UNION T)
  BY DEF Executed, S
<1> HIDE DEF T
<1> QED BY <1>6, <1>7, FS_CardinalityType

-----------------------------------------------------------------------------
(* The cursors trail what they point to, and a process that knows the       *)
(* version of the checkpoint knows the checkpoint.                          *)
Reading == {"changes", "rows", "sums", "save"}
CursorsOf(p) ==
    /\ mem[p].fills <= saved.fills /\ mem[p].changes <= changeSeq
    /\ mem[p].version <= saved.version
    /\ mem[p].version = saved.version => mem[p] = saved
    /\ pc[p] \in Reading => mem[p].fills <= delta[p].fills /\ delta[p].fills <= Len(ledger)
    /\ pc[p] \in Reading \ {"changes"} => delta[p].changes <= changeSeq
Cursors ==
    /\ saved.fills <= Len(ledger) /\ saved.changes <= changeSeq
    /\ saved.version = 0 => saved = NoCheckpoint
    /\ \A o \in Orders : 0 < lastChange[o] /\ lastChange[o] <= changeSeq
    /\ \A p \in Procs : CursorsOf(p)
    /\ \A i, j \in DOMAIN ledger : ledger[i] = ledger[j] => i = j

LEMMA LedgerTyped == ASSUME TypeOK PROVE ledger \in Seq(FillRecord) /\ Len(ledger) \in Nat
                                         /\ DOMAIN ledger = 1 .. Len(ledger)
                                         /\ \A i \in DOMAIN ledger : ledger[i] \in Facts /\ ledger[i].id \in Nat
                                                                     /\ ledger[i].order \in Orders
<1>1. ledger \in Seq(Facts) /\ Facts \subseteq FillRecord
  BY FactsAssumption DEF TypeOK
<1>2. ledger \in Seq(FillRecord)
  BY <1>1, LargerSeq
<1>3. \A f \in FillRecord : f.id \in Nat /\ f.order \in Orders
  BY DEF FillRecord
<1> QED BY <1>1, <1>2, <1>3

(* What is saved, from a checkpoint and the fills up to a later cursor.     *)
LEMMA ProposedTyped ==
    ASSUME TypeOK, NEW c \in Checkpoint, NEW d, d.fills \in Nat, d.changes \in Nat,
           d.orderIssues \in SUBSET Orders, c.fills <= d.fills, d.fills <= Len(ledger)
    PROVE  /\ Proposed(c, d) \in Checkpoint
           /\ NewCloses(c, d) \in Seq(Close)
           /\ \A i \in DOMAIN NewCloses(c, d) :
                \E k \in c.fills + 1 .. d.fills : NewCloses(c, d)[i].fill = ledger[k].id
<1> DEFINE fs == Behind(c, d)
           out == Applied(c, fs)
<1>1. /\ ledger \in Seq(FillRecord) /\ Len(ledger) \in Nat /\ DOMAIN ledger = 1 .. Len(ledger)
      /\ c.fills \in Nat /\ c.version \in Nat
  BY LedgerTyped DEF Checkpoint
<1>2. /\ fs \in Seq(FillRecord)
      /\ \A i \in DOMAIN fs : c.fills + i \in c.fills + 1 .. d.fills /\ fs[i] = ledger[c.fills + i]
  <2>1. Behind(c, d) = SubSeq(ledger, c.fills + 1, d.fills)
    BY DEF Behind
  <2>2. /\ SubSeq(ledger, c.fills + 1, d.fills) \in Seq(FillRecord)
        /\ DOMAIN SubSeq(ledger, c.fills + 1, d.fills) = 1 .. d.fills - c.fills
        /\ \A i \in 1 .. d.fills - c.fills :
             /\ SubSeq(ledger, c.fills + 1, d.fills)[i] = ledger[c.fills + i]
             /\ c.fills + i \in c.fills + 1 .. d.fills
    BY <1>1, FillsBetween
  <2> QED BY <2>1, <2>2
<1>3. Books(c)
  BY DEF Checkpoint, Books
<1> HIDE DEF fs
<1>4. out \in Work(IdsOf(fs))
  BY <1>2, <1>3, AppliedTyped
<1>5. /\ out.books \in [Symbols -> Seq(Lot)] /\ out.issues \in SUBSET Nat
      /\ out.invalid \in SUBSET Symbols /\ out.last \in Nat /\ out.closes \in Seq(ClosesOf(IdsOf(fs)))
  BY <1>4 DEF Work
<1>6. IdsOf(fs) \in SUBSET {ledger[k].id : k \in c.fills + 1 .. d.fills}
  BY <1>2 DEF IdsOf
<1>7. ClosesOf(IdsOf(fs)) \subseteq Close
  <2>1. \A k \in c.fills + 1 .. d.fills : ledger[k].id \in Nat
    <3>1. ASSUME NEW k \in c.fills + 1 .. d.fills PROVE k \in DOMAIN ledger
      BY <1>1
    <3> QED BY <3>1, LedgerTyped
  <2> QED BY <1>6, <2>1 DEF ClosesOf, Close
<1>8. NewCloses(c, d) = out.closes
  BY DEF NewCloses, fs
<1>9. \A i \in DOMAIN out.closes : out.closes[i].fill \in IdsOf(fs)
  <2>1. \A i \in DOMAIN out.closes : out.closes[i] \in ClosesOf(IdsOf(fs))
    <3> HIDE DEF out
    <3> QED BY <1>5
  <2>2. \A e \in ClosesOf(IdsOf(fs)) : e.fill \in IdsOf(fs)
    BY DEF ClosesOf
  <2> HIDE DEF out
  <2> QED BY <2>1, <2>2
<1>10. Proposed(c, d) = [version |-> c.version + 1, fills |-> d.fills, changes |-> d.changes,
     books |-> out.books, issues |-> out.issues, orderIssues |-> d.orderIssues,
     invalid |-> out.invalid, last |-> out.last]
  BY DEF Proposed, fs
<1> HIDE DEF out
<1>11. Proposed(c, d) \in Checkpoint
  BY <1>1, <1>5, <1>10 DEF Checkpoint
<1>12. out.closes \in Seq(Close)
  BY <1>5, <1>7, LargerSeq
<1> QED BY <1>6, <1>8, <1>9, <1>11, <1>12

Sendable(c, d) ==
    /\ c \in Checkpoint /\ d.fills \in Nat /\ d.changes \in Nat /\ d.orderIssues \in SUBSET Orders
    /\ c.fills <= d.fills /\ d.fills <= Len(ledger)

LEMMA CommitTyped ==
    ASSUME TypeOK, NEW c, NEW d, Sendable(c, d), Commit(c, d)
    PROVE  /\ saved' \in Checkpoint /\ closes' \in Seq(Close)
           /\ saved'.version = saved.version + 1 /\ saved'.fills = d.fills
           /\ saved'.changes = d.changes /\ saved'.orderIssues = d.orderIssues
           /\ c.version = saved.version /\ closes' = closes \o NewCloses(c, d)
<1>1. Proposed(c, d) \in Checkpoint /\ NewCloses(c, d) \in Seq(Close)
  BY ProposedTyped DEF Sendable
<1>2. saved' = Proposed(c, d) /\ closes' = closes \o NewCloses(c, d) /\ c.version = saved.version
  BY DEF Commit, Savable
<1>3. closes \in Seq(Close)
  BY DEF TypeOK
<1>4. /\ Proposed(c, d).version = c.version + 1 /\ Proposed(c, d).fills = d.fills
      /\ Proposed(c, d).changes = d.changes /\ Proposed(c, d).orderIssues = d.orderIssues
  BY DEF Proposed
<1>5. closes \o NewCloses(c, d) \in Seq(Close)
  <2> HIDE DEF NewCloses
  <2> QED BY <1>1, <1>3
<1> QED BY <1>1, <1>2, <1>4, <1>5

LEMMA SaveSendable ==
    ASSUME TypeOK, Cursors, NEW p \in Procs, pc[p] = "save"
    PROVE  Sendable(mem[p], delta[p])
<1>1. mem[p] \in Checkpoint /\ delta[p] \in Delta
  BY DEF TypeOK
<1>2. mem[p].fills <= delta[p].fills /\ delta[p].fills <= Len(ledger)
  BY DEF Cursors, CursorsOf, Reading
<1> QED BY <1>1, <1>2 DEF Sendable, Delta

Drilled ==
    LET ids == ChangedSince(saved.changes)
               \cup {ledger[i].order : i \in saved.fills + 1 .. Len(ledger)}
    IN [fills |-> Len(ledger), changes |-> changeSeq,
        orderIssues |-> OrderIssues(saved, ids, rowFilled)]

LEMMA DrillSendable ==
    ASSUME TypeOK, Cursors, Drill
    PROVE  Sendable(saved, Drilled) /\ Commit(saved, Drilled)
<1>1. saved \in Checkpoint /\ changeSeq \in Nat
  BY DEF TypeOK
<1>2. Len(ledger) \in Nat /\ saved.fills <= Len(ledger)
  BY LedgerTyped DEF Cursors
<1>3. saved.orderIssues \in SUBSET Orders
  BY <1>1 DEF Checkpoint
<1>4. \A i \in saved.fills + 1 .. Len(ledger) : ledger[i].order \in Orders
  <2>1. ASSUME NEW i \in saved.fills + 1 .. Len(ledger) PROVE i \in DOMAIN ledger
    <3>1. saved.fills \in Nat
      BY <1>1 DEF Checkpoint
    <3> QED BY <1>2, <3>1, LedgerTyped
  <2> QED BY <2>1, LedgerTyped
<1>5. Drilled.orderIssues \in SUBSET Orders
  BY <1>3, <1>4 DEF Drilled, OrderIssues, ChangedSince
<1>6. Commit(saved, Drilled)
  BY DEF Drill, Drilled
<1> QED BY <1>1, <1>2, <1>5, <1>6 DEF Sendable, Drilled

LEMMA InitCorrect == Init => TypeOK /\ Cursors
<1> SUFFICES ASSUME Init PROVE TypeOK /\ Cursors
  OBVIOUS
<1>1. NoCheckpoint \in Checkpoint /\ NoDelta \in Delta
  <2>1. EmptyBooks \in [Symbols -> Seq(Lot)]
    BY DEF EmptyBooks
  <2> QED BY <2>1 DEF NoCheckpoint, Checkpoint, NoDelta, Delta
<1>2. TypeOK
  BY <1>1, BoundsAssumption DEF Init, TypeOK, PCs
<1>3. NoCheckpoint.fills = 0 /\ NoCheckpoint.changes = 0 /\ NoCheckpoint.version = 0
  BY DEF NoCheckpoint
<1>4. Cursors
  BY <1>3 DEF Init, Cursors, CursorsOf, Reading
<1> QED BY <1>2, <1>4

(* A process that has read the ledger wants what it saves to be typed.      *)
LEMMA TypeStep == TypeOK /\ Cursors /\ [Next]_vars => TypeOK'
<1> SUFFICES ASSUME TypeOK, Cursors, [Next]_vars PROVE TypeOK'
  OBVIOUS
<1>0. NoCheckpoint \in Checkpoint /\ NoDelta \in Delta
  <2>1. EmptyBooks \in [Symbols -> Seq(Lot)]
    BY DEF EmptyBooks
  <2> QED BY <2>1 DEF NoCheckpoint, Checkpoint, NoDelta, Delta
<1>a. Len(ledger) \in Nat /\ Len(closes) \in Nat /\ \A i \in DOMAIN ledger : ledger[i].order \in Orders
  BY LedgerTyped DEF TypeOK
<1>1. ASSUME NEW f \in Facts, add_fill(f) PROVE TypeOK'
  BY <1>1 DEF add_fill, TypeOK, memory
<1>2. ASSUME NEW o \in Orders, UpdateRow(o) PROVE TypeOK'
  BY <1>2, ExecutedTyped DEF UpdateRow, TypeOK, memory
<1>3. CASE Drill
  <2>1. saved' \in Checkpoint /\ closes' \in Seq(Close)
    BY <1>3, DrillSendable, CommitTyped
  <2> QED BY <1>3, <2>1 DEF Drill, TypeOK, facts, memory
<1>4. ASSUME NEW p \in Procs, Step(p) PROVE TypeOK'
  <2>1. CASE CheckVersion(p)
    BY <2>1 DEF CheckVersion, At, TypeOK, disk, PCs
  <2>2. CASE LoadCheckpoint(p)
    BY <2>2 DEF LoadCheckpoint, At, TypeOK, disk, PCs
  <2>3. CASE LoadEvents(p)
    BY <2>3, <1>a DEF LoadEvents, At, TypeOK, disk, PCs
  <2>4. CASE ReadFills(p)
    <3>1. [NoDelta EXCEPT !.fills = Len(ledger)] \in Delta
      BY <1>0, <1>a DEF Delta
    <3> QED BY <2>4, <3>1 DEF ReadFills, At, TypeOK, disk, PCs
  <2>5. CASE ReadChanges(p)
    <3>1. delta[p] \in Delta /\ mem[p] \in Checkpoint /\ changeSeq \in Nat
      BY DEF TypeOK
    <3>2. {f.order : f \in ToSet(NewFills(p))} \in SUBSET Orders
      <4>1. ledger \in Seq(FillRecord) /\ mem[p].fills \in Nat /\ delta[p].fills \in Nat
            /\ mem[p].fills <= delta[p].fills /\ delta[p].fills <= Len(ledger)
        BY <2>5, <3>1, LedgerTyped DEF Checkpoint, Delta, Cursors, CursorsOf, Reading, ReadChanges, At
      <4>2. NewFills(p) \in Seq(FillRecord)
        BY <4>1, FillsBetween DEF NewFills
      <4>3. \A i \in DOMAIN NewFills(p) : NewFills(p)[i].order \in Orders
        BY <4>2, KeysOfFills DEF FillRecord
      <4> QED BY <4>3 DEF ToSet
    <3>3. [delta[p] EXCEPT !.changes = changeSeq,
              !.ids = ChangedSince(mem[p].changes) \cup {f.order : f \in ToSet(NewFills(p))}] \in Delta
      BY <3>1, <3>2 DEF Delta, ChangedSince
    <3>4. delta' = [delta EXCEPT ![p] = [delta[p] EXCEPT !.changes = changeSeq,
              !.ids = ChangedSince(mem[p].changes) \cup {f.order : f \in ToSet(NewFills(p))}]]
      BY <2>5 DEF ReadChanges, TypeOK
    <3>5. delta' \in [Procs -> Delta]
      BY <3>3, <3>4 DEF TypeOK
    <3> QED BY <2>5, <3>5 DEF ReadChanges, At, TypeOK, disk, PCs
  <2>6. CASE ReadRows(p)
    <3>1. [delta[p] EXCEPT !.rows = RowsOf(delta[p].ids)] \in Delta
      BY DEF TypeOK, Delta, RowsOf
    <3>2. delta' = [delta EXCEPT ![p] = [delta[p] EXCEPT !.rows = RowsOf(delta[p].ids)]]
      BY <2>6 DEF ReadRows
    <3>3. delta' \in [Procs -> Delta]
      BY <3>1, <3>2 DEF TypeOK
    <3> QED BY <2>6, <3>3 DEF ReadRows, At, TypeOK, disk, PCs
  <2>7. CASE ReadSums(p)
    <3>1. delta[p] \in Delta /\ mem[p] \in Checkpoint
      BY DEF TypeOK
    <3>2. OrderIssues(mem[p], delta[p].ids, delta[p].rows) \in SUBSET Orders
      BY <3>1 DEF OrderIssues, Delta, Checkpoint
    <3>3. [NoDelta EXCEPT !.fills = delta[p].fills, !.changes = delta[p].changes,
              !.orderIssues = OrderIssues(mem[p], delta[p].ids, delta[p].rows)] \in Delta
      BY <1>0, <3>1, <3>2 DEF Delta
    <3>4. delta' \in [Procs -> Delta]
      BY <1>0, <2>7, <3>3 DEF ReadSums, TypeOK
    <3>5. mem[p].fills \in Nat /\ delta[p].fills \in Nat
      BY <3>1 DEF Checkpoint, Delta
    <3>6. held' \in [Procs -> Nat] /\ alias' \in [Procs -> BOOLEAN]
      BY <2>7, <3>5 DEF ReadSums, TypeOK
    <3>7. pc' \in [Procs -> PCs]
      BY <2>7 DEF ReadSums, TypeOK, PCs
    <3> QED BY <2>7, <3>4, <3>6, <3>7 DEF ReadSums, TypeOK, disk
  <2>8. CASE Save(p)
    <3>1. saved' \in Checkpoint /\ closes' \in Seq(Close)
      BY <2>8, SaveSendable, CommitTyped DEF Save, At
    <3> QED BY <2>8, <3>1 DEF Save, At, TypeOK, facts, PCs
  <2>9. CASE SaveRaises(p)
    <3>1. saved' \in Checkpoint /\ closes' \in Seq(Close)
      <4>1. CASE UNCHANGED <<saved, closes>>
        BY <4>1 DEF TypeOK
      <4>2. CASE Commit(mem[p], delta[p])
        BY <2>9, <4>2, SaveSendable, CommitTyped DEF SaveRaises, At
      <4> QED BY <2>9, <4>1, <4>2 DEF SaveRaises
    <3> QED BY <1>0, <2>9, <3>1 DEF SaveRaises, At, TypeOK, facts, PCs
  <2>10. CASE Deliver(p)
    <3>1. mem[p].fills \in Nat
      BY DEF TypeOK, Checkpoint
    <3> QED BY <1>0, <1>a, <2>10, <3>1 DEF Deliver, At, TypeOK, disk, PCs
  <2>11. CASE Restart(p)
    BY <2>11 DEF Restart, At, TypeOK, disk, PCs
  <2> QED BY <1>4, <2>1, <2>2, <2>3, <2>4, <2>5, <2>6, <2>7, <2>8, <2>9, <2>10, <2>11 DEF Step
<1>5. ASSUME NEW p \in Procs, Crash(p) PROVE TypeOK'
  BY <1>0, <1>5, BoundsAssumption DEF Crash, TypeOK, disk, PCs
<1>6. CASE UNCHANGED vars
  BY <1>6 DEF vars, TypeOK
<1> QED BY <1>1, <1>2, <1>3, <1>4, <1>5, <1>6 DEF Next

(* A save moves the checkpoint on; no one else knows its new version.       *)
LEMMA CommitKeepsCursors ==
    ASSUME TypeOK, Cursors, NEW c, NEW d, Sendable(c, d), Commit(c, d),
           c.version = saved.version => c = saved, d.changes <= changeSeq, UNCHANGED facts
    PROVE  /\ saved.fills <= saved'.fills /\ saved'.fills <= Len(ledger)
           /\ saved'.changes <= changeSeq /\ saved'.version = saved.version + 1
           /\ saved'.version # 0 /\ saved' \in Checkpoint
<1>1. /\ saved' \in Checkpoint /\ saved'.version = saved.version + 1 /\ saved'.fills = d.fills
      /\ saved'.changes = d.changes /\ c.version = saved.version
  BY CommitTyped
<1>2. saved.version \in Nat
  BY DEF TypeOK, Checkpoint
<1> QED BY <1>1, <1>2 DEF Sendable

LEMMA CursorsStep == TypeOK /\ Cursors /\ [Next]_vars => Cursors'
<1> SUFFICES ASSUME TypeOK, Cursors, [Next]_vars PROVE Cursors'
  OBVIOUS
<1>a. /\ Len(ledger) \in Nat /\ changeSeq \in Nat
      /\ saved.fills \in Nat /\ saved.changes \in Nat /\ saved.version \in Nat
      /\ \A p \in Procs : /\ mem[p].fills \in Nat /\ mem[p].changes \in Nat /\ mem[p].version \in Nat
                          /\ delta[p].fills \in Nat /\ delta[p].changes \in Nat
  BY LedgerTyped DEF TypeOK, Checkpoint, Delta
<1>b. NoCheckpoint.fills = 0 /\ NoCheckpoint.changes = 0 /\ NoCheckpoint.version = 0
  BY DEF NoCheckpoint
<1>1. ASSUME NEW f \in Facts, add_fill(f) PROVE Cursors'
  <2>1. /\ Len(ledger') = Len(ledger) + 1
        /\ \A i, j \in DOMAIN ledger' : ledger'[i] = ledger'[j] => i = j
    <3>1. ledger \in Seq(Facts) /\ ledger' = Append(ledger, f) /\ \A i \in DOMAIN ledger : ledger[i] # f
      BY <1>1 DEF TypeOK, add_fill, Recorded, ToSet
    <3> QED BY <3>1 DEF Cursors
  <2>2. ASSUME NEW p \in Procs PROVE CursorsOf(p)'
    BY <1>1, <1>a, <2>1 DEF add_fill, memory, Cursors, CursorsOf
  <2> QED BY <1>1, <1>a, <2>1, <2>2 DEF add_fill, memory, Cursors
<1>2. ASSUME NEW o \in Orders, UpdateRow(o) PROVE Cursors'
  <2>1. changeSeq' = changeSeq + 1 /\ \A u \in Orders : 0 < lastChange'[u] /\ lastChange'[u] <= changeSeq'
    <3>1. /\ changeSeq' = changeSeq + 1 /\ lastChange' = [lastChange EXCEPT ![o] = changeSeq']
          /\ lastChange \in [Orders -> Nat]
      BY <1>2 DEF UpdateRow, TypeOK
    <3> QED BY <1>a, <3>1 DEF Cursors
  <2>2. ASSUME NEW p \in Procs PROVE CursorsOf(p)'
    BY <1>2, <1>a, <2>1 DEF UpdateRow, memory, Cursors, CursorsOf, Reading
  <2> QED BY <1>2, <1>a, <2>1, <2>2 DEF UpdateRow, memory, Cursors
<1>3. CASE Drill
  <2>1. /\ saved.fills <= saved'.fills /\ saved'.fills <= Len(ledger)
        /\ saved'.changes <= changeSeq /\ saved'.version = saved.version + 1
        /\ saved'.version # 0 /\ UNCHANGED <<facts, memory>> /\ saved' \in Checkpoint
    <3>1. UNCHANGED <<facts, memory>>
      BY <1>3 DEF Drill
    <3>2. Drilled.changes <= changeSeq
      BY <1>a DEF Drilled
    <3> QED BY <1>3, <3>1, <3>2, DrillSendable, CommitKeepsCursors
  <2>2. saved'.fills \in Nat
    BY <2>1 DEF Checkpoint
  <2>3. ASSUME NEW p \in Procs PROVE CursorsOf(p)'
    BY <1>a, <2>1, <2>2 DEF facts, memory, Cursors, CursorsOf
  <2> QED BY <2>1, <2>3 DEF facts, memory, Cursors
<1>4. ASSUME NEW p \in Procs, Step(p) PROVE Cursors'
  <2>0. ASSUME UNCHANGED <<facts, saved>>, \A q \in Procs : CursorsOf(q)' PROVE Cursors'
    BY <2>0 DEF Cursors, facts
  <2>1. CASE CheckVersion(p)
    <3>1. ASSUME NEW q \in Procs PROVE CursorsOf(q)'
      BY <2>1 DEF CheckVersion, At, disk, TypeOK, Cursors, CursorsOf, Reading
    <3> QED BY <2>0, <2>1, <3>1 DEF CheckVersion, disk, facts
  <2>2. CASE LoadCheckpoint(p)
    <3>1. ASSUME NEW q \in Procs PROVE CursorsOf(q)'
      BY <1>a, <2>2 DEF LoadCheckpoint, At, disk, TypeOK, Cursors, CursorsOf, Reading
    <3> QED BY <2>0, <2>2, <3>1 DEF LoadCheckpoint, disk, facts
  <2>3. CASE LoadEvents(p)
    <3>1. ASSUME NEW q \in Procs PROVE CursorsOf(q)'
      BY <2>3 DEF LoadEvents, At, disk, TypeOK, Cursors, CursorsOf, Reading
    <3> QED BY <2>0, <2>3, <3>1 DEF LoadEvents, disk, facts
  <2>4. CASE ReadFills(p)
    <3>1. ASSUME NEW q \in Procs PROVE CursorsOf(q)'
      <4>1. CASE q = p
        <5>1. delta'[p].fills = Len(ledger) /\ pc'[p] = "changes"
          BY <2>4 DEF ReadFills, At, TypeOK, NoDelta
        <5>2. mem[p].fills <= Len(ledger)
          BY <1>a DEF Cursors, CursorsOf
        <5> QED BY <1>a, <2>4, <4>1, <5>1, <5>2 DEF ReadFills, disk, Cursors, CursorsOf, Reading
      <4>2. CASE q # p
        BY <2>4, <4>2 DEF ReadFills, At, disk, TypeOK, Cursors, CursorsOf, Reading
      <4> QED BY <4>1, <4>2
    <3> QED BY <2>0, <2>4, <3>1 DEF ReadFills, disk, facts
  <2>5. CASE ReadChanges(p)
    <3>1. ASSUME NEW q \in Procs PROVE CursorsOf(q)'
      <4>1. CASE q = p
        <5>1. delta[p] \in Delta
          BY DEF TypeOK
        <5>2. delta'[p].fills = delta[p].fills /\ delta'[p].changes = changeSeq /\ pc'[p] = "rows" /\ pc[p] = "changes"
          BY <2>5, <5>1 DEF ReadChanges, At, TypeOK, Delta
        <5> QED BY <1>a, <2>5, <4>1, <5>2 DEF ReadChanges, disk, Cursors, CursorsOf, Reading
      <4>2. CASE q # p
        BY <2>5, <4>2 DEF ReadChanges, At, disk, TypeOK, Cursors, CursorsOf, Reading
      <4> QED BY <4>1, <4>2
    <3> QED BY <2>0, <2>5, <3>1 DEF ReadChanges, disk, facts
  <2>6. CASE ReadRows(p)
    <3>1. ASSUME NEW q \in Procs PROVE CursorsOf(q)'
      <4>1. CASE q = p
        <5>1. delta[p] \in Delta
          BY DEF TypeOK
        <5>2. delta'[p].fills = delta[p].fills /\ delta'[p].changes = delta[p].changes /\ pc'[p] = "sums" /\ pc[p] = "rows"
          BY <2>6, <5>1 DEF ReadRows, At, TypeOK, Delta
        <5> QED BY <1>a, <2>6, <4>1, <5>2 DEF ReadRows, disk, Cursors, CursorsOf, Reading
      <4>2. CASE q # p
        BY <2>6, <4>2 DEF ReadRows, At, disk, TypeOK, Cursors, CursorsOf, Reading
      <4> QED BY <4>1, <4>2
    <3> QED BY <2>0, <2>6, <3>1 DEF ReadRows, disk, facts
  <2>7. CASE ReadSums(p)
    <3>1. ASSUME NEW q \in Procs PROVE CursorsOf(q)'
      <4>1. CASE q = p
        <5>1. CASE News(p)
          <6>1. delta'[p].fills = delta[p].fills /\ delta'[p].changes = delta[p].changes /\ pc'[p] = "save" /\ pc[p] = "sums"
            BY <2>7, <5>1 DEF ReadSums, TypeOK, NoDelta
          <6> QED BY <1>a, <2>7, <4>1, <6>1 DEF ReadSums, disk, Cursors, CursorsOf, Reading
        <5>2. CASE ~News(p)
          <6>1. pc'[p] = "idle"
            BY <2>7, <5>2 DEF ReadSums, TypeOK
          <6> QED BY <1>a, <2>7, <4>1, <6>1 DEF ReadSums, disk, Cursors, CursorsOf, Reading
        <5> QED BY <5>1, <5>2
      <4>2. CASE q # p
        BY <2>7, <4>2 DEF ReadSums, disk, TypeOK, Cursors, CursorsOf, Reading
      <4> QED BY <4>1, <4>2
    <3> QED BY <2>0, <2>7, <3>1 DEF ReadSums, disk, facts
  <2>8. ASSUME pc[p] = "save", Commit(mem[p], delta[p]), UNCHANGED facts
        PROVE  /\ saved.fills <= saved'.fills /\ saved'.fills <= Len(ledger)
               /\ saved'.changes <= changeSeq /\ saved'.version = saved.version + 1
               /\ saved'.version # 0 /\ saved' \in Checkpoint
    <3>1. delta[p].changes <= changeSeq /\ (mem[p].version = saved.version => mem[p] = saved)
      BY <2>8 DEF Cursors, CursorsOf, Reading
    <3> QED BY <2>8, <3>1, SaveSendable, CommitKeepsCursors
  <2>9. CASE Save(p)
    <3>1. /\ saved.fills <= saved'.fills /\ saved'.fills <= Len(ledger)
          /\ saved'.changes <= changeSeq /\ saved'.version = saved.version + 1
          /\ saved'.version # 0 /\ saved' \in Checkpoint
      BY <2>8, <2>9 DEF Save, At
    <3>2. saved'.fills \in Nat
      BY <3>1 DEF Checkpoint
    <3>3. ASSUME NEW q \in Procs PROVE CursorsOf(q)'
      <4>1. CASE q = p
        <5>1. mem'[p] = saved' /\ pc'[p] = "deliver"
          BY <2>9 DEF Save, At, TypeOK
        <5> QED BY <1>a, <2>9, <3>1, <3>2, <4>1, <5>1 DEF Save, facts, CursorsOf, Reading
      <4>2. CASE q # p
        <5>1. mem'[q] = mem[q] /\ pc'[q] = pc[q] /\ UNCHANGED <<facts, delta>>
          BY <2>9, <4>2 DEF Save, At, TypeOK
        <5> QED BY <1>a, <3>1, <3>2, <5>1 DEF facts, Cursors, CursorsOf, Reading
      <4> QED BY <4>1, <4>2
    <3> QED BY <2>9, <3>1, <3>3 DEF Save, facts, Cursors
  <2>10. CASE SaveRaises(p)
    <3>1. CASE UNCHANGED <<saved, closes>>
      <4>1. ASSUME NEW q \in Procs PROVE CursorsOf(q)'
        BY <2>10, <3>1 DEF SaveRaises, At, facts, TypeOK, Cursors, CursorsOf, Reading
      <4> QED BY <2>0, <2>10, <3>1, <4>1 DEF SaveRaises
    <3>2. CASE Commit(mem[p], delta[p])
      <4>1. /\ saved.fills <= saved'.fills /\ saved'.fills <= Len(ledger)
            /\ saved'.changes <= changeSeq /\ saved'.version = saved.version + 1
            /\ saved'.version # 0 /\ saved' \in Checkpoint
        BY <2>8, <2>10, <3>2 DEF SaveRaises, At
      <4>2. saved'.fills \in Nat
        BY <4>1 DEF Checkpoint
      <4>3. ASSUME NEW q \in Procs PROVE CursorsOf(q)'
        <5>1. /\ mem' = mem /\ UNCHANGED facts
              /\ pc'[q] \in Reading => q # p /\ pc'[q] = pc[q] /\ delta'[q] = delta[q]
          BY <2>10 DEF SaveRaises, At, TypeOK, Reading
        <5> QED BY <1>a, <4>1, <4>2, <5>1 DEF facts, Cursors, CursorsOf, Reading
      <4> QED BY <2>10, <4>1, <4>3 DEF SaveRaises, facts, Cursors
    <3> QED BY <2>10, <3>1, <3>2 DEF SaveRaises
  <2>11. CASE Deliver(p)
    <3>1. ASSUME NEW q \in Procs PROVE CursorsOf(q)'
      BY <2>11 DEF Deliver, At, disk, TypeOK, Cursors, CursorsOf, Reading
    <3> QED BY <2>0, <2>11, <3>1 DEF Deliver, disk, facts
  <2>12. CASE Restart(p)
    <3>1. ASSUME NEW q \in Procs PROVE CursorsOf(q)'
      BY <2>12 DEF Restart, At, disk, TypeOK, Cursors, CursorsOf, Reading
    <3> QED BY <2>0, <2>12, <3>1 DEF Restart, disk, facts
  <2> QED BY <1>4, <2>1, <2>2, <2>3, <2>4, <2>5, <2>6, <2>7, <2>9, <2>10, <2>11, <2>12 DEF Step
<1>5. ASSUME NEW p \in Procs, Crash(p) PROVE Cursors'
  <2>1. ASSUME NEW q \in Procs PROVE CursorsOf(q)'
    <3>1. CASE q = p
      <4>1. mem'[p] = NoCheckpoint /\ pc'[p] = "down" /\ UNCHANGED disk
        BY <1>5 DEF Crash, TypeOK
      <4> QED BY <1>a, <1>b, <3>1, <4>1 DEF disk, Cursors, CursorsOf, Reading
    <3>2. CASE q # p
      BY <1>5, <3>2 DEF Crash, disk, TypeOK, Cursors, CursorsOf, Reading
    <3> QED BY <3>1, <3>2
  <2> QED BY <1>5, <2>1 DEF Crash, disk, Cursors
<1>6. CASE UNCHANGED vars
  <2>1. ASSUME NEW q \in Procs PROVE CursorsOf(q)'
    BY <1>6 DEF vars, Cursors, CursorsOf
  <2> QED BY <1>6, <2>1 DEF vars, Cursors
<1> QED BY <1>1, <1>2, <1>3, <1>4, <1>5, <1>6 DEF Next

(* Whatever processes, crashes and failed saves do, every variable keeps   *)
(* its range.                                                               *)
THEOREM TypeCorrect == Spec => []TypeOK
<1>1. Init => TypeOK /\ Cursors
  BY InitCorrect
<1>2. TypeOK /\ Cursors /\ [Next]_vars => (TypeOK /\ Cursors)'
  BY TypeStep, CursorsStep
<1> QED BY <1>1, <1>2, PTL DEF Spec

-----------------------------------------------------------------------------
(* What a checkpoint says of an order is right, as long as neither a fill   *)
(* nor a change of the order is behind its cursors.                         *)
Exact(c, fs, last, rows) ==
    \A o \in Orders :
        /\ last[o] <= c.changes
        /\ \A i \in c.fills + 1 .. Len(fs) : fs[i].order # o
        => (o \in c.orderIssues <=> Documented(fs, o) # rows[o])

ExactNow(c) == Exact(c, ledger, lastChange, rowFilled)

(* The orders looked at are those of the fills and the changes in between.  *)
LooksAtAll(p) ==
    /\ \A o \in Orders :
         mem[p].changes < lastChange[o] /\ lastChange[o] <= delta[p].changes => o \in delta[p].ids
    /\ \A i \in mem[p].fills + 1 .. delta[p].fills : ledger[i].order \in delta[p].ids
RowsAsRead(p) ==
    \A o \in delta[p].ids : lastChange[o] <= delta[p].changes => delta[p].rows[o] = rowFilled[o]

IssuesOf(p) ==
    /\ ExactNow(mem[p])
    /\ pc[p] = "save" => ExactNow(delta[p])
    /\ pc[p] \in {"rows", "sums"} => LooksAtAll(p)
    /\ pc[p] = "sums" => RowsAsRead(p)
IssuesInv == ExactNow(saved) /\ \A p \in Procs : IssuesOf(p)

(* A new fill is behind the cursor of whoever looked before.                *)
LEMMA ExactAfterFill ==
    ASSUME NEW c, NEW fs \in Seq(FillRecord), NEW last, NEW rows, NEW f \in FillRecord,
           c.fills \in Nat, c.fills <= Len(fs), Exact(c, fs, last, rows)
    PROVE  Exact(c, Append(fs, f), last, rows)
<1> DEFINE more == Append(fs, f)
<1>1. /\ Len(fs) \in Nat /\ Len(more) = Len(fs) + 1 /\ more[Len(fs) + 1] = f
      /\ \A i \in 1 .. Len(fs) : more[i] = fs[i]
  BY KeysOfFills
<1> SUFFICES ASSUME NEW o \in Orders, last[o] <= c.changes,
                    \A i \in c.fills + 1 .. Len(more) : more[i].order # o
             PROVE  o \in c.orderIssues <=> Documented(more, o) # rows[o]
  BY DEF Exact
<1>2. f.order # o
  <2>1. Len(fs) + 1 \in c.fills + 1 .. Len(more)
    BY <1>1
  <2> QED BY <1>1, <2>1
<1>3. \A i \in c.fills + 1 .. Len(fs) : fs[i].order # o
  <2>1. \A i \in c.fills + 1 .. Len(fs) : i \in c.fills + 1 .. Len(more) /\ i \in 1 .. Len(fs)
    BY <1>1
  <2> QED BY <1>1, <2>1
<1>4. Documented(more, o) = Documented(fs, o)
  <2>1. Documented(more, o) = Documented(fs, o) + 0 /\ Documented(fs, o) \in Nat
    BY <1>2, DocumentedGrows, DocumentedTyped
  <2> QED BY <2>1
<1> QED BY <1>3, <1>4 DEF Exact

(* So is a change of a row.                                                 *)
LEMMA ExactAfterChange ==
    ASSUME NEW c, NEW fs, NEW last, NEW rows, NEW last2, NEW rows2, NEW o \in Orders,
           \A u \in Orders \ {o} : last2[u] = last[u] /\ rows2[u] = rows[u],
           ~(last2[o] <= c.changes), Exact(c, fs, last, rows)
    PROVE  Exact(c, fs, last2, rows2)
  BY DEF Exact

LEMMA ExactOfFields ==
    ASSUME NEW c, NEW d, NEW fs, NEW last, NEW rows, Exact(c, fs, last, rows),
           d.fills = c.fills, d.changes = c.changes, d.orderIssues = c.orderIssues
    PROVE  Exact(d, fs, last, rows)
  BY DEF Exact

(* The orders reported: the ones looked at as their rows and trades say,    *)
(* the others as before.                                                    *)
LEMMA OrderIssuesExact ==
    ASSUME TypeOK, NEW c, NEW d, NEW ids, NEW rows,
           c.fills \in Nat, d.fills \in Nat, c.changes \in Nat, d.changes \in Nat,
           ExactNow(c), d.orderIssues = OrderIssues(c, ids, rows),
           \A o \in Orders : c.changes < lastChange[o] /\ lastChange[o] <= d.changes => o \in ids,
           \A i \in c.fills + 1 .. d.fills : ledger[i].order \in ids,
           \A o \in ids : lastChange[o] <= d.changes => rows[o] = rowFilled[o]
    PROVE  ExactNow(d)
<1> SUFFICES ASSUME NEW o \in Orders, lastChange[o] <= d.changes,
                    \A i \in d.fills + 1 .. Len(ledger) : ledger[i].order # o
             PROVE  o \in d.orderIssues <=> Documented(ledger, o) # rowFilled[o]
  BY DEF Exact, ExactNow
<1>1. CASE o \in ids
  BY <1>1 DEF OrderIssues
<1>2. CASE o \notin ids
  <2>1. lastChange[o] \in Nat /\ Len(ledger) \in Nat
    BY LedgerTyped DEF TypeOK
  <2>2. lastChange[o] <= c.changes
    BY <1>2, <2>1
  <2>3. ASSUME NEW i \in c.fills + 1 .. Len(ledger) PROVE ledger[i].order # o
    <3>1. i \in c.fills + 1 .. d.fills \/ i \in d.fills + 1 .. Len(ledger)
      BY <2>1
    <3> QED BY <1>2, <3>1
  <2>4. o \in c.orderIssues <=> Documented(ledger, o) # rowFilled[o]
    BY <2>2, <2>3 DEF ExactNow, Exact
  <2> QED BY <1>2, <2>4 DEF OrderIssues
<1> QED BY <1>1, <1>2

LEMMA IssuesInit == Init => IssuesInv
<1> SUFFICES ASSUME Init PROVE IssuesInv
  OBVIOUS
<1>1. \A o \in Orders : ~(lastChange[o] <= NoCheckpoint.changes)
  BY DEF Init, NoCheckpoint
<1>2. ExactNow(NoCheckpoint)
  BY <1>1 DEF ExactNow, Exact
<1> QED BY <1>2 DEF Init, IssuesInv, IssuesOf

LEMMA IssuesStep == TypeOK /\ Cursors /\ IssuesInv /\ [Next]_vars => IssuesInv'
<1> SUFFICES ASSUME TypeOK, Cursors, IssuesInv, [Next]_vars PROVE IssuesInv'
  OBVIOUS
<1>a. /\ Len(ledger) \in Nat /\ changeSeq \in Nat /\ ledger \in Seq(FillRecord)
      /\ saved.fills \in Nat /\ saved.changes \in Nat /\ saved.fills <= Len(ledger) /\ saved.changes <= changeSeq
      /\ \A o \in Orders : lastChange[o] \in Nat /\ lastChange[o] <= changeSeq
      /\ \A p \in Procs : /\ mem[p].fills \in Nat /\ mem[p].changes \in Nat
                          /\ delta[p].fills \in Nat /\ delta[p].changes \in Nat
                          /\ mem[p].fills <= Len(ledger) /\ mem[p].changes <= changeSeq
  <2>1. /\ Len(ledger) \in Nat /\ changeSeq \in Nat /\ ledger \in Seq(FillRecord)
        /\ saved.fills \in Nat /\ saved.changes \in Nat
        /\ \A o \in Orders : lastChange[o] \in Nat
        /\ \A p \in Procs : /\ mem[p].fills \in Nat /\ mem[p].changes \in Nat
                            /\ delta[p].fills \in Nat /\ delta[p].changes \in Nat
    BY LedgerTyped DEF TypeOK, Checkpoint, Delta
  <2>2. /\ saved.fills <= Len(ledger) /\ saved.changes <= changeSeq
        /\ \A o \in Orders : lastChange[o] <= changeSeq
        /\ \A p \in Procs : mem[p].fills <= saved.fills /\ mem[p].changes <= changeSeq
    BY DEF Cursors, CursorsOf
  <2> QED BY <2>1, <2>2
<1>b. ASSUME NEW p \in Procs, pc[p] \in Reading
      PROVE  /\ mem[p].fills <= delta[p].fills /\ delta[p].fills <= Len(ledger)
             /\ pc[p] # "changes" => delta[p].changes <= changeSeq
  BY <1>b DEF Cursors, CursorsOf, Reading
<1>1. ASSUME NEW f \in Facts, add_fill(f) PROVE IssuesInv'
  <2>1. /\ ledger' = Append(ledger, f) /\ f \in FillRecord
        /\ UNCHANGED <<rowFilled, lastChange, saved, pc, mem, delta>>
    BY <1>1, FactsAssumption DEF add_fill, memory
  <2>2. ExactNow(saved)'
    BY <1>a, <2>1, ExactAfterFill DEF IssuesInv, ExactNow
  <2>3. ASSUME NEW p \in Procs PROVE IssuesOf(p)'
    <3>1. ExactNow(mem[p])'
      BY <1>a, <2>1, ExactAfterFill DEF IssuesInv, IssuesOf, ExactNow
    <3>2. ASSUME pc[p] = "save" PROVE ExactNow(delta[p])'
      BY <1>a, <1>b, <2>1, <3>2, ExactAfterFill DEF IssuesInv, IssuesOf, ExactNow, Reading
    <3>3. ASSUME pc[p] \in {"rows", "sums"} PROVE LooksAtAll(p)'
      <4>1. \A i \in mem[p].fills + 1 .. delta[p].fills : ledger'[i] = ledger[i]
        <5>1. delta[p].fills <= Len(ledger)
          BY <1>b, <3>3 DEF Reading
        <5> QED BY <1>a, <2>1, <5>1
      <4> QED BY <2>1, <3>3, <4>1 DEF IssuesInv, IssuesOf, LooksAtAll
    <3>4. ASSUME pc[p] = "sums" PROVE RowsAsRead(p)'
      BY <2>1, <3>4 DEF IssuesInv, IssuesOf, RowsAsRead
    <3> QED BY <2>1, <3>1, <3>2, <3>3, <3>4 DEF IssuesOf
  <2> QED BY <2>2, <2>3 DEF IssuesInv
<1>2. ASSUME NEW o \in Orders, UpdateRow(o) PROVE IssuesInv'
  <2>1. /\ UNCHANGED <<ledger, saved, pc, mem, delta>>
        /\ lastChange'[o] = changeSeq + 1
        /\ \A u \in Orders \ {o} : lastChange'[u] = lastChange[u] /\ rowFilled'[u] = rowFilled[u]
    BY <1>2 DEF UpdateRow, memory, TypeOK
  <2>2. \A n \in Nat : n <= changeSeq => ~(lastChange'[o] <= n)
    BY <1>a, <2>1
  <2>3. ExactNow(saved)'
    <3>1. ~(lastChange'[o] <= saved.changes) /\ Exact(saved, ledger, lastChange, rowFilled)
      BY <1>a, <2>2 DEF IssuesInv, ExactNow
    <3> QED BY <2>1, <3>1, ExactAfterChange DEF ExactNow
  <2>4. ASSUME NEW p \in Procs PROVE IssuesOf(p)'
    <3>1. ExactNow(mem[p])'
      <4>1. ~(lastChange'[o] <= mem[p].changes) /\ Exact(mem[p], ledger, lastChange, rowFilled)
        BY <1>a, <2>2 DEF IssuesInv, IssuesOf, ExactNow
      <4> QED BY <2>1, <4>1, ExactAfterChange DEF ExactNow
    <3>2. ASSUME pc[p] \in {"rows", "sums", "save"} PROVE ~(lastChange'[o] <= delta[p].changes)
      BY <1>a, <1>b, <2>2, <3>2 DEF Reading
    <3>3. ASSUME pc[p] = "save" PROVE ExactNow(delta[p])'
      <4>1. Exact(delta[p], ledger, lastChange, rowFilled)
        BY <3>3 DEF IssuesInv, IssuesOf, ExactNow
      <4> QED BY <2>1, <3>2, <3>3, <4>1, ExactAfterChange DEF ExactNow
    <3>4. ASSUME pc[p] \in {"rows", "sums"} PROVE LooksAtAll(p)'
      BY <2>1, <3>2, <3>4 DEF IssuesInv, IssuesOf, LooksAtAll
    <3>5. ASSUME pc[p] = "sums" PROVE RowsAsRead(p)'
      <4>1. delta[p].ids \in SUBSET Orders
        BY DEF TypeOK, Delta
      <4> QED BY <2>1, <3>2, <3>5, <4>1 DEF IssuesInv, IssuesOf, RowsAsRead
    <3> QED BY <2>1, <3>1, <3>3, <3>4, <3>5 DEF IssuesOf
  <2> QED BY <2>3, <2>4 DEF IssuesInv
<1>3. CASE Drill
  <2>1. Sendable(saved, Drilled) /\ Commit(saved, Drilled) /\ UNCHANGED <<facts, memory>>
    BY <1>3, DrillSendable DEF Drill
  <2>2. ExactNow(Drilled)
    <3> DEFINE ids == ChangedSince(saved.changes)
                      \cup {ledger[i].order : i \in saved.fills + 1 .. Len(ledger)}
    <3>1. /\ Drilled.fills = Len(ledger) /\ Drilled.changes = changeSeq
          /\ Drilled.orderIssues = OrderIssues(saved, ids, rowFilled)
      BY DEF Drilled
    <3>2. \A o \in Orders : saved.changes < lastChange[o] => o \in ids
      BY <1>a DEF ChangedSince
    <3>3. ExactNow(saved)
      BY DEF IssuesInv
    <3> QED BY <1>a, <3>1, <3>2, <3>3, OrderIssuesExact
  <2>3. saved'.fills = Drilled.fills /\ saved'.changes = Drilled.changes /\ saved'.orderIssues = Drilled.orderIssues
    BY <2>1, CommitTyped
  <2>4. ExactNow(saved)'
    BY <2>1, <2>2, <2>3, ExactOfFields DEF ExactNow, facts
  <2>5. ASSUME NEW p \in Procs PROVE IssuesOf(p)'
    BY <2>1 DEF facts, memory, IssuesInv, IssuesOf, ExactNow, LooksAtAll, RowsAsRead
  <2> QED BY <2>4, <2>5 DEF IssuesInv
<1>4. ASSUME NEW p \in Procs, Step(p) PROVE IssuesInv'
  <2>0. ASSUME UNCHANGED <<facts, saved>>, \A q \in Procs : IssuesOf(q)' PROVE IssuesInv'
    BY <2>0 DEF IssuesInv, facts, ExactNow
  <2>00. ASSUME UNCHANGED facts, NEW q \in Procs, mem'[q] = mem[q], delta'[q] = delta[q],
                pc'[q] = pc[q] \/ pc'[q] \notin {"rows", "sums", "save"}
         PROVE  IssuesOf(q)'
    BY <2>00 DEF facts, IssuesInv, IssuesOf, ExactNow, LooksAtAll, RowsAsRead
  <2>1. CASE CheckVersion(p)
    <3>1. ASSUME NEW q \in Procs PROVE IssuesOf(q)'
      BY <2>00, <2>1 DEF CheckVersion, At, disk, facts, TypeOK
    <3> QED BY <2>0, <2>1, <3>1 DEF CheckVersion, disk, facts
  <2>2. CASE LoadCheckpoint(p)
    <3>1. ASSUME NEW q \in Procs PROVE IssuesOf(q)'
      <4>1. CASE q = p
        <5>1. mem'[p] = saved /\ pc'[p] \in {"events", "reevents"} /\ UNCHANGED facts
          BY <2>2 DEF LoadCheckpoint, At, disk, facts, TypeOK
        <5> QED BY <4>1, <5>1 DEF IssuesInv, IssuesOf, ExactNow, facts
      <4>2. CASE q # p
        BY <2>00, <2>2, <4>2 DEF LoadCheckpoint, At, disk, facts, TypeOK
      <4> QED BY <4>1, <4>2
    <3> QED BY <2>0, <2>2, <3>1 DEF LoadCheckpoint, disk, facts
  <2>3. CASE LoadEvents(p)
    <3>1. ASSUME NEW q \in Procs PROVE IssuesOf(q)'
      BY <2>00, <2>3 DEF LoadEvents, At, disk, facts, TypeOK
    <3> QED BY <2>0, <2>3, <3>1 DEF LoadEvents, disk, facts
  <2>4. CASE ReadFills(p)
    <3>1. ASSUME NEW q \in Procs PROVE IssuesOf(q)'
      <4>1. CASE q = p
        <5>1. mem' = mem /\ pc'[p] = "changes" /\ UNCHANGED facts
          BY <2>4 DEF ReadFills, At, disk, facts, TypeOK
        <5> QED BY <4>1, <5>1 DEF IssuesInv, IssuesOf, ExactNow, facts
      <4>2. CASE q # p
        BY <2>00, <2>4, <4>2 DEF ReadFills, At, disk, facts, TypeOK
      <4> QED BY <4>1, <4>2
    <3> QED BY <2>0, <2>4, <3>1 DEF ReadFills, disk, facts
  <2>5. CASE ReadChanges(p)
    <3>1. ASSUME NEW q \in Procs PROVE IssuesOf(q)'
      <4>1. CASE q = p
        <5>1. delta[p] \in Delta /\ pc[p] = "changes"
          BY <2>5 DEF TypeOK, ReadChanges, At
        <5>2. /\ delta'[p].fills = delta[p].fills /\ delta'[p].changes = changeSeq /\ pc'[p] = "rows"
              /\ delta'[p].ids = ChangedSince(mem[p].changes) \cup {f.order : f \in ToSet(NewFills(p))}
              /\ mem' = mem /\ UNCHANGED facts
          BY <2>5, <5>1 DEF ReadChanges, At, TypeOK, Delta, disk, facts
        <5>3. ASSUME NEW i \in mem[p].fills + 1 .. delta[p].fills PROVE ledger[i].order \in delta'[p].ids
          <6>1. mem[p].fills <= delta[p].fills /\ delta[p].fills <= Len(ledger)
            BY <1>b, <5>1 DEF Reading
          <6>0. mem[p].fills \in Nat /\ delta[p].fills \in Nat /\ ledger \in Seq(FillRecord)
            BY <1>a
          <6>2. /\ DOMAIN NewFills(p) = 1 .. delta[p].fills - mem[p].fills
                /\ \A k \in 1 .. delta[p].fills - mem[p].fills : NewFills(p)[k] = ledger[mem[p].fills + k]
            <7> DEFINE m == mem[p].fills
                       d == delta[p].fills
                       fills == SubSeq(ledger, m + 1, d)
            <7>1. NewFills(p) = fills
              BY DEF NewFills
            <7>2. m \in Nat /\ d \in Nat /\ m <= d /\ d <= Len(ledger)
              BY <6>0, <6>1
            <7>3. /\ DOMAIN fills = 1 .. d - m
                  /\ \A k \in 1 .. d - m : fills[k] = ledger[m + k]
              <8> HIDE DEF m, d
              <8> QED BY <6>0, <7>2, FillsBetween
            <7> QED BY <7>1, <7>3
          <6>3. i - mem[p].fills \in 1 .. delta[p].fills - mem[p].fills /\ mem[p].fills + (i - mem[p].fills) = i
            BY <1>a
          <6>4. ledger[i] \in ToSet(NewFills(p))
            BY <6>2, <6>3 DEF ToSet
          <6> QED BY <5>2, <6>4
        <5>4. LooksAtAll(p)'
          <6>1. \A o \in Orders : mem[p].changes < lastChange[o] => o \in delta'[p].ids
            BY <1>a, <5>2 DEF ChangedSince
          <6> QED BY <5>2, <5>3, <6>1 DEF LooksAtAll, facts
        <5> QED BY <4>1, <5>2, <5>4 DEF IssuesInv, IssuesOf, ExactNow, facts
      <4>2. CASE q # p
        BY <2>00, <2>5, <4>2 DEF ReadChanges, At, disk, facts, TypeOK
      <4> QED BY <4>1, <4>2
    <3> QED BY <2>0, <2>5, <3>1 DEF ReadChanges, disk, facts
  <2>6. CASE ReadRows(p)
    <3>1. ASSUME NEW q \in Procs PROVE IssuesOf(q)'
      <4>1. CASE q = p
        <5>1. delta[p] \in Delta /\ pc[p] = "rows"
          BY <2>6 DEF TypeOK, ReadRows, At
        <5>2. /\ delta'[p].fills = delta[p].fills /\ delta'[p].changes = delta[p].changes /\ pc'[p] = "sums"
              /\ delta'[p].ids = delta[p].ids /\ delta'[p].rows = RowsOf(delta[p].ids)
              /\ mem' = mem /\ UNCHANGED facts
          BY <2>6, <5>1 DEF ReadRows, At, TypeOK, Delta, disk, facts
        <5>3. LooksAtAll(p)'
          BY <5>1, <5>2 DEF IssuesInv, IssuesOf, LooksAtAll, facts
        <5>4. RowsAsRead(p)'
          <6>1. delta[p].ids \in SUBSET Orders
            BY <5>1 DEF Delta
          <6> QED BY <5>2, <6>1 DEF RowsAsRead, RowsOf, facts
        <5> QED BY <4>1, <5>2, <5>3, <5>4 DEF IssuesInv, IssuesOf, ExactNow, facts
      <4>2. CASE q # p
        BY <2>00, <2>6, <4>2 DEF ReadRows, At, disk, facts, TypeOK
      <4> QED BY <4>1, <4>2
    <3> QED BY <2>0, <2>6, <3>1 DEF ReadRows, disk, facts
  <2>7. CASE ReadSums(p)
    <3>1. ASSUME NEW q \in Procs PROVE IssuesOf(q)'
      <4>1. CASE q = p /\ News(p)
        <5>1. /\ delta'[p].fills = delta[p].fills /\ delta'[p].changes = delta[p].changes
              /\ delta'[p].orderIssues = OrderIssues(mem[p], delta[p].ids, delta[p].rows)
              /\ pc'[p] = "save" /\ pc[p] = "sums" /\ mem' = mem /\ UNCHANGED facts
          BY <2>7, <4>1 DEF ReadSums, TypeOK, NoDelta, disk, facts
        <5>2. LooksAtAll(p) /\ RowsAsRead(p) /\ ExactNow(mem[p])
          BY <5>1 DEF IssuesInv, IssuesOf
        <5>3. ExactNow(delta'[p])
          <6> DEFINE d == delta'[p]
          <6>1. d.fills \in Nat /\ d.changes \in Nat
            BY <1>a, <5>1
          <6>2. d.orderIssues = OrderIssues(mem[p], delta[p].ids, delta[p].rows)
            BY <5>1
          <6>3. /\ \A o \in Orders : mem[p].changes < lastChange[o] /\ lastChange[o] <= d.changes => o \in delta[p].ids
                /\ \A i \in mem[p].fills + 1 .. d.fills : ledger[i].order \in delta[p].ids
                /\ \A o \in delta[p].ids : lastChange[o] <= d.changes => delta[p].rows[o] = rowFilled[o]
            BY <5>1, <5>2 DEF LooksAtAll, RowsAsRead
          <6>4. mem[p].fills \in Nat /\ mem[p].changes \in Nat /\ ExactNow(mem[p])
            BY <1>a, <5>2
          <6> HIDE DEF d
          <6>5. ExactNow(d)
            BY <6>1, <6>2, <6>3, <6>4, OrderIssuesExact
          <6> QED BY <6>5 DEF d
        <5> QED BY <4>1, <5>1, <5>2, <5>3 DEF IssuesOf, ExactNow, facts
      <4>2. CASE q = p /\ ~News(p)
        <5>1. pc'[p] = "idle" /\ mem' = mem /\ UNCHANGED facts
          BY <2>7, <4>2 DEF ReadSums, TypeOK, disk, facts
        <5> QED BY <4>2, <5>1 DEF IssuesInv, IssuesOf, ExactNow, facts
      <4>3. CASE q # p
        BY <2>00, <2>7, <4>3 DEF ReadSums, disk, facts, TypeOK
      <4> QED BY <4>1, <4>2, <4>3
    <3> QED BY <2>0, <2>7, <3>1 DEF ReadSums, disk, facts
  <2>8. ASSUME pc[p] = "save", Commit(mem[p], delta[p]), UNCHANGED facts
        PROVE  ExactNow(saved)'
    <3>1. ExactNow(delta[p])
      BY <2>8 DEF IssuesInv, IssuesOf
    <3>2. saved'.fills = delta[p].fills /\ saved'.changes = delta[p].changes /\ saved'.orderIssues = delta[p].orderIssues
      BY <2>8, SaveSendable, CommitTyped
    <3> QED BY <2>8, <3>1, <3>2, ExactOfFields DEF ExactNow, facts
  <2>9. CASE Save(p)
    <3>1. pc[p] = "save" /\ pc'[p] = "deliver" /\ Commit(mem[p], delta[p]) /\ UNCHANGED facts
      BY <2>9 DEF Save, At, TypeOK
    <3>2. ExactNow(saved)'
      BY <2>8, <3>1
    <3>3. ASSUME NEW q \in Procs PROVE IssuesOf(q)'
      <4>1. CASE q = p
        <5>1. mem'[p] = saved'
          BY <2>9 DEF Save, TypeOK
        <5> QED BY <3>1, <3>2, <4>1, <5>1 DEF IssuesOf, ExactNow
      <4>2. CASE q # p
        BY <2>00, <2>9, <4>2 DEF Save, At, facts, TypeOK
      <4> QED BY <4>1, <4>2
    <3> QED BY <3>2, <3>3 DEF IssuesInv
  <2>10. CASE SaveRaises(p)
    <3>1. pc[p] = "save" /\ pc'[p] = "reload" /\ mem' = mem /\ UNCHANGED facts
      BY <2>10 DEF SaveRaises, At, TypeOK
    <3>2. ExactNow(saved)'
      <4>1. CASE UNCHANGED <<saved, closes>>
        BY <3>1, <4>1 DEF IssuesInv, ExactNow, facts
      <4>2. CASE Commit(mem[p], delta[p])
        BY <2>8, <3>1, <4>2
      <4> QED BY <2>10, <4>1, <4>2 DEF SaveRaises
    <3>3. ASSUME NEW q \in Procs PROVE IssuesOf(q)'
      <4>1. CASE q = p
        BY <3>1, <4>1 DEF IssuesInv, IssuesOf, ExactNow, facts
      <4>2. CASE q # p
        BY <2>00, <2>10, <4>2 DEF SaveRaises, At, facts, TypeOK
      <4> QED BY <4>1, <4>2
    <3> QED BY <3>2, <3>3 DEF IssuesInv
  <2>11. CASE Deliver(p)
    <3>1. ASSUME NEW q \in Procs PROVE IssuesOf(q)'
      <4>1. CASE q = p
        <5>1. pc'[p] = "idle" /\ mem' = mem /\ UNCHANGED facts
          BY <2>11 DEF Deliver, At, TypeOK, disk, facts
        <5> QED BY <4>1, <5>1 DEF IssuesInv, IssuesOf, ExactNow, facts
      <4>2. CASE q # p
        BY <2>00, <2>11, <4>2 DEF Deliver, At, disk, facts, TypeOK
      <4> QED BY <4>1, <4>2
    <3> QED BY <2>0, <2>11, <3>1 DEF Deliver, disk, facts
  <2>12. CASE Restart(p)
    <3>1. ASSUME NEW q \in Procs PROVE IssuesOf(q)'
      BY <2>00, <2>12 DEF Restart, At, disk, facts, TypeOK
    <3> QED BY <2>0, <2>12, <3>1 DEF Restart, disk, facts
  <2> QED BY <1>4, <2>1, <2>2, <2>3, <2>4, <2>5, <2>6, <2>7, <2>9, <2>10, <2>11, <2>12 DEF Step
<1>5. ASSUME NEW p \in Procs, Crash(p) PROVE IssuesInv'
  <2>1. UNCHANGED disk
    BY <1>5 DEF Crash
  <2>2. ASSUME NEW q \in Procs PROVE IssuesOf(q)'
    <3>1. CASE q = p
      <4>1. mem'[p] = NoCheckpoint /\ pc'[p] = "down"
        BY <1>5 DEF Crash, TypeOK
      <4>2. ExactNow(NoCheckpoint)'
        <5>1. \A o \in Orders : ~(lastChange[o] <= NoCheckpoint.changes)
          BY <1>a DEF Cursors, NoCheckpoint
        <5> QED BY <2>1, <5>1 DEF ExactNow, Exact, disk
      <4> QED BY <3>1, <4>1, <4>2 DEF IssuesOf, ExactNow
    <3>2. CASE q # p
      BY <1>5, <2>1, <3>2 DEF Crash, disk, TypeOK, IssuesInv, IssuesOf, ExactNow, LooksAtAll, RowsAsRead
    <3> QED BY <3>1, <3>2
  <2> QED BY <2>1, <2>2 DEF disk, IssuesInv, ExactNow
<1>6. CASE UNCHANGED vars
  BY <1>6 DEF vars, IssuesInv, IssuesOf, ExactNow, LooksAtAll, RowsAsRead
<1> QED BY <1>1, <1>2, <1>3, <1>4, <1>5, <1>6 DEF Next

-----------------------------------------------------------------------------
(* A process whose checkpoint knows a fill has the closes of that fill.     *)
Given(p) ==
    \A i \in DOMAIN closes :
        (\E k \in 1 .. mem[p].fills : ledger[k].id = closes[i].fill) => i <= got[p]

DeliveryOf(p) ==
    /\ pc[p] \notin {"events", "reevents", "deliver"} => Given(p)
    /\ pc[p] \in {"events", "reevents"} => ~alias[p]
    /\ pc[p] = "idle" /\ alias[p] => held[p] = mem[p].fills
Delivery == \A p \in Procs : DeliveryOf(p)

(* The closes that are added are of fills that no one knew who has the old  *)
(* closes only.                                                             *)
LEMMA CommitGives ==
    ASSUME TypeOK, Cursors, NEW c, NEW d, Sendable(c, d), Commit(c, d),
           c.fills = saved.fills, UNCHANGED ledger,
           NEW p \in Procs, Given(p), mem'[p] = mem[p], got'[p] = got[p]
    PROVE  Given(p)'
<1>1. /\ closes' = closes \o NewCloses(c, d) /\ closes \in Seq(Close)
  BY CommitTyped DEF TypeOK
<1>2. /\ NewCloses(c, d) \in Seq(Close)
      /\ \A i \in DOMAIN NewCloses(c, d) :
           \E k \in c.fills + 1 .. d.fills : NewCloses(c, d)[i].fill = ledger[k].id
  BY ProposedTyped DEF Sendable
<1>3. /\ Len(ledger) \in Nat /\ DOMAIN ledger = 1 .. Len(ledger) /\ d.fills \in Nat /\ d.fills <= Len(ledger)
      /\ saved.fills \in Nat /\ mem[p].fills \in Nat /\ mem[p].fills <= saved.fills
  BY LedgerTyped DEF Sendable, TypeOK, Checkpoint, Cursors, CursorsOf
<1>4. ASSUME NEW j \in DOMAIN ledger, NEW k \in DOMAIN ledger, ledger[j].id = ledger[k].id PROVE j = k
  <2>1. ledger[j] = ledger[k]
    BY <1>4, LedgerTyped, FactsAssumption
  <2> QED BY <2>1 DEF Cursors
<1> SUFFICES ASSUME NEW i \in DOMAIN closes', NEW k \in 1 .. mem[p].fills, ledger[k].id = closes'[i].fill
             PROVE  i <= got[p]
  BY DEF Given
<1>5. CASE i \in DOMAIN closes
  <2>1. closes'[i] = closes[i]
    BY <1>1, <1>2, <1>5
  <2> QED BY <1>5, <2>1 DEF Given
<1>6. CASE i \notin DOMAIN closes
  <2> DEFINE new == NewCloses(c, d)
             j == i - Len(closes)
  <2>1. j \in DOMAIN new /\ closes'[i] = new[j]
    <3>1. new \in Seq(Close) /\ closes' = closes \o new /\ closes \in Seq(Close)
      BY <1>1, <1>2
    <3> HIDE DEF new
    <3> QED BY <1>6, <3>1
  <2>2. PICK m \in c.fills + 1 .. d.fills : new[j].fill = ledger[m].id
    BY <1>2, <2>1
  <2>3. m \in DOMAIN ledger /\ k \in DOMAIN ledger /\ m # k
    BY <1>3
  <2> QED BY <1>4, <2>1, <2>2, <2>3
<1> QED BY <1>5, <1>6

LEMMA DeliveryInit == Init => Delivery
  BY DEF Init, Delivery, DeliveryOf, Given

LEMMA DeliveryStep == TypeOK /\ Cursors /\ Delivery /\ [Next]_vars => Delivery'
<1> SUFFICES ASSUME TypeOK, Cursors, Delivery, [Next]_vars PROVE Delivery'
  OBVIOUS
<1>a. ASSUME NEW q \in Procs, UNCHANGED <<ledger, closes>>,
             mem'[q] = mem[q], got'[q] = got[q], held'[q] = held[q], alias'[q] = alias[q],
             \/ pc'[q] = pc[q]
             \/ /\ pc'[q] \notin {"idle", "events", "reevents"}
                /\ pc[q] \notin {"events", "reevents", "deliver"}
      PROVE  DeliveryOf(q)'
  BY <1>a DEF Delivery, DeliveryOf, Given
<1>b. ASSUME NEW q \in Procs, NEW c, NEW d, Sendable(c, d), Commit(c, d), c.fills = saved.fills,
             UNCHANGED ledger,
             mem'[q] = mem[q], got'[q] = got[q], held'[q] = held[q], alias'[q] = alias[q],
             pc'[q] = pc[q] \/ (pc[q] = "save" /\ pc'[q] = "reload")
      PROVE  DeliveryOf(q)'
  <2>1. ASSUME Given(q) PROVE Given(q)'
    BY <1>b, <2>1, CommitGives
  <2> QED BY <1>b, <2>1 DEF Delivery, DeliveryOf
<1>c. ASSUME NEW q \in Procs, pc[q] = "save", Commit(mem[q], delta[q])
      PROVE  Sendable(mem[q], delta[q]) /\ mem[q].fills = saved.fills
  BY <1>c, SaveSendable, CommitTyped DEF Cursors, CursorsOf
<1>1. ASSUME NEW f \in Facts, add_fill(f) PROVE Delivery'
  <2>1. ASSUME NEW q \in Procs PROVE DeliveryOf(q)'
    <3>1. mem[q].fills \in Nat /\ saved.fills \in Nat /\ mem[q].fills <= Len(ledger)
      BY LedgerTyped DEF TypeOK, Checkpoint, Cursors, CursorsOf
    <3>2. \A k \in 1 .. mem[q].fills : ledger'[k] = ledger[k]
      BY <1>1, <3>1, LedgerTyped DEF add_fill
    <3> QED BY <1>1, <3>2 DEF add_fill, memory, Delivery, DeliveryOf, Given
  <2> QED BY <2>1 DEF Delivery
<1>2. ASSUME NEW o \in Orders, UpdateRow(o) PROVE Delivery'
  BY <1>2 DEF UpdateRow, memory, Delivery, DeliveryOf, Given
<1>3. CASE Drill
  <2>1. ASSUME NEW q \in Procs PROVE DeliveryOf(q)'
    BY <1>3, <1>b, DrillSendable DEF Drill, facts, memory
  <2> QED BY <2>1 DEF Delivery
<1>4. ASSUME NEW p \in Procs, Step(p), NEW q \in Procs PROVE DeliveryOf(q)'
  <2>1. CASE CheckVersion(p)
    BY <1>a, <2>1 DEF CheckVersion, At, disk, TypeOK
  <2>2. CASE LoadCheckpoint(p)
    <3>1. CASE q = p
      <4>1. pc'[p] \in {"events", "reevents"} /\ alias'[p] = FALSE
        BY <2>2 DEF LoadCheckpoint, At, TypeOK
      <4> QED BY <3>1, <4>1 DEF DeliveryOf
    <3>2. CASE q # p
      BY <1>a, <2>2, <3>2 DEF LoadCheckpoint, At, disk, TypeOK
    <3> QED BY <3>1, <3>2
  <2>3. CASE LoadEvents(p)
    <3>1. CASE q = p
      <4>1. /\ got'[p] = Len(closes) /\ UNCHANGED closes /\ pc'[p] \in {"fills", "idle"} /\ ~alias[p] /\ UNCHANGED alias
        BY <2>3 DEF LoadEvents, At, disk, TypeOK, Delivery, DeliveryOf
      <4>2. \A i \in DOMAIN closes : i <= Len(closes)
        BY DEF TypeOK
      <4> QED BY <3>1, <4>1, <4>2 DEF DeliveryOf, Given
    <3>2. CASE q # p
      BY <1>a, <2>3, <3>2 DEF LoadEvents, At, disk, TypeOK
    <3> QED BY <3>1, <3>2
  <2>4. CASE ReadFills(p)
    BY <1>a, <2>4 DEF ReadFills, At, disk, TypeOK
  <2>5. CASE ReadChanges(p)
    BY <1>a, <2>5 DEF ReadChanges, At, disk, TypeOK
  <2>6. CASE ReadRows(p)
    BY <1>a, <2>6 DEF ReadRows, At, disk, TypeOK
  <2>7. CASE ReadSums(p)
    <3>1. CASE q = p
      <4>1. /\ UNCHANGED <<disk, mem, got>> /\ pc[p] = "sums"
            /\ \/ pc'[p] = "save"
               \/ pc'[p] = "idle" /\ held'[p] = mem[p].fills
        BY <2>7 DEF ReadSums, TypeOK
      <4> QED BY <3>1, <4>1 DEF Delivery, DeliveryOf, Given, disk
    <3>2. CASE q # p
      BY <1>a, <2>7, <3>2 DEF ReadSums, disk, TypeOK
    <3> QED BY <3>1, <3>2
  <2>8. CASE Save(p)
    <3>0. pc[p] = "save" /\ Commit(mem[p], delta[p]) /\ UNCHANGED <<facts, got, delta, held, alias>>
      BY <2>8 DEF Save, At
    <3>1. CASE q = p
      <4>1. pc'[p] = "deliver"
        BY <2>8 DEF Save, At, TypeOK
      <4> QED BY <3>1, <4>1 DEF DeliveryOf
    <3>2. CASE q # p
      <4>1. mem'[q] = mem[q] /\ pc'[q] = pc[q]
        BY <2>8, <3>2 DEF Save, At, TypeOK
      <4> QED BY <1>b, <1>c, <3>0, <4>1 DEF facts
    <3> QED BY <3>1, <3>2
  <2>9. CASE SaveRaises(p)
    <3>0. /\ UNCHANGED <<facts, mem, got, held, alias>>
          /\ pc'[q] = pc[q] \/ (pc[q] = "save" /\ pc'[q] = "reload")
          /\ pc[p] = "save"
      BY <2>9 DEF SaveRaises, At, TypeOK
    <3>1. CASE UNCHANGED <<saved, closes>>
      BY <1>a, <3>0, <3>1 DEF facts
    <3>2. CASE Commit(mem[p], delta[p])
      BY <1>b, <1>c, <3>0, <3>2 DEF facts
    <3> QED BY <2>9, <3>1, <3>2 DEF SaveRaises
  <2>10. CASE Deliver(p)
    <3>1. CASE q = p
      <4>1. /\ got'[p] = Len(closes) /\ UNCHANGED <<closes, mem>> /\ pc'[p] = "idle" /\ held'[p] = mem[p].fills
        BY <2>10 DEF Deliver, At, disk, TypeOK
      <4>2. \A i \in DOMAIN closes : i <= Len(closes)
        BY DEF TypeOK
      <4> QED BY <3>1, <4>1, <4>2 DEF DeliveryOf, Given
    <3>2. CASE q # p
      BY <1>a, <2>10, <3>2 DEF Deliver, At, disk, TypeOK
    <3> QED BY <3>1, <3>2
  <2>11. CASE Restart(p)
    BY <1>a, <2>11 DEF Restart, At, disk, TypeOK
  <2> QED BY <1>4, <2>1, <2>2, <2>3, <2>4, <2>5, <2>6, <2>7, <2>8, <2>9, <2>10, <2>11 DEF Step
<1>5. ASSUME NEW p \in Procs, Crash(p), NEW q \in Procs PROVE DeliveryOf(q)'
  <2>1. CASE q = p
    <3>1. mem'[p].fills = 0 /\ pc'[p] = "down"
      BY <1>5 DEF Crash, TypeOK, NoCheckpoint
    <3> QED BY <2>1, <3>1 DEF DeliveryOf, Given
  <2>2. CASE q # p
    BY <1>5, <1>a, <2>2 DEF Crash, disk, TypeOK
  <2> QED BY <2>1, <2>2
<1>6. CASE UNCHANGED vars
  BY <1>6 DEF vars, Delivery, DeliveryOf, Given
<1> QED BY <1>1, <1>2, <1>3, <1>4, <1>5, <1>6 DEF Next, Delivery

(* Once the cursors have caught up, the orders reported are those whose     *)
(* trades do not account for what their row shows, and no others.           *)
THEOREM ReportsAreExact == Spec => []CaughtUpIssuesExact
<1> DEFINE Inv == TypeOK /\ Cursors /\ IssuesInv
<1>1. Init => Inv
  BY InitCorrect, IssuesInit
<1>2. Inv /\ [Next]_vars => Inv'
  BY TypeStep, CursorsStep, IssuesStep
<1>3. Inv => CaughtUpIssuesExact
  <2> SUFFICES ASSUME Inv, saved.fills = Len(ledger), saved.changes = changeSeq
               PROVE  saved.orderIssues = {o \in Orders : Documented(ledger, o) # rowFilled[o]}
    BY DEF CaughtUpIssuesExact
  <2>1. saved.orderIssues \in SUBSET Orders
    BY DEF TypeOK, Checkpoint
  <2>2. ASSUME NEW o \in Orders PROVE o \in saved.orderIssues <=> Documented(ledger, o) # rowFilled[o]
    <3>1. lastChange[o] <= saved.changes
      BY DEF Cursors
    <3>2. saved.fills + 1 .. Len(ledger) = {}
      BY LedgerTyped
    <3> QED BY <3>1, <3>2 DEF IssuesInv, ExactNow, Exact
  <2> QED BY <2>1, <2>2
<1> QED BY <1>1, <1>2, <1>3, PTL DEF Spec

(* A portfolio whose books lack what a fill closed has been given the close *)
(* events of that fill.                                                     *)
THEOREM ClosesArrive == Spec => []NoCloseMissing
<1> DEFINE Inv == TypeOK /\ Cursors /\ Delivery
<1>1. Init => Inv
  BY InitCorrect, DeliveryInit
<1>2. Inv /\ [Next]_vars => Inv'
  BY TypeStep, CursorsStep, DeliveryStep
<1>3. Inv => NoCloseMissing
  BY DEF Delivery, DeliveryOf, Given, NoCloseMissing
<1> QED BY <1>1, <1>2, <1>3, PTL DEF Spec
=============================================================================
