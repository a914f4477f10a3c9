-------------------------- MODULE FillFlow_proofs --------------------------
(***************************************************************************)
(* Orders, their reservations, the ledger of their fills and the books of  *)
(* the projection together, for any orders, quantities, trades, crashes    *)
(* and failed writes: the state keeps its types, an order that has ended   *)
(* holds nothing back, no risk is uncovered without a reported issue, and  *)
(* the budget is kept as long as the venue tells every trade.              *)
(*                                                                         *)
(* Base says how far what is recorded can trail what the venue has done:   *)
(* types (Typed), the trades (AtVenue), the rows (Rows), the operation     *)
(* under way (AtWork), what of the ledger is written down (Written) and    *)
(* what is reported (Flagged).                                             *)
(*                                                                         *)
(* While no issue is reported, each order that may still buy is covered    *)
(* (Coverage): it was filled; or what is reserved for it and its trades    *)
(* that are projected add up to its size; or, when a fill was inferred     *)
(* from the order's average, its reservation and what it had bought by     *)
(* some trade u do, and the projection is past the key of u (CoveredUpTo): *)
(* a trade published in place of the inferred fill then comes too late to  *)
(* be applied in the order of the keys, and that is an issue.              *)
(*                                                                         *)
(* An approval may look at positions that are out of date.  They are those *)
(* of the venue after some trade n (SyncedAt), and what each order has     *)
(* bought since or may still buy is reserved (Backed): the guard then sees *)
(* no less than the exposure (GuardCovers).  A fill of after the n-th      *)
(* trade is published as an issue; or its publication failed, and nothing  *)
(* that ends the order is under way or comes in this tick (Settled), so    *)
(* that its reservation stays.                                             *)
(***************************************************************************)
EXTENDS FillFlow, OwnedLots_proofs

-----------------------------------------------------------------------------
(* Trades, counted.                                                         *)

(* Of the first n trades in e, those of orders in S.                        *)
Among(e, S, n) == {i \in 1 .. n : e[i] \in S}

LEMMA AmongFinite ==
    ASSUME NEW e, NEW S, NEW n \in Nat
    PROVE  IsFiniteSet(Among(e, S, n)) /\ Cardinality(Among(e, S, n)) \in Nat
<1>1. 1 \in Int /\ n \in Int
  OBVIOUS
<1>2. IsFiniteSet(1 .. n)
  BY <1>1, FS_Interval
<1>3. Among(e, S, n) \in SUBSET (1 .. n)
  BY DEF Among
<1> QED BY <1>2, <1>3, FS_Subset, FS_CardinalityType

LEMMA AmongMonotone ==
    ASSUME NEW e, NEW S, NEW n \in Nat, NEW m \in 0 .. n
    PROVE  Cardinality(Among(e, S, m)) <= Cardinality(Among(e, S, n))
<1>1. Among(e, S, m) \in SUBSET Among(e, S, n)
  BY DEF Among
<1> QED BY <1>1, AmongFinite, FS_Subset

(* A trade more.                                                            *)
LEMMA AmongGrows ==
    ASSUME NEW e \in Seq(Orders), NEW o \in Orders, NEW S
    PROVE  LET more == Append(e, o) IN
           /\ \A n \in 0 .. Len(e) : Among(more, S, n) = Among(e, S, n)
           /\ Cardinality(Among(more, S, Len(more))) =
                Cardinality(Among(e, S, Len(e))) + (IF o \in S THEN 1 ELSE 0)
<1> DEFINE more == Append(e, o)
           l == Len(e)
<1>1. l \in Nat /\ Len(more) = l + 1 /\ more[l + 1] = o /\ \A i \in 1 .. l : more[i] = e[i]
  OBVIOUS
<1> HIDE DEF more, l
<1>2. ASSUME NEW n \in 0 .. l PROVE Among(more, S, n) = Among(e, S, n)
  BY <1>1 DEF Among
<1>3. l \in 0 .. l
  BY <1>1
<1>4. IsFiniteSet(Among(e, S, l)) /\ Cardinality(Among(e, S, l)) \in Nat
  BY <1>1, AmongFinite
<1>5. CASE o \in S
  <2>1. Among(more, S, l + 1) = Among(e, S, l) \cup {l + 1}
    BY <1>1, <1>5 DEF Among
  <2>2. l + 1 \notin Among(e, S, l)
    BY <1>1 DEF Among
  <2>3. Cardinality(Among(e, S, l) \cup {l + 1}) = Cardinality(Among(e, S, l)) + 1
    BY <1>4, <2>2, FS_AddElement
  <2> QED BY <1>1, <1>2, <1>5, <2>1, <2>3 DEF more, l
<1>6. CASE o \notin S
  <2>1. Among(more, S, l + 1) = Among(e, S, l)
    BY <1>1, <1>6 DEF Among
  <2> QED BY <1>1, <1>2, <1>4, <1>6, <2>1 DEF more, l
<1> QED BY <1>5, <1>6

LEMMA ExecutedCount ==
    ASSUME NEW o, NEW n PROVE ExecutedOf(o, n) = Cardinality(Among(executed, {o}, n))
<1>1. {i \in 1 .. n : executed[i] = o} = Among(executed, {o}, n)
  BY DEF Among
<1> QED BY <1>1 DEF ExecutedOf

LEMMA ExecutedForCount ==
    ASSUME executed \in Seq(Orders), NEW S
    PROVE  ExecutedFor(S) = Cardinality(Among(executed, S, Len(executed)))
<1>1. DOMAIN executed = 1 .. Len(executed)
  OBVIOUS
<1> QED BY <1>1 DEF ExecutedFor, Among

LEMMA ExecutedTyped ==
    ASSUME executed \in Seq(Orders), NEW o, NEW n \in 0 .. Len(executed)
    PROVE  /\ ExecutedOf(o, n) \in Nat /\ ExecutedQty(o) \in Nat
           /\ ExecutedOf(o, n) <= ExecutedQty(o)
<1>1. n \in Nat /\ Len(executed) \in Nat
  OBVIOUS
<1> QED BY <1>1, ExecutedCount, AmongFinite, AmongMonotone DEF ExecutedQty

LEMMA ExecutedMonotone ==
    ASSUME executed \in Seq(Orders), NEW o, NEW n \in 0 .. Len(executed), NEW m \in 0 .. n
    PROVE  ExecutedOf(o, m) <= ExecutedOf(o, n)
<1>1. n \in Nat /\ m \in 0 .. n
  OBVIOUS
<1> QED BY <1>1, ExecutedCount, AmongMonotone

(* The units of the first n fills, of the trades of o or of all its fills.  *)
FillsIn(fs, o) == {i \in DOMAIN fs : fs[i].order = o}
TradedTo(fs, o, n) == Cardinality(UnitsOf(fs, Traded(fs, o) \cap (1 .. n)))
RecordedTo(fs, o, n) == Cardinality(UnitsOf(fs, FillsIn(fs, o) \cap (1 .. n)))

LEMMA UnitsTyped ==
    ASSUME NEW fs \in Seq(FillRecord), NEW o, NEW n
    PROVE  /\ TradedTo(fs, o, n) \in Nat /\ RecordedTo(fs, o, n) \in Nat
           /\ TradedTo(fs, o, n) <= RecordedTo(fs, o, n)
<1>1. /\ FillsIn(fs, o) \cap (1 .. n) \in SUBSET (DOMAIN fs)
      /\ Traded(fs, o) \cap (1 .. n) \in SUBSET (FillsIn(fs, o) \cap (1 .. n))
      /\ Traded(fs, o) \cap (1 .. n) \in SUBSET (DOMAIN fs)
  BY DEF FillsIn, Traded
<1> QED BY <1>1, UnitsFinite, UnitsMonotone DEF TradedTo, RecordedTo

LEMMA UnitsInOrder ==
    ASSUME NEW fs \in Seq(FillRecord), NEW o, NEW n \in Nat, NEW m \in 0 .. n
    PROVE  /\ TradedTo(fs, o, m) <= TradedTo(fs, o, n)
           /\ RecordedTo(fs, o, m) <= RecordedTo(fs, o, n)
<1>1. /\ FillsIn(fs, o) \cap (1 .. n) \in SUBSET (DOMAIN fs)
      /\ FillsIn(fs, o) \cap (1 .. m) \in SUBSET (FillsIn(fs, o) \cap (1 .. n))
      /\ Traded(fs, o) \cap (1 .. n) \in SUBSET (DOMAIN fs)
      /\ Traded(fs, o) \cap (1 .. m) \in SUBSET (Traded(fs, o) \cap (1 .. n))
  BY DEF FillsIn, Traded
<1> QED BY <1>1, UnitsMonotone DEF TradedTo, RecordedTo

LEMMA UnitsInAll ==
    ASSUME ledger \in Seq(FillRecord), NEW o
    PROVE  /\ Documented(ledger, o) = TradedTo(ledger, o, Len(ledger))
           /\ Recorded(o) = RecordedTo(ledger, o, Len(ledger))
<1>1. DOMAIN ledger = 1 .. Len(ledger)
  OBVIOUS
<1>2. /\ Traded(ledger, o) \cap (1 .. Len(ledger)) = Traded(ledger, o)
      /\ FillsIn(ledger, o) \cap (1 .. Len(ledger)) = FillsOf(o)
  BY <1>1 DEF Traded, FillsIn, FillsOf
<1> QED BY <1>2, DocumentedUnits DEF TradedTo, RecordedTo, Recorded, UnitsOf

(* The n-th fill.                                                           *)
LEMMA UnitsOfOne ==
    ASSUME NEW fs \in Seq(FillRecord), NEW o, NEW n \in DOMAIN fs, fs[n].order = o
    PROVE  /\ RecordedTo(fs, o, n) = RecordedTo(fs, o, n - 1) + fs[n].qty
           /\ ~fs[n].synthetic => TradedTo(fs, o, n) = TradedTo(fs, o, n - 1) + fs[n].qty
<1>1. DOMAIN fs = 1 .. Len(fs) /\ Len(fs) \in Nat /\ n \in Nat
  OBVIOUS
<1>2. 1 .. n = (1 .. n - 1) \cup {n} /\ n \notin 1 .. n - 1
  BY <1>1
<1>3. RecordedTo(fs, o, n) = RecordedTo(fs, o, n - 1) + fs[n].qty
  <2>1. FillsIn(fs, o) \cap (1 .. n) = (FillsIn(fs, o) \cap (1 .. n - 1)) \cup {n}
    BY <1>2 DEF FillsIn
  <2>2. FillsIn(fs, o) \cap (1 .. n - 1) \in SUBSET (DOMAIN fs)
    BY DEF FillsIn
  <2> QED BY <1>2, <2>1, <2>2, UnitsAdded DEF RecordedTo
<1>4. ASSUME ~fs[n].synthetic PROVE TradedTo(fs, o, n) = TradedTo(fs, o, n - 1) + fs[n].qty
  <2>1. Traded(fs, o) \cap (1 .. n) = (Traded(fs, o) \cap (1 .. n - 1)) \cup {n}
    BY <1>2, <1>4 DEF Traded
  <2>2. Traded(fs, o) \cap (1 .. n - 1) \in SUBSET (DOMAIN fs)
    BY DEF Traded
  <2> QED BY <1>2, <2>1, <2>2, UnitsAdded DEF TradedTo
<1> QED BY <1>3, <1>4

(* Fills that follow change nothing of those before.                        *)
LEMMA UnitsStay ==
    ASSUME NEW fs \in Seq(FillRecord), NEW f \in FillRecord, NEW o, NEW n \in 0 .. Len(fs)
    PROVE  /\ TradedTo(Append(fs, f), o, n) = TradedTo(fs, o, n)
           /\ RecordedTo(Append(fs, f), o, n) = RecordedTo(fs, o, n)
<1> DEFINE gs == Append(fs, f)
<1>1. /\ DOMAIN fs = 1 .. Len(fs) /\ Len(fs) \in Nat /\ DOMAIN gs = 1 .. Len(fs) + 1
      /\ \A i \in 1 .. Len(fs) : gs[i] = fs[i]
  OBVIOUS
<1>2. ASSUME NEW S \in SUBSET (DOMAIN fs) PROVE UnitsOf(gs, S) = UnitsOf(fs, S)
  BY <1>2, UnitsGrow
<1> HIDE DEF gs
<1>3. Traded(gs, o) \cap (1 .. n) = Traded(fs, o) \cap (1 .. n)
  BY <1>1 DEF Traded
<1>4. FillsIn(gs, o) \cap (1 .. n) = FillsIn(fs, o) \cap (1 .. n)
  BY <1>1 DEF FillsIn
<1>5. /\ Traded(fs, o) \cap (1 .. n) \in SUBSET (DOMAIN fs)
      /\ FillsIn(fs, o) \cap (1 .. n) \in SUBSET (DOMAIN fs)
  BY DEF Traded, FillsIn
<1>6. TradedTo(gs, o, n) = TradedTo(fs, o, n) /\ RecordedTo(gs, o, n) = RecordedTo(fs, o, n)
  BY <1>2, <1>3, <1>4, <1>5 DEF TradedTo, RecordedTo
<1> QED BY <1>6 DEF gs

(* Trades on record, each of one unit.                                      *)
LEMMA TradesCounted ==
    ASSUME ledger \in Seq(FillRecord), executed \in Seq(Orders), NEW o,
           NEW u \in 0 .. Len(executed), NEW n \in Nat,
           \A i \in 1 .. u : executed[i] = o => \E k \in DOMAIN ledger : k <= n /\ ledger[k] = Trade(i)
    PROVE  ExecutedOf(o, u) <= TradedTo(ledger, o, n)
<1> DEFINE S == Among(executed, {o}, u)
           T == UnitsOf(ledger, Traded(ledger, o) \cap (1 .. n))
           place(i) == CHOOSE k \in DOMAIN ledger : k <= n /\ ledger[k] = Trade(i)
           g == [i \in S |-> <<place(i), 1>>]
<1>1. DOMAIN ledger = 1 .. Len(ledger) /\ Len(ledger) \in Nat
  OBVIOUS
<1>2. ASSUME NEW i \in S
      PROVE  /\ place(i) \in Traded(ledger, o) \cap (1 .. n)
             /\ ledger[place(i)].id = 2 * i /\ ledger[place(i)].qty = 1
  <2>1. i \in 1 .. u /\ executed[i] = o
    BY DEF Among
  <2>2. \E k \in DOMAIN ledger : k <= n /\ ledger[k] = Trade(i)
    BY <2>1
  <2>3. place(i) \in DOMAIN ledger /\ place(i) <= n /\ ledger[place(i)] = Trade(i)
    BY <2>2
  <2>4. Trade(i).order = o /\ ~Trade(i).synthetic /\ Trade(i).id = 2 * i /\ Trade(i).qty = 1
    BY <2>1 DEF Trade
  <2> HIDE DEF place
  <2> QED BY <1>1, <2>3, <2>4 DEF Traded
<1> HIDE DEF place
<1>3. g \in Injection(S, T)
  <2>1. ASSUME NEW i \in S PROVE g[i] \in T
    <3>a. ledger[place(i)].qty = 1
      <4> HIDE DEF S, T, g
      <4> QED BY <1>2
    <3>b. g[i] = <<place(i), 1>> /\ 1 \in 1 .. 1
      <4> HIDE DEF S
      <4> QED OBVIOUS
    <3>1. g[i] \in {place(i)} \X (1 .. ledger[place(i)].qty)
      <4> HIDE DEF g, S, T
      <4> QED BY <3>a, <3>b
    <3> QED BY <1>2, <3>1 DEF UnitsOf
  <2>2. ASSUME NEW i \in S, NEW j \in S, g[i] = g[j] PROVE i = j
    <3>1. place(i) = place(j)
      BY <2>2
    <3>2. 2 * i = 2 * j
      BY <1>2, <3>1
    <3>3. i \in Nat /\ j \in Nat
      BY DEF Among
    <3> QED BY <3>2, <3>3
  <2>3. g \in [S -> T] /\ DOMAIN g = S
    <3> HIDE DEF S, T
    <3> QED BY <2>1
  <2> HIDE DEF S, T, g
  <2> QED BY <2>2, <2>3 DEF Injection, IsInjective
<1>4. Traded(ledger, o) \cap (1 .. n) \in SUBSET (DOMAIN ledger)
  BY DEF Traded
<1>5. IsFiniteSet(T)
  BY <1>4, UnitsFinite
<1>6. Cardinality(S) <= Cardinality(T)
  <2> HIDE DEF S, T, g
  <2> QED BY <1>3, <1>5, FS_Injection
<1> QED BY <1>6, ExecutedCount DEF TradedTo

-----------------------------------------------------------------------------
(* What the venue, the rows, the operation in hand and the ledger say of    *)
(* each other.                                                              *)

Typed == TypeOK /\ reserved \in [Orders -> Nat]

AtVenue ==
    /\ \A o \in Orders :
         /\ ExecutedQty(o) <= Qty[o]
         /\ venue[o] = "working" => ExecutedQty(o) < Qty[o]
         /\ venue[o] = "none" => ExecutedQty(o) = 0
         /\ o \notin attempted => venue[o] = "none"
    /\ \A s \in Symbols : VenuePosition(s) >= 0

(* A terminal row is the last word on its order.                            *)
Rows ==
    \A o \in Orders :
        /\ filled[o] <= ExecutedQty(o)
        /\ row[o] = "created" => o \notin attempted
        /\ row[o] \in {"accepted", "partial", "cancel_pending"} => o \in attempted
        /\ row[o] \in TERMINAL_STATUSES => venue[o] # "working" /\ filled[o] = ExecutedQty(o)

AtWork ==
    /\ pc = "send" => /\ op.order \in Orders /\ op.order \notin attempted
                      /\ row[op.order] = "submitting"
    /\ pc = "answer" => op.order \in attempted /\ row[op.order] = "submitting"
    /\ pc \in {"persist", "publish"} =>
         /\ op.order \in attempted /\ op.details \in Details
         /\ op.upto \in 0 .. Len(executed)
         /\ filled[op.order] <= Reported
         /\ row[op.order] \in TERMINAL_STATUSES => op.ended
         /\ op.ended => venue[op.order] = "ended" /\ Reported = ExecutedQty(op.order)

OnRecord(i) == \E k \in DOMAIN ledger : ledger[k] = Trade(i)

(* The fill that is about to be published.                                  *)
LastIsTrade ==
    \E m \in 1 .. op.upto :
        /\ ledger[Len(ledger)] = Trade(m) /\ executed[m] = op.order
        /\ \A i \in 1 .. m : executed[i] = op.order => OnRecord(i)
LastIsInferred ==
    /\ op.details # "trades"
    /\ ledger[Len(ledger)].order = op.order /\ ledger[Len(ledger)].key = 2 * op.upto + 1
    /\ RecordedTo(ledger, op.order, Len(ledger)) = Reported
Written ==
    /\ checkpoint.fills <= Len(ledger)
    /\ pc = "publish" => checkpoint.fills < Len(ledger) /\ (LastIsTrade \/ LastIsInferred)

(* The engine is told of the issues its books have; nothing runs in a       *)
(* process that is down.                                                    *)
Flagged ==
    /\ checkpoint.issues = {} => checkpoint.invalid = {}
    /\ mode # "down" /\ checkpoint.issues # {} => issues
    /\ mode = "down" => pc = "top"

Base == Typed /\ AtVenue /\ Rows /\ AtWork /\ Written /\ Flagged

LEMMA BaseTypes ==
    ASSUME Typed
    PROVE  /\ executed \in Seq(Orders) /\ ledger \in Seq(FillRecord)
           /\ Len(executed) \in Nat /\ Len(ledger) \in Nat
           /\ Books(checkpoint) /\ checkpoint.fills \in Nat
           /\ DOMAIN ledger = 1 .. Len(ledger) /\ DOMAIN executed = 1 .. Len(executed)
<1>1. executed \in Seq(Orders) /\ ledger \in Seq(FillRecord)
  BY DEF Typed, TypeOK
<1>2. Books(checkpoint) /\ checkpoint.fills \in Nat
  BY DEF Typed, TypeOK, Books
<1> QED BY <1>1, <1>2

(* What is added to the ledger next.                                        *)
LEMMA NextFillIs ==
    ASSUME Typed, op.order \in Orders, op.upto \in 0 .. Len(executed), NEW f \in NextFill
    PROVE  /\ f \in FillRecord /\ f.order = op.order
           /\ \/ \E m \in 1 .. op.upto :
                   /\ f = Trade(m) /\ executed[m] = op.order
                   /\ \A i \in 1 .. m : i # m /\ executed[i] = op.order => OnRecord(i)
              \/ /\ f.key = 2 * op.upto + 1 /\ op.details # "trades"
                 /\ Recorded(op.order) < Reported /\ f.qty = Reported - Recorded(op.order)
<1>1. executed \in Seq(Orders) /\ ledger \in Seq(FillRecord)
  BY BaseTypes
<1>2. Reported \in Nat /\ Recorded(op.order) \in Nat
  <2>1. Reported \in Nat
    BY <1>1, ExecutedTyped DEF Reported
  <2>2. Recorded(op.order) \in Nat
    BY <1>1, UnitsInAll, UnitsTyped
  <2> QED BY <2>1, <2>2
<1>3. CASE op.details = "trades"
  <2>1. Missing # {} /\ f = Trade(Min(Missing)) /\ Missing \in SUBSET Nat
    BY <1>3 DEF NextFill, Missing
  <2>2. PICK m \in Missing : \A i \in Missing : m <= i
    <3> HIDE DEF Missing
    <3> QED BY <2>1, Smallest
  <2>3. Min(Missing) \in Missing /\ \A i \in Missing : Min(Missing) <= i
    <3> HIDE DEF Missing
    <3> QED BY <2>2 DEF Min
  <2> DEFINE l == Min(Missing)
  <2>4. l \in 1 .. op.upto /\ executed[l] = op.order
    BY <2>3 DEF Missing
  <2>5. ASSUME NEW i \in 1 .. l, i # l, executed[i] = op.order PROVE OnRecord(i)
    <3>1. i \in 1 .. op.upto /\ i < l
      BY <2>4, <2>5
    <3>2. i \notin Missing
      <4>1. i \in Nat /\ l \in Nat
        BY <2>4, <3>1
      <4>2. \A k \in Missing : l <= k
        BY <2>3
      <4> HIDE DEF Missing, l
      <4> QED BY <3>1, <4>1, <4>2
    <3>3. Trade(i) \in ToSet(ledger)
      BY <2>5, <3>1, <3>2 DEF Missing
    <3> QED BY <3>3 DEF ToSet, OnRecord
  <2>6. Trade(l) \in FillRecord /\ Trade(l).order = op.order
    <3>1. l \in Nat /\ 2 * l \in Nat /\ 1 \in Nat \ {0}
      BY <2>4
    <3> HIDE DEF l
    <3> QED BY <2>4, <3>1 DEF Trade, FillRecord
  <2> HIDE DEF l
  <2>7. f = Trade(l)
    BY <2>1 DEF l
  <2> QED BY <2>4, <2>5, <2>6, <2>7
<1>4. CASE op.details # "trades"
  <2>1. op.details # "trades" /\ Recorded(op.order) < Reported /\ f = Inferred(op.order, Reported - Recorded(op.order))
    BY <1>4, <1>2 DEF NextFill
  <2>2. Reported - Recorded(op.order) \in Nat \ {0} /\ 2 * op.upto + 1 \in Nat
    BY <1>2, <2>1
  <2> QED BY <2>1, <2>2 DEF Inferred, FillRecord
<1> QED BY <1>3, <1>4

(* What a rebuild makes of the checkpoint.                                  *)
LEMMA RebuildGives ==
    ASSUME Typed, Flagged, checkpoint.fills <= Len(ledger), Rebuild
    PROVE  /\ checkpoint' \in [books : [Symbols -> Seq(Lot)], issues : SUBSET Nat,
                              invalid : SUBSET Symbols, last : Nat, fills : Nat]
           /\ lots' \in [Symbols -> Seq(Lot)]
           /\ checkpoint'.fills = Len(ledger)
           /\ checkpoint'.issues = {} =>
                /\ checkpoint.issues = {} /\ checkpoint'.invalid = {}
                /\ checkpoint.last <= checkpoint'.last
                /\ \A k \in checkpoint.fills + 1 .. Len(ledger) :
                     checkpoint.last <= ledger[k].key /\ ledger[k].key <= checkpoint'.last
<1> DEFINE fs == SubSeq(ledger, checkpoint.fills + 1, Len(ledger))
           out == Applied(checkpoint, fs)
<1>1. /\ ledger \in Seq(FillRecord) /\ Len(ledger) \in Nat /\ Books(checkpoint)
      /\ checkpoint.fills \in Nat
      /\ checkpoint.issues = {} => checkpoint.invalid = {}
  BY BaseTypes DEF Flagged
<1>2. /\ fs \in Seq(FillRecord)
      /\ DOMAIN fs = 1 .. Len(ledger) - checkpoint.fills
      /\ \A i \in DOMAIN fs : fs[i] = ledger[checkpoint.fills + i]
  <2>1. /\ \A k \in 1 .. Len(ledger) - checkpoint.fills : fs[k] = ledger[checkpoint.fills + k]
        /\ fs \in Seq(FillRecord) /\ DOMAIN fs = 1 .. Len(ledger) - checkpoint.fills
    BY <1>1, FillsBetween
  <2> HIDE DEF fs
  <2> QED BY <2>1
<1>3. checkpoint' = [books |-> out.books, issues |-> out.issues, invalid |-> out.invalid,
                     last |-> out.last, fills |-> Len(ledger)]
  BY DEF Rebuild, Projection
<1> HIDE DEF fs, out
<1>4. out \in Work(IdsOf(fs))
  BY <1>1, <1>2, AppliedTyped DEF out
<1>5. /\ out.books \in [Symbols -> Seq(Lot)] /\ out.issues \in SUBSET Nat
      /\ out.invalid \in SUBSET Symbols /\ out.last \in Nat
  <2>1. IdsOf(fs) \in SUBSET Nat
    <3>1. \A f \in FillRecord : f.id \in Nat
      BY DEF FillRecord
    <3> QED BY <1>2, <3>1, KeysOfFills DEF IdsOf
  <2> QED BY <1>4, <2>1 DEF Work
<1>6. out.issues = {} =>
        /\ checkpoint.issues = {} /\ out.invalid = {} /\ checkpoint.last <= out.last
        /\ \A i \in DOMAIN fs : checkpoint.last <= fs[i].key /\ fs[i].key <= out.last
  <2>1. checkpoint.issues = {} => checkpoint.invalid = {}
    BY <1>1
  <2> QED BY <1>1, <1>2, <2>1, AppliedInOrder DEF out
<1>7. ASSUME out.issues = {}, NEW k \in checkpoint.fills + 1 .. Len(ledger)
      PROVE  checkpoint.last <= ledger[k].key /\ ledger[k].key <= out.last
  <2>1. k - checkpoint.fills \in 1 .. Len(ledger) - checkpoint.fills /\ checkpoint.fills + (k - checkpoint.fills) = k
    BY <1>1, <1>2
  <2>2. k - checkpoint.fills \in DOMAIN fs /\ fs[k - checkpoint.fills] = ledger[k]
    BY <1>2, <2>1
  <2> QED BY <1>6, <1>7, <2>2
<1>8. lots' = out.books
  BY <1>3 DEF Rebuild
<1> QED BY <1>1, <1>3, <1>5, <1>6, <1>7, <1>8

LEMMA BaseInit == Init => Base
<1> SUFFICES ASSUME Init PROVE Base
  OBVIOUS
<1>1. Typed
  <2>1. NoOp \in [order : Orders \cup {""}, upto : Nat, ended : BOOLEAN,
                 details : Details \cup {""}, sync : BOOLEAN]
    BY DEF NoOp
  <2>2. EmptyBooks \in [Symbols -> Seq(Lot)]
    BY DEF EmptyBooks
  <2>3. NewCheckpoint \in [books : [Symbols -> Seq(Lot)], issues : SUBSET Nat,
                          invalid : SUBSET Symbols, last : Nat, fills : Nat]
    BY <2>2 DEF NewCheckpoint
  <2>4. 0 \in 0 .. MaxFaults /\ \A o \in Orders : 0 \in 0 .. Qty[o] /\ "created" \in Status
    BY FillFlowAssumption DEF Status
  <2>5. /\ executed \in Seq(Orders) /\ ledger \in Seq(FillRecord)
        /\ venue \in [Orders -> {"none", "working", "ended"}]
        /\ row \in [Orders -> Status] /\ filled \in [Orders -> Nat]
        /\ positions \in [Symbols -> Nat] /\ reserved \in [Orders -> Nat]
        /\ \A o \in Orders : reserved[o] \in 0 .. Qty[o]
    BY <2>4 DEF Init
  <2>6. /\ attempted = {} /\ asked = {} /\ lots = EmptyBooks /\ checkpoint = NewCheckpoint
        /\ issues = FALSE /\ verified = FALSE /\ mode = "down" /\ pc = "top" /\ op = NoOp
        /\ faults = 0
    BY DEF Init
  <2> QED BY <2>1, <2>2, <2>3, <2>4, <2>5, <2>6 DEF Typed, TypeOK
<1>2. \A o \in Orders : ExecutedQty(o) = 0
  <2>1. ASSUME NEW o PROVE ExecutedQty(o) = 0
    <3>1. Len(executed) = 0
      BY DEF Init
    <3>2. Among(executed, {o}, 0) = {}
      BY DEF Among
    <3> QED BY <3>1, <3>2, ExecutedCount, FS_EmptySet DEF ExecutedQty
  <2> QED BY <2>1
<1>3. \A s \in Symbols : VenuePosition(s) >= 0
  <2>1. ASSUME NEW S PROVE ExecutedFor(S) = 0
    <3>1. {i \in DOMAIN executed : executed[i] \in S} = {}
      BY DEF Init
    <3> QED BY <3>1, FS_EmptySet, Zenon DEF ExecutedFor
  <2> QED BY <2>1 DEF VenuePosition
<1>4. AtVenue /\ Rows
  BY <1>2, <1>3, FillFlowAssumption DEF Init, AtVenue, Rows, TERMINAL_STATUSES
<1>5. AtWork /\ Written /\ Flagged
  BY DEF Init, AtWork, Written, Flagged, NewCheckpoint
<1> QED BY <1>1, <1>4, <1>5 DEF Base

-----------------------------------------------------------------------------
(* The types, step by step.                                                 *)

OpRecord == [order : Orders \cup {""}, upto : Nat, ended : BOOLEAN,
             details : Details \cup {""}, sync : BOOLEAN]

LEMMA PublishTyped ==
    ASSUME Typed, NEW o \in Orders, NEW status \in Status, Publish(o, status)
    PROVE  /\ row' \in [Orders -> Status] /\ reserved' \in [Orders -> Nat]
           /\ \A p \in Orders : reserved'[p] \in 0 .. Qty[p]
<1>1. Qty[o] \in Nat
  BY FillFlowAssumption
<1>2. 0 \in 0 .. Qty[o]
  BY <1>1
<1>3. row \in [Orders -> Status] /\ reserved \in [Orders -> Nat]
      /\ \A p \in Orders : reserved[p] \in 0 .. Qty[p]
  BY DEF Typed, TypeOK
<1>4. reserved' = [reserved EXCEPT ![o] = IF status \in RELEASING_STATUSES THEN 0 ELSE @]
      /\ row' = [row EXCEPT ![o] = status]
  BY DEF Publish
<1> QED BY <1>2, <1>3, <1>4

LEMMA ReadTyped ==
    ASSUME Typed, NEW o \in Orders, NEW d \in Details, NEW sync \in BOOLEAN, Read(o, d, sync)
    PROVE  pc' = "persist" /\ op' \in OpRecord
<1>1. Len(executed) \in Nat
  BY BaseTypes
<1> QED BY <1>1 DEF Read, OpRecord

LEMMA SyncTyped ==
    ASSUME Typed, AtVenue, Flagged, checkpoint.fills <= Len(ledger), Synced \/ SyncFails
    PROVE  /\ positions' \in [Symbols -> Nat] /\ issues' \in BOOLEAN /\ verified' \in BOOLEAN
           /\ checkpoint' \in [books : [Symbols -> Seq(Lot)], issues : SUBSET Nat,
                              invalid : SUBSET Symbols, last : Nat, fills : Nat]
           /\ lots' \in [Symbols -> Seq(Lot)] /\ faults' \in 0 .. MaxFaults
<1>1. CASE Synced
  <2>1. \A s \in Symbols : VenuePosition(s) \in Nat
    <3>1. ASSUME NEW S PROVE ExecutedFor(S) \in Nat
      BY BaseTypes, ExecutedForCount, AmongFinite
    <3> QED BY <3>1 DEF VenuePosition, AtVenue
  <2>2. positions' \in [Symbols -> Nat]
    BY <1>1, <2>1 DEF Synced
  <2>3. Rebuild /\ issues' \in BOOLEAN /\ verified' \in BOOLEAN /\ UNCHANGED faults
    BY <1>1 DEF Synced, Report, HasIssues
  <2> QED BY <2>2, <2>3, RebuildGives DEF Typed, TypeOK
<1>2. CASE SyncFails
  <2>1. faults' \in 0 .. MaxFaults
    <3>1. MaxFaults \in Nat /\ faults \in 0 .. MaxFaults /\ faults < MaxFaults /\ faults' = faults + 1
      BY <1>2, FillFlowAssumption DEF SyncFails, Typed, TypeOK
    <3> QED BY <3>1
  <2> QED BY <1>2, <2>1 DEF SyncFails, Typed, TypeOK
<1> QED BY <1>1, <1>2

LEMMA ReportedTyped ==
    ASSUME Typed, AtWork, pc \in {"persist", "publish"}
    PROVE  op.order \in Orders /\ Reported \in Nat /\ NewStatus \in Status
<1>1. op.order \in Orders /\ op.upto \in 0 .. Len(executed)
  BY DEF AtWork, Typed, TypeOK
<1>2. Reported \in Nat
  BY <1>1, BaseTypes, ExecutedTyped DEF Reported
<1> QED BY <1>1, <1>2 DEF NewStatus, ParsedStatus, Status

(* What the venue has done, a row, its reservation and the operation under  *)
(* way may change; the rest stays.                                          *)
LEMMA TypedFrame ==
    ASSUME Typed,
           executed' \in Seq(Orders), venue' \in [Orders -> {"none", "working", "ended"}],
           row' \in [Orders -> Status], reserved' \in [Orders -> Nat],
           \A p \in Orders : reserved'[p] \in 0 .. Qty[p],
           pc' \in {"top", "send", "answer", "persist", "publish", "sync"},
           op' \in OpRecord,
           UNCHANGED <<attempted, filled, ledger, checkpoint, lots, issues, positions, verified,
                       mode, asked, faults>>
    PROVE  Typed'
<1>1. /\ attempted' \subseteq Orders /\ filled' \in [Orders -> Nat]
      /\ ledger' \in Seq(FillRecord) /\ lots' \in [Symbols -> Seq(Lot)]
  BY DEF Typed, TypeOK
<1>2. checkpoint' \in [books : [Symbols -> Seq(Lot)], issues : SUBSET Nat,
                       invalid : SUBSET Symbols, last : Nat, fills : Nat]
  BY DEF Typed, TypeOK
<1>3. /\ issues' \in BOOLEAN /\ verified' \in BOOLEAN /\ positions' \in [Symbols -> Nat]
      /\ mode' \in {"down", "idle", "recover", "manage", "batch"} /\ asked' \subseteq Orders
      /\ faults' \in 0 .. MaxFaults
  BY DEF Typed, TypeOK
<1> QED BY <1>1, <1>2, <1>3 DEF Typed, TypeOK, OpRecord

LEMMA TypedStep == ASSUME Base, Next PROVE Typed'
<1> USE DEF Base
<1>a. /\ executed \in Seq(Orders) /\ venue \in [Orders -> {"none", "working", "ended"}]
      /\ row \in [Orders -> Status] /\ reserved \in [Orders -> Nat]
      /\ \A p \in Orders : reserved[p] \in 0 .. Qty[p]
      /\ pc \in {"top", "send", "answer", "persist", "publish", "sync"}
      /\ op \in OpRecord
  BY DEF Typed, TypeOK, OpRecord
<1>1. ASSUME NEW o \in Orders, VenueFills(o) PROVE Typed'
  <2>1. executed' \in Seq(Orders) /\ venue' \in [Orders -> {"none", "working", "ended"}]
    <3>1. executed' = Append(executed, o)
          /\ venue' = [venue EXCEPT ![o] = IF ExecutedQty(o) + 1 = Qty[o] THEN "ended" ELSE @]
      BY <1>1 DEF VenueFills
    <3>2. executed \in Seq(Orders) /\ venue \in [Orders -> {"none", "working", "ended"}]
      BY DEF Typed, TypeOK
    <3> QED BY <3>1, <3>2
  <2>2. UNCHANGED <<durable, memory, control, faults>>
    BY <1>1 DEF VenueFills
  <2> QED BY <1>a, <2>1, <2>2, TypedFrame, Zenon DEF durable, memory, control
<1>2. ASSUME NEW o \in Orders, VenueEnds(o) PROVE Typed'
  <2>1. executed' = executed /\ venue' = [venue EXCEPT ![o] = "ended"]
        /\ UNCHANGED <<durable, memory, control, faults>>
    BY <1>2 DEF VenueEnds
  <2>2. venue' \in [Orders -> {"none", "working", "ended"}]
    BY <1>a, <2>1
  <2> QED BY <1>a, <2>1, <2>2, TypedFrame, Zenon DEF durable, memory, control
<1>3. ASSUME NEW o \in Orders, Approve(o) PROVE Typed'
  <2>1. CASE Submittable(o)
    <3>1. row' \in [Orders -> Status] /\ "submitting" \in Status
      BY <1>3, <2>1 DEF Approve, Typed, TypeOK, Status
    <3>2. reserved' \in [Orders -> Nat] /\ \A p \in Orders : reserved'[p] \in 0 .. Qty[p]
      <4>1. Qty[o] \in Nat
        BY FillFlowAssumption
      <4>2. Qty[o] \in 0 .. Qty[o] /\ 0 \in 0 .. Qty[o]
        BY <4>1
      <4>3. reserved' = [reserved EXCEPT ![o] = IF o \in Opening THEN Qty[o] ELSE 0]
        BY <1>3, <2>1 DEF Approve
      <4>4. reserved \in [Orders -> Nat] /\ \A p \in Orders : reserved[p] \in 0 .. Qty[p]
        BY DEF Typed, TypeOK
      <4> QED BY <4>1, <4>2, <4>3, <4>4
    <3>3. op' \in OpRecord /\ pc' = "send"
      <4>1. op' = [NoOp EXCEPT !.order = o] /\ pc' = "send"
        BY <1>3, <2>1 DEF Approve
      <4>2. NoOp \in OpRecord
        BY DEF NoOp, OpRecord
      <4> QED BY <4>1, <4>2 DEF OpRecord
    <3>4. /\ UNCHANGED <<market, attempted, filled, ledger, checkpoint, lots, issues,
                        positions, verified, mode, asked, faults>>
      BY <1>3 DEF Approve
    <3> QED BY <1>a, <3>1, <3>2, <3>3, <3>4, TypedFrame, Zenon DEF market
  <2>2. CASE ~Submittable(o)
    <3>1. Publish(o, "rejected") /\ UNCHANGED <<pc, op>>
      BY <1>3, <2>2 DEF Approve
    <3>2. "rejected" \in Status
      BY DEF Status
    <3>3. row' \in [Orders -> Status] /\ reserved' \in [Orders -> Nat]
          /\ \A p \in Orders : reserved'[p] \in 0 .. Qty[p]
      BY <3>1, <3>2, PublishTyped
    <3>4. /\ UNCHANGED <<market, attempted, filled, ledger, checkpoint, lots, issues,
                        positions, verified, mode, asked, faults>>
      BY <1>3 DEF Approve
    <3> QED BY <1>a, <3>1, <3>3, <3>4, TypedFrame, Zenon DEF market
  <2> QED BY <2>1, <2>2
<1>4. ASSUME NEW o \in Orders, Reconcile(o) PROVE Typed'
  <2>1. CASE UNCHANGED <<row, reserved>> /\ \E d \in Details : Read(o, d, TRUE)
    BY <1>4, <2>1, ReadTyped DEF Reconcile, Typed, TypeOK, OpRecord
  <2>2. CASE Publish(o, "unknown") /\ UNCHANGED <<pc, op>>
    <3>1. "unknown" \in Status
      BY DEF Status
    <3>2. row' \in [Orders -> Status] /\ reserved' \in [Orders -> Nat]
          /\ \A p \in Orders : reserved'[p] \in 0 .. Qty[p]
      BY <2>2, <3>1, PublishTyped
    <3>3. /\ UNCHANGED <<venue, executed>>
          /\ UNCHANGED <<attempted, filled, ledger, checkpoint, lots, issues, positions, verified,
                         mode, asked, faults>>
      BY <1>4 DEF Reconcile
    <3> QED BY <1>a, <2>2, <3>2, <3>3, TypedFrame, Zenon
  <2> QED BY <1>4, <2>1, <2>2 DEF Reconcile
<1>5. ASSUME NEW o \in Orders, Cancel(o) PROVE Typed'
  <2>1. row' \in [Orders -> Status] /\ venue' \in [Orders -> {"none", "working", "ended"}]
    BY <1>5 DEF Cancel, Typed, TypeOK, Status
  <2>2. pc' = "persist" /\ op' \in OpRecord
    BY <1>5, ReadTyped DEF Cancel
  <2>3. asked' \in SUBSET Orders
    BY <1>5 DEF Cancel, Typed, TypeOK
  <2> QED BY <1>5, <2>1, <2>2, <2>3 DEF Cancel, Typed, TypeOK, memory, OpRecord
<1>6. ASSUME NEW o \in Orders, ResolveUnsubmitted(o) PROVE Typed'
  <2>1. "expired_unsubmitted" \in Status
    BY DEF Status
  <2>2. /\ Publish(o, "expired_unsubmitted") /\ UNCHANGED <<executed, venue, pc, op>>
        /\ UNCHANGED <<attempted, filled, ledger, checkpoint, lots, issues, positions, verified,
                       mode, asked, faults>>
    BY <1>6 DEF ResolveUnsubmitted, market, control
  <2>3. row' \in [Orders -> Status] /\ reserved' \in [Orders -> Nat]
        /\ \A p \in Orders : reserved'[p] \in 0 .. Qty[p]
    BY <2>1, <2>2, PublishTyped
  <2> QED BY <1>a, <2>2, <2>3, TypedFrame, Zenon
<1>7. CASE Start
  <2>1. Rebuild /\ issues' \in BOOLEAN
    BY <1>7 DEF Start, HasIssues
  <2>2. reserved' \in [Orders -> Nat] /\ \A o \in Orders : reserved'[o] \in 0 .. Qty[o]
    <3>1. \A o \in Orders : Restored(o) \in 0 .. Qty[o] /\ Restored(o) \in Nat
      BY FillFlowAssumption DEF Restored
    <3> QED BY <1>7, <3>1 DEF Start
  <2> QED BY <1>7, <2>1, <2>2, RebuildGives DEF Start, Written, Typed, TypeOK, market
<1>8. CASE StartTick
  <2>1. Synced \/ SyncFails
    BY <1>8 DEF StartTick
  <2> QED BY <1>8, <2>1, SyncTyped DEF StartTick, Written, Typed, TypeOK, market
<1>9. CASE CheckAccount
  <2>1. Rebuild /\ issues' \in BOOLEAN /\ verified' \in BOOLEAN
    BY <1>9 DEF CheckAccount, Report, HasIssues
  <2> QED BY <1>9, <2>1, RebuildGives DEF CheckAccount, Written, Typed, TypeOK, market
<1>10. CASE StartBatch
  BY <1>10 DEF StartBatch, Typed, TypeOK, market, durable, memory
<1>11. CASE EndTick
  BY <1>11 DEF EndTick, Typed, TypeOK, market, durable, memory
<1>12. CASE Send
  <2>1. op.order \in Orders
    BY <1>12 DEF Send, At, AtWork
  <2>2. /\ attempted' \in SUBSET Orders
        /\ pc' \in {"answer", "top"} /\ op' \in {op, NoOp}
    BY <1>12, <2>1 DEF Send, Typed, TypeOK
  <2>3. NoOp \in OpRecord /\ op \in OpRecord
    BY DEF NoOp, OpRecord, Typed, TypeOK
  <2>4. CASE venue' = [venue EXCEPT ![op.order] = "working"] /\ UNCHANGED <<row, reserved>>
    <3>1. venue' \in [Orders -> {"none", "working", "ended"}]
      BY <2>1, <2>4 DEF Typed, TypeOK
    <3> QED BY <1>12, <2>2, <2>3, <2>4, <3>1 DEF Send, Typed, TypeOK, OpRecord
  <2>5. ASSUME UNCHANGED venue, NEW status \in {"unknown", "rejected"}, Publish(op.order, status)
        PROVE  Typed'
    <3>1. status \in Status
      BY DEF Status
    <3> QED BY <1>12, <2>1, <2>2, <2>3, <2>5, <3>1, PublishTyped DEF Send, Typed, TypeOK, OpRecord
  <2> QED BY <1>12, <2>4, <2>5 DEF Send
<1>13. CASE Answer
  <2>1. op.order \in Orders
    BY <1>13 DEF Answer, At, AtWork, Typed, TypeOK
  <2>2. CASE UNCHANGED <<row, reserved>> /\ \E d \in Details : Read(op.order, d, TRUE)
    BY <1>13, <2>1, <2>2, ReadTyped DEF Answer, Typed, TypeOK, OpRecord
  <2>3. CASE Publish(op.order, "unknown") /\ pc' = "top" /\ op' = NoOp
    <3>1. "unknown" \in Status /\ NoOp \in OpRecord
      BY DEF Status, NoOp, OpRecord
    <3>2. row' \in [Orders -> Status] /\ reserved' \in [Orders -> Nat]
          /\ \A p \in Orders : reserved'[p] \in 0 .. Qty[p]
      BY <2>1, <2>3, <3>1, PublishTyped
    <3>3. /\ UNCHANGED <<venue, executed>>
          /\ UNCHANGED <<attempted, filled, ledger, checkpoint, lots, issues, positions, verified,
                         mode, asked, faults>>
      BY <1>13 DEF Answer
    <3> QED BY <1>a, <2>3, <3>1, <3>2, <3>3, TypedFrame, Zenon
  <2> QED BY <1>13, <2>2, <2>3 DEF Answer
<1>14. CASE AddFill
  <2>1. PICK f \in NextFill : ledger' = Append(ledger, f)
    BY <1>14 DEF AddFill
  <2>2. op.order \in Orders /\ op.upto \in 0 .. Len(executed)
    BY <1>14, ReportedTyped DEF AddFill, At, AtWork
  <2>3. f \in FillRecord
    BY <2>2, NextFillIs
  <2>4. ledger' \in Seq(FillRecord)
    BY <2>1, <2>3, BaseTypes
  <2> QED BY <1>14, <2>4 DEF AddFill, Typed, TypeOK, market, memory
<1>15. CASE PublishFill
  <2>1. Rebuild /\ issues' \in BOOLEAN
    BY <1>15 DEF PublishFill, HasIssues
  <2>2. op.order \in Orders /\ reserved[op.order] \in 0 .. Qty[op.order] /\ Qty[op.order] \in Nat
    BY <1>15, ReportedTyped, FillFlowAssumption DEF PublishFill, At, Typed, TypeOK
  <2>3. Last(ledger).qty \in Nat
    <3>1. Len(ledger) \in DOMAIN ledger
      BY <1>15, BaseTypes DEF PublishFill, At, Written
    <3> QED BY <3>1, BaseTypes, KeysOfFills DEF Last, FillRecord
  <2>4. Consumed(op.order, Last(ledger).qty) \in 0 .. Qty[op.order]
    BY <2>2, <2>3 DEF Consumed
  <2>5. reserved' = [reserved EXCEPT ![op.order] = Consumed(op.order, Last(ledger).qty)]
    BY <1>15 DEF PublishFill
  <2>6. reserved' \in [Orders -> Nat] /\ \A o \in Orders : reserved'[o] \in 0 .. Qty[o]
    <3> DEFINE q == Consumed(op.order, Last(ledger).qty)
    <3>1. q \in Nat /\ q \in 0 .. Qty[op.order]
      BY <2>2, <2>4
    <3> HIDE DEF q
    <3>2. reserved' = [reserved EXCEPT ![op.order] = q]
      BY <2>5 DEF q
    <3> QED BY <2>2, <3>1, <3>2 DEF Typed, TypeOK
  <2> QED BY <1>15, <2>1, <2>6, RebuildGives DEF PublishFill, Written, Typed, TypeOK, market
<1>16. CASE PublishRaises
  <2>1. Projection.books \in [Symbols -> Seq(Lot)]
    <3> DEFINE fs == SubSeq(ledger, checkpoint.fills + 1, Len(ledger))
    <3>1. fs \in Seq(FillRecord)
      BY BaseTypes, FillsBetween DEF Written
    <3> HIDE DEF fs
    <3>2. Applied(checkpoint, fs) \in Work(IdsOf(fs))
      BY <3>1, BaseTypes, AppliedTyped
    <3>3. Projection.books = Applied(checkpoint, fs).books
      BY DEF Projection, fs
    <3> QED BY <3>2, <3>3 DEF Work
  <2>2. lots' \in [Symbols -> Seq(Lot)] /\ NoOp \in OpRecord
    BY <1>16, <2>1 DEF PublishRaises, Typed, TypeOK, NoOp, OpRecord
  <2>3. faults' \in 0 .. MaxFaults
    <3>1. MaxFaults \in Nat /\ faults \in 0 .. MaxFaults /\ faults < MaxFaults /\ faults' = faults + 1
      BY <1>16, FillFlowAssumption DEF PublishRaises, Typed, TypeOK
    <3> QED BY <3>1
  <2> QED BY <1>16, <2>2, <2>3 DEF PublishRaises, Typed, TypeOK, OpRecord, market, durable
<1>17. CASE FinishPersist
  <2>1. op.order \in Orders /\ Reported \in Nat /\ NewStatus \in Status
    BY <1>17, ReportedTyped DEF FinishPersist, At
  <2>2. Publish(op.order, NewStatus) /\ filled' \in [Orders -> Nat]
    BY <1>17, <2>1 DEF FinishPersist, UpdateRow, Typed, TypeOK
  <2>3. pc' \in {"sync", "top"} /\ op' = NoOp /\ NoOp \in OpRecord
    BY <1>17 DEF FinishPersist, NoOp, OpRecord
  <2> QED BY <1>17, <2>1, <2>2, <2>3, PublishTyped DEF FinishPersist, Typed, TypeOK, OpRecord, market
<1>18. CASE SyncAfter
  <2>1. Synced \/ SyncFails
    BY <1>18 DEF SyncAfter
  <2> QED BY <1>18, <2>1, SyncTyped DEF SyncAfter, Written, Typed, TypeOK, market
<1>19. CASE Crash
  <2>1. NoOp \in OpRecord /\ EmptyBooks \in [Symbols -> Seq(Lot)] /\ faults' \in 0 .. MaxFaults
    <3>1. MaxFaults \in Nat /\ faults \in 0 .. MaxFaults /\ faults < MaxFaults /\ faults' = faults + 1
      BY <1>19, FillFlowAssumption DEF Crash, Typed, TypeOK
    <3>2. NoOp \in OpRecord
      BY DEF NoOp, OpRecord
    <3> QED BY <3>1, <3>2 DEF EmptyBooks
  <2>2. /\ positions' \in [Symbols -> Nat] /\ reserved' \in [Orders -> Nat]
        /\ \A o \in Orders : reserved'[o] \in 0 .. Qty[o]
    BY <1>19, FillFlowAssumption DEF Crash
  <2> QED BY <1>19, <2>1, <2>2 DEF Crash, Typed, TypeOK, OpRecord, market, durable
<1> QED
  BY <1>1, <1>2, <1>3, <1>4, <1>5, <1>6, <1>7, <1>8, <1>9, <1>10, <1>11, <1>12, <1>13, <1>14,
     <1>15, <1>16, <1>17, <1>18, <1>19 DEF Next

-----------------------------------------------------------------------------
(* The venue and the rows, step by step.                                    *)

LEMMA SameTrades ==
    ASSUME UNCHANGED executed
    PROVE  /\ \A p, n : ExecutedOf(p, n)' = ExecutedOf(p, n)
           /\ \A p : ExecutedQty(p)' = ExecutedQty(p)
           /\ \A s : VenuePosition(s)' = VenuePosition(s)
  BY DEF ExecutedOf, ExecutedQty, VenuePosition, ExecutedFor

LEMMA OneMoreTrade ==
    ASSUME executed \in Seq(Orders), NEW o \in Orders, executed' = Append(executed, o)
    PROVE  /\ Len(executed)' = Len(executed) + 1
           /\ \A i \in 1 .. Len(executed) : executed'[i] = executed[i]
           /\ \A p, n : n \in 0 .. Len(executed) => ExecutedOf(p, n)' = ExecutedOf(p, n)
           /\ ExecutedQty(o)' = ExecutedQty(o) + 1
           /\ \A p : p # o => ExecutedQty(p)' = ExecutedQty(p)
           /\ \A S : ExecutedFor(S)' = ExecutedFor(S) + (IF o \in S THEN 1 ELSE 0)
<1>1. /\ Len(executed)' = Len(executed) + 1 /\ Len(executed) \in Nat
      /\ \A i \in 1 .. Len(executed) : executed'[i] = executed[i]
  OBVIOUS
<1>2. ASSUME NEW p, NEW n
      PROVE  ExecutedOf(p, n) = Cardinality(Among(executed, {p}, n))
             /\ ExecutedOf(p, n)' = Cardinality(Among(executed', {p}, n))
  BY DEF ExecutedOf, Among
<1>3. ASSUME NEW p, NEW n \in 0 .. Len(executed) PROVE ExecutedOf(p, n)' = ExecutedOf(p, n)
  <2>1. \A k \in 0 .. Len(executed) :
          Among(Append(executed, o), {p}, k) = Among(executed, {p}, k)
    BY AmongGrows
  <2>2. Among(executed', {p}, n) = Among(executed, {p}, n)
    BY <2>1
  <2> QED BY <1>2, <2>2
<1>4. ASSUME NEW p
      PROVE  ExecutedQty(p)' = ExecutedQty(p) + (IF o = p THEN 1 ELSE 0) /\ ExecutedQty(p) \in Nat
  <2>1. ExecutedQty(p) = Cardinality(Among(executed, {p}, Len(executed)))
    BY <1>2 DEF ExecutedQty
  <2>2. ExecutedQty(p)' = Cardinality(Among(executed', {p}, Len(executed')))
    BY <1>2 DEF ExecutedQty, ExecutedOf, Among
  <2>3. Cardinality(Among(executed, {p}, Len(executed))) \in Nat
    BY <1>1, AmongFinite
  <2>4. Cardinality(Among(executed', {p}, Len(executed'))) =
          Cardinality(Among(executed, {p}, Len(executed))) + (IF o \in {p} THEN 1 ELSE 0)
    BY AmongGrows
  <2> QED BY <2>1, <2>2, <2>3, <2>4
<1>5. ASSUME NEW S PROVE ExecutedFor(S)' = ExecutedFor(S) + (IF o \in S THEN 1 ELSE 0)
  <2>1. ExecutedFor(S) = Cardinality(Among(executed, S, Len(executed)))
    BY ExecutedForCount
  <2>2. ExecutedFor(S)' = Cardinality(Among(executed', S, Len(executed')))
    <3>1. DOMAIN executed' = 1 .. Len(executed')
      BY <1>1
    <3> QED BY <3>1 DEF ExecutedFor, Among
  <2> QED BY <2>1, <2>2, AmongGrows
<1> QED BY <1>1, <1>3, <1>4, <1>5

LEMMA AtVenueStep == ASSUME Base, Next PROVE AtVenue'
<1> USE DEF Base
<1>1. ASSUME NEW o \in Orders, VenueFills(o) PROVE AtVenue'
  <2>1. /\ executed \in Seq(Orders) /\ executed' = Append(executed, o)
        /\ venue[o] = "working" /\ UNCHANGED attempted
        /\ venue \in [Orders -> {"none", "working", "ended"}]
        /\ venue' = [venue EXCEPT ![o] = IF ExecutedQty(o) + 1 = Qty[o] THEN "ended" ELSE @]
        /\ Qty[o] \in Nat
    BY <1>1, FillFlowAssumption DEF VenueFills, Typed, TypeOK, durable
  <2>2. /\ ExecutedQty(o)' = ExecutedQty(o) + 1 /\ ExecutedQty(o) \in Nat
        /\ \A p : p # o => ExecutedQty(p)' = ExecutedQty(p)
        /\ \A S : ExecutedFor(S)' = ExecutedFor(S) + (IF o \in S THEN 1 ELSE 0)
    <3>1. Len(executed) \in 0 .. Len(executed)
      BY BaseTypes
    <3> QED BY <2>1, <3>1, OneMoreTrade, ExecutedTyped
  <2>3. ASSUME NEW p \in Orders
        PROVE  /\ ExecutedQty(p)' <= Qty[p]
               /\ venue'[p] = "working" => ExecutedQty(p)' < Qty[p]
               /\ venue'[p] = "none" => ExecutedQty(p)' = 0
               /\ p \notin attempted' => venue'[p] = "none"
    <3>1. CASE p = o
      BY <2>1, <2>2, <3>1 DEF AtVenue
    <3>2. CASE p # o
      BY <2>1, <2>2, <3>2 DEF AtVenue
    <3> QED BY <3>1, <3>2
  <2>4. ASSUME NEW s \in Symbols PROVE VenuePosition(s)' >= 0
    <3> DEFINE in == OrdersOf(s) \cap Opening
               out == OrdersOf(s) \ Opening
    <3>1. ExecutedFor(in) \in Nat /\ ExecutedFor(out) \in Nat
      <4>1. ASSUME NEW S PROVE ExecutedFor(S) \in Nat
        BY BaseTypes, ExecutedForCount, AmongFinite
      <4> QED BY <4>1
    <3>2. /\ ExecutedFor(in)' = ExecutedFor(in) + (IF o \in in THEN 1 ELSE 0)
          /\ ExecutedFor(out)' = ExecutedFor(out) + (IF o \in out THEN 1 ELSE 0)
      BY <2>2
    <3>3. VenuePosition(s) = ExecutedFor(in) - ExecutedFor(out)
      BY DEF VenuePosition
    <3>4. VenuePosition(s)' = ExecutedFor(in)' - ExecutedFor(out)'
      BY DEF VenuePosition, OrdersOf, ExecutedFor
    <3>5. VenuePosition(s) >= 0
      BY DEF AtVenue
    <3>6. o \in out => o \notin in /\ VenuePosition(s) > 0
      <4>1. o \in out => SymbolOf[o] = s /\ o \notin Opening
        BY DEF OrdersOf
      <4> QED BY <1>1, <4>1 DEF VenueFills
    <3> HIDE DEF in, out
    <3> QED BY <3>1, <3>2, <3>3, <3>4, <3>5, <3>6
  <2> QED BY <2>3, <2>4 DEF AtVenue
<1>2. ASSUME UNCHANGED executed, NEW o \in Orders, UNCHANGED attempted, o \in attempted,
             venue' = [venue EXCEPT ![o] = "ended"]
      PROVE  AtVenue'
  <2>1. venue \in [Orders -> {"none", "working", "ended"}]
    BY DEF Typed, TypeOK
  <2>2. ASSUME NEW p \in Orders
        PROVE  /\ ExecutedQty(p)' <= Qty[p]
               /\ venue'[p] = "working" => ExecutedQty(p)' < Qty[p]
               /\ venue'[p] = "none" => ExecutedQty(p)' = 0
               /\ p \notin attempted' => venue'[p] = "none"
    BY <1>2, <2>1, SameTrades DEF AtVenue
  <2> QED BY <1>2, <2>2, SameTrades DEF AtVenue
<1>3. ASSUME UNCHANGED <<venue, executed>>, UNCHANGED attempted PROVE AtVenue'
  BY <1>3, SameTrades DEF AtVenue
<1>4. ASSUME NEW o \in Orders, VenueEnds(o) PROVE AtVenue'
  <2>1. o \in attempted
    BY <1>4 DEF VenueEnds, AtVenue
  <2> QED BY <1>2, <1>4, <2>1 DEF VenueEnds, durable
<1>5. ASSUME NEW o \in Orders, Cancel(o) PROVE AtVenue'
  <2>1. o \in attempted /\ UNCHANGED <<executed, attempted>>
    BY <1>5 DEF Cancel, Rows
  <2>2. UNCHANGED venue \/ venue' = [venue EXCEPT ![o] = "ended"]
    BY <1>5 DEF Cancel
  <2> QED BY <1>2, <1>3, <2>1, <2>2
<1>6. CASE Send
  <2>1. /\ op.order \in Orders /\ op.order \notin attempted
        /\ UNCHANGED executed /\ attempted' = attempted \cup {op.order}
        /\ UNCHANGED venue \/ venue' = [venue EXCEPT ![op.order] = "working"]
        /\ venue \in [Orders -> {"none", "working", "ended"}]
    BY <1>6 DEF Send, At, AtWork, Typed, TypeOK
  <2>2. ExecutedQty(op.order) = 0 /\ Qty[op.order] \in Nat \ {0}
    BY <2>1, FillFlowAssumption DEF AtVenue
  <2>3. ASSUME NEW p \in Orders
        PROVE  /\ ExecutedQty(p)' <= Qty[p]
               /\ venue'[p] = "working" => ExecutedQty(p)' < Qty[p]
               /\ venue'[p] = "none" => ExecutedQty(p)' = 0
               /\ p \notin attempted' => venue'[p] = "none"
    BY <2>1, <2>2, SameTrades DEF AtVenue
  <2> QED BY <2>1, <2>3, SameTrades DEF AtVenue
<1>7. ASSUME UNCHANGED market, UNCHANGED attempted PROVE AtVenue'
  BY <1>3, <1>7 DEF market
<1>8. ASSUME NEW o \in Orders, Approve(o) PROVE AtVenue'
  BY <1>7, <1>8 DEF Approve
<1>9. ASSUME NEW o \in Orders, Reconcile(o) PROVE AtVenue'
  BY <1>3, <1>9 DEF Reconcile
<1>10. ASSUME NEW o \in Orders, ResolveUnsubmitted(o) PROVE AtVenue'
  BY <1>7, <1>10 DEF ResolveUnsubmitted
<1>11. CASE Start
  BY <1>7, <1>11 DEF Start
<1>12. CASE StartTick
  BY <1>7, <1>12 DEF StartTick
<1>13. CASE CheckAccount
  BY <1>7, <1>13 DEF CheckAccount
<1>14. CASE StartBatch
  BY <1>7, <1>14 DEF StartBatch, durable
<1>15. CASE EndTick
  BY <1>7, <1>15 DEF EndTick, durable
<1>16. CASE Answer
  BY <1>3, <1>16 DEF Answer
<1>17. CASE AddFill
  BY <1>7, <1>17 DEF AddFill
<1>18. CASE PublishFill
  BY <1>7, <1>18 DEF PublishFill
<1>19. CASE PublishRaises
  BY <1>7, <1>19 DEF PublishRaises, durable
<1>20. CASE FinishPersist
  BY <1>7, <1>20 DEF FinishPersist
<1>21. CASE SyncAfter
  BY <1>7, <1>21 DEF SyncAfter
<1>22. CASE Crash
  BY <1>7, <1>22 DEF Crash, durable
<1> QED
  BY <1>1, <1>4, <1>5, <1>6, <1>8, <1>9, <1>10, <1>11, <1>12, <1>13, <1>14, <1>15, <1>16, <1>17,
     <1>18, <1>19, <1>20, <1>21, <1>22 DEF Next

LEMMA RowsStep == ASSUME Base, Next PROVE Rows'
<1> USE DEF Base
<1>1. /\ venue \in [Orders -> {"none", "working", "ended"}] /\ row \in [Orders -> Status]
      /\ filled \in [Orders -> Nat] /\ attempted \subseteq Orders /\ op.order \in Orders \cup {""}
      /\ \A o \in Orders : ExecutedQty(o) \in Nat /\ Qty[o] \in Nat \ {0}
  <2>1. Len(executed) \in 0 .. Len(executed)
    BY BaseTypes
  <2> QED BY <2>1, BaseTypes, ExecutedTyped, FillFlowAssumption DEF Typed, TypeOK
(* One order's row is written, the others stay as they are.                 *)
<1>2. ASSUME UNCHANGED <<executed, filled>>, NEW o \in Orders, NEW status \in Status,
             row' = [row EXCEPT ![o] = status], status # "created",
             \A p \in Orders : p # o => venue'[p] = venue[p] /\ (p \in attempted' <=> p \in attempted),
             status \in {"accepted", "partial", "cancel_pending"} => o \in attempted',
             status \in TERMINAL_STATUSES => venue'[o] # "working" /\ filled[o] = ExecutedQty(o)
      PROVE  Rows'
  <2>1. ASSUME NEW p \in Orders
        PROVE  /\ filled'[p] <= ExecutedQty(p)'
               /\ row'[p] = "created" => p \notin attempted'
               /\ row'[p] \in {"accepted", "partial", "cancel_pending"} => p \in attempted'
               /\ row'[p] \in TERMINAL_STATUSES =>
                    venue'[p] # "working" /\ filled'[p] = ExecutedQty(p)'
    <3>1. CASE p = o
      BY <1>1, <1>2, <3>1, SameTrades DEF Rows
    <3>2. CASE p # o
      BY <1>1, <1>2, <3>2, SameTrades DEF Rows
    <3> QED BY <3>1, <3>2
  <2> QED BY <2>1 DEF Rows
(* A sent order is one of the venue that has not traded or is told of.      *)
<1>3. ASSUME UNCHANGED <<venue, executed, row, filled, attempted>> PROVE Rows'
  BY <1>3, SameTrades DEF Rows
<1>4. ASSUME NEW o \in Orders, o \notin attempted PROVE venue[o] = "none" /\ filled[o] = ExecutedQty(o)
  <2>1. ExecutedQty(o) = 0 /\ venue[o] = "none"
    BY <1>4 DEF AtVenue
  <2>2. filled[o] <= ExecutedQty(o) /\ filled[o] \in Nat
    BY <1>1 DEF Rows
  <2> QED BY <2>1, <2>2
<1>5. ASSUME NEW o \in Orders, VenueFills(o) PROVE Rows'
  <2>1. /\ executed \in Seq(Orders) /\ executed' = Append(executed, o)
        /\ venue[o] = "working" /\ UNCHANGED <<row, filled, attempted>>
        /\ \A p \in Orders : p # o => venue'[p] = venue[p]
    BY <1>1, <1>5, BaseTypes DEF VenueFills, durable
  <2>2. ExecutedQty(o)' = ExecutedQty(o) + 1 /\ \A p : p # o => ExecutedQty(p)' = ExecutedQty(p)
    BY <2>1, OneMoreTrade
  <2>3. row[o] \notin TERMINAL_STATUSES
    BY <2>1 DEF Rows
  <2>4. ASSUME NEW p \in Orders
        PROVE  /\ filled'[p] <= ExecutedQty(p)'
               /\ row'[p] = "created" => p \notin attempted'
               /\ row'[p] \in {"accepted", "partial", "cancel_pending"} => p \in attempted'
               /\ row'[p] \in TERMINAL_STATUSES =>
                    venue'[p] # "working" /\ filled'[p] = ExecutedQty(p)'
    <3>1. CASE p = o
      <4>1. filled[o] <= ExecutedQty(o) /\ filled[o] \in Nat /\ ExecutedQty(o) \in Nat
        BY <1>1 DEF Rows
      <4>2. filled[o] <= ExecutedQty(o) + 1
        BY <4>1
      <4> QED BY <2>1, <2>2, <2>3, <3>1, <4>2 DEF Rows
    <3>2. CASE p # o
      BY <2>1, <2>2, <3>2 DEF Rows
    <3> QED BY <3>1, <3>2
  <2> QED BY <2>4 DEF Rows
<1>6. ASSUME NEW o \in Orders, VenueEnds(o) PROVE Rows'
  <2>1. /\ UNCHANGED <<executed, row, filled, attempted>>
        /\ venue' = [venue EXCEPT ![o] = "ended"]
    BY <1>6 DEF VenueEnds, durable
  <2>2. ASSUME NEW p \in Orders, venue'[p] = "working" PROVE venue[p] = "working"
    BY <1>1, <2>1, <2>2
  <2>3. ASSUME NEW p \in Orders
        PROVE  /\ filled'[p] <= ExecutedQty(p)'
               /\ row'[p] = "created" => p \notin attempted'
               /\ row'[p] \in {"accepted", "partial", "cancel_pending"} => p \in attempted'
               /\ row'[p] \in TERMINAL_STATUSES =>
                    venue'[p] # "working" /\ filled'[p] = ExecutedQty(p)'
    BY <2>1, <2>2, <2>3, SameTrades DEF Rows
  <2> QED BY <2>3 DEF Rows
<1>7. ASSUME NEW o \in Orders, Approve(o) PROVE Rows'
  <2>1. o \notin attempted
    BY <1>7 DEF Approve, Unsubmitted, Rows
  <2>2. PICK status \in {"submitting", "rejected"} : row' = [row EXCEPT ![o] = status]
    BY <1>7 DEF Approve, Publish
  <2>3. UNCHANGED <<venue, executed, filled, attempted>>
    BY <1>7 DEF Approve, market
  <2> QED BY <1>1, <1>2, <1>4, <2>1, <2>2, <2>3 DEF Status, TERMINAL_STATUSES
<1>8. CASE Send
  <2>1. /\ op.order \in Orders /\ op.order \notin attempted /\ row[op.order] = "submitting"
        /\ UNCHANGED <<executed, filled>> /\ attempted' = attempted \cup {op.order}
    BY <1>8 DEF Send, At, AtWork
  <2>2. CASE venue' = [venue EXCEPT ![op.order] = "working"] /\ UNCHANGED row
    <3>1. row' = [row EXCEPT ![op.order] = "submitting"]
      BY <1>1, <2>1, <2>2
    <3> QED BY <1>1, <1>2, <2>1, <2>2, <3>1 DEF Status, TERMINAL_STATUSES
  <2>3. ASSUME UNCHANGED venue, NEW status \in {"unknown", "rejected"}, Publish(op.order, status)
        PROVE  Rows'
    <3>1. row' = [row EXCEPT ![op.order] = status]
      BY <2>3 DEF Publish
    <3> QED BY <1>1, <1>2, <1>4, <2>1, <2>3, <3>1 DEF Status, TERMINAL_STATUSES
  <2> QED BY <1>8, <2>2, <2>3 DEF Send
<1>9. CASE Answer
  <2>1. /\ op.order \in Orders /\ UNCHANGED <<venue, executed, filled, attempted>>
    BY <1>1, <1>9 DEF Answer, At, AtWork
  <2>2. CASE UNCHANGED row
    BY <1>3, <2>1, <2>2
  <2>3. CASE Publish(op.order, "unknown")
    <3>1. row' = [row EXCEPT ![op.order] = "unknown"]
      BY <2>3 DEF Publish
    <3> QED BY <1>2, <2>1, <3>1 DEF Status, TERMINAL_STATUSES
  <2> QED BY <1>9, <2>2, <2>3 DEF Answer
<1>10. ASSUME NEW o \in Orders, Reconcile(o) PROVE Rows'
  <2>1. UNCHANGED <<venue, executed, filled, attempted>>
    BY <1>10 DEF Reconcile
  <2>2. CASE UNCHANGED row
    BY <1>3, <2>1, <2>2
  <2>3. CASE Publish(o, "unknown")
    <3>1. row' = [row EXCEPT ![o] = "unknown"]
      BY <2>3 DEF Publish
    <3> QED BY <1>2, <2>1, <3>1 DEF Status, TERMINAL_STATUSES
  <2> QED BY <1>10, <2>2, <2>3 DEF Reconcile
<1>11. ASSUME NEW o \in Orders, Cancel(o) PROVE Rows'
  <2>1. /\ o \in attempted /\ UNCHANGED <<executed, filled, attempted>>
        /\ row' = [row EXCEPT ![o] = "cancel_pending"]
        /\ \A p \in Orders : p # o => venue'[p] = venue[p]
    BY <1>1, <1>11 DEF Cancel, Rows
  <2> QED BY <1>2, <2>1 DEF Status, TERMINAL_STATUSES
<1>12. ASSUME NEW o \in Orders, ResolveUnsubmitted(o) PROVE Rows'
  <2>1. /\ UNCHANGED <<venue, executed, filled, attempted>>
        /\ row' = [row EXCEPT ![o] = "expired_unsubmitted"] /\ venue[o] = "none"
    BY <1>12 DEF ResolveUnsubmitted, Publish, market
  <2>2. filled[o] = ExecutedQty(o)
    <3>1. ExecutedQty(o) = 0
      BY <2>1 DEF AtVenue
    <3>2. filled[o] <= ExecutedQty(o) /\ filled[o] \in Nat
      BY <1>1 DEF Rows
    <3> QED BY <3>1, <3>2
  <2> QED BY <1>2, <2>1, <2>2 DEF Status, TERMINAL_STATUSES
<1>13. CASE FinishPersist
  <2> DEFINE o == op.order
  <2>1. /\ o \in Orders /\ NewStatus \in Status /\ Reported \in Nat
        /\ UNCHANGED <<venue, executed, attempted>> /\ pc = "persist"
        /\ row' = [row EXCEPT ![o] = NewStatus] /\ filled' = [filled EXCEPT ![o] = Reported]
    BY <1>13, ReportedTyped DEF FinishPersist, At, UpdateRow, Publish, market
  <2>2. /\ o \in attempted /\ Reported <= ExecutedQty(o)
        /\ op.ended => venue[o] = "ended" /\ Reported = ExecutedQty(o)
    BY <2>1, BaseTypes, ExecutedTyped DEF AtWork, Reported
  <2>3. NewStatus \in TERMINAL_STATUSES => venue[o] # "working" /\ Reported = ExecutedQty(o)
    <3>1. CASE op.ended
      BY <2>2, <3>1
    <3>2. CASE ~op.ended /\ NewStatus \in TERMINAL_STATUSES
      <4>1. Reported >= Qty[o]
        BY <3>2 DEF NewStatus, ParsedStatus, TERMINAL_STATUSES
      <4>2. Reported = ExecutedQty(o) /\ ExecutedQty(o) = Qty[o]
        <5>1. /\ ExecutedQty(o) \in Nat /\ Qty[o] \in Nat /\ ExecutedQty(o) <= Qty[o]
              /\ Reported \in Nat /\ Reported <= ExecutedQty(o)
          BY <1>1, <2>1, <2>2 DEF AtVenue
        <5> QED BY <4>1, <5>1
      <4>3. venue[o] = "working" => ExecutedQty(o) < Qty[o]
        BY <2>1 DEF AtVenue
      <4>4. ExecutedQty(o) \in Nat
        BY <1>1, <2>1
      <4> QED BY <4>2, <4>3, <4>4
    <3> QED BY <3>1, <3>2
  <2>4. NewStatus # "created"
    BY DEF NewStatus, ParsedStatus
  <2> HIDE DEF o
  <2>5. ASSUME NEW p \in Orders
        PROVE  /\ filled'[p] <= ExecutedQty(p)'
               /\ row'[p] = "created" => p \notin attempted'
               /\ row'[p] \in {"accepted", "partial", "cancel_pending"} => p \in attempted'
               /\ row'[p] \in TERMINAL_STATUSES =>
                    venue'[p] # "working" /\ filled'[p] = ExecutedQty(p)'
    <3>1. CASE p = o
      BY <1>1, <2>1, <2>2, <2>3, <2>4, <3>1, SameTrades
    <3>2. CASE p # o
      BY <1>1, <2>1, <3>2, SameTrades DEF Rows
    <3> QED BY <3>1, <3>2
  <2> QED BY <2>5 DEF Rows
<1>14. CASE Start
  BY <1>3, <1>14 DEF Start, market
<1>15. CASE StartTick
  BY <1>3, <1>15 DEF StartTick, market
<1>16. CASE CheckAccount
  BY <1>3, <1>16 DEF CheckAccount, market
<1>17. CASE StartBatch
  BY <1>3, <1>17 DEF StartBatch, market, durable
<1>18. CASE EndTick
  BY <1>3, <1>18 DEF EndTick, market, durable
<1>19. CASE AddFill
  BY <1>3, <1>19 DEF AddFill, market
<1>20. CASE PublishFill
  BY <1>3, <1>20 DEF PublishFill, market
<1>21. CASE PublishRaises
  BY <1>3, <1>21 DEF PublishRaises, market, durable
<1>22. CASE SyncAfter
  BY <1>3, <1>22 DEF SyncAfter, market
<1>23. CASE Crash
  BY <1>3, <1>23 DEF Crash, market, durable
<1> QED
  BY <1>5, <1>6, <1>7, <1>8, <1>9, <1>10, <1>11, <1>12, <1>13, <1>14, <1>15, <1>16, <1>17,
     <1>18, <1>19, <1>20, <1>21, <1>22, <1>23 DEF Next

LEMMA AtWorkStep == ASSUME Base, Next PROVE AtWork'
<1> USE DEF Base
<1>1. /\ venue \in [Orders -> {"none", "working", "ended"}] /\ row \in [Orders -> Status]
      /\ filled \in [Orders -> Nat] /\ attempted \subseteq Orders /\ op.order \in Orders \cup {""}
      /\ executed \in Seq(Orders) /\ Len(executed) \in Nat /\ Len(executed) \in 0 .. Len(executed)
  <2>1. Len(executed) \in Nat /\ executed \in Seq(Orders)
    BY BaseTypes
  <2>2. Len(executed) \in 0 .. Len(executed)
    BY <2>1
  <2>3. /\ venue \in [Orders -> {"none", "working", "ended"}] /\ row \in [Orders -> Status]
        /\ filled \in [Orders -> Nat] /\ attempted \subseteq Orders /\ op \in OpRecord
    BY DEF Typed, TypeOK, OpRecord
  <2> QED BY <2>1, <2>2, <2>3 DEF OpRecord
(* Nothing is in hand, or what is has not changed.                          *)
<1>2. ASSUME pc' \in {"top", "sync"} PROVE AtWork'
  BY <1>2 DEF AtWork
<1>3. ASSUME UNCHANGED <<venue, executed, row, filled, attempted, op>>,
             pc' = pc \/ (pc \in {"persist", "publish"} /\ pc' \in {"persist", "publish"})
      PROVE  AtWork'
  <2>1. Reported' = Reported /\ \A p : ExecutedQty(p)' = ExecutedQty(p)
    BY <1>3, SameTrades DEF Reported
  <2> QED BY <1>3, <2>1 DEF AtWork
(* The venue moves on behind what was read.                                 *)
<1>4. ASSUME NEW o \in Orders, venue[o] = "working", UNCHANGED <<row, filled, attempted, pc, op>>,
             \A p \in Orders : p # o => venue'[p] = venue[p] /\ ExecutedQty(p)' = ExecutedQty(p),
             \A p, n : n \in 0 .. Len(executed) => ExecutedOf(p, n)' = ExecutedOf(p, n),
             Len(executed) <= Len(executed)', Len(executed)' \in Nat
      PROVE  AtWork'
  <2>1. CASE pc \in {"persist", "publish"}
    <3>1. /\ op.order \in attempted /\ op.order \in Orders /\ op.details \in Details
          /\ op.upto \in 0 .. Len(executed) /\ filled[op.order] <= Reported
          /\ row[op.order] \in TERMINAL_STATUSES => op.ended
          /\ op.ended => venue[op.order] = "ended" /\ Reported = ExecutedQty(op.order)
      BY <1>1, <2>1 DEF AtWork
    <3>2. Reported' = Reported
      BY <1>4, <3>1 DEF Reported
    <3>3. op.upto \in 0 .. Len(executed)'
      <4> DEFINE l == Len(executed)
                 m == Len(executed)'
      <4>1. op.upto \in 0 .. l /\ l <= m /\ l \in Nat /\ m \in Nat
        BY <1>1, <1>4, <3>1
      <4> HIDE DEF l, m
      <4>2. op.upto \in 0 .. m
        BY <4>1
      <4> QED BY <4>2 DEF m
    <3>4. op.ended => op.order # o
      BY <1>4, <3>1
    <3> QED BY <1>4, <2>1, <3>1, <3>2, <3>3, <3>4 DEF AtWork
  <2>2. CASE pc \notin {"persist", "publish"}
    BY <1>4, <2>2 DEF AtWork
  <2> QED BY <2>1, <2>2
(* What is read is what the venue shows.                                    *)
<1>5. ASSUME NEW o \in Orders, NEW d \in Details, NEW sync, Read(o, d, sync),
             UNCHANGED <<executed, filled>>, o \in attempted',
             row'[o] \in TERMINAL_STATUSES => venue'[o] = "ended"
      PROVE  AtWork'
  <2>1. /\ pc' = "persist" /\ op'.order = o /\ op'.upto = Len(executed)
        /\ op'.ended <=> venue'[o] = "ended"
        /\ op'.details = d
    BY <1>5 DEF Read
  <2>2. Reported' = ExecutedQty(o)
    BY <1>5, <2>1, SameTrades DEF Reported, ExecutedQty
  <2>3. filled'[o] <= Reported' /\ Reported' = ExecutedQty(o)'
    BY <1>5, <2>2, SameTrades DEF Rows
  <2> QED BY <1>1, <1>5, <2>1, <2>2, <2>3 DEF AtWork
<1>6. ASSUME NEW o \in Orders, VenueFills(o) PROVE AtWork'
  <2>1. /\ executed' = Append(executed, o) /\ venue[o] = "working"
        /\ UNCHANGED <<row, filled, attempted, pc, op>>
        /\ \A p \in Orders : p # o => venue'[p] = venue[p]
    BY <1>1, <1>6 DEF VenueFills, durable, control
  <2>2. Len(executed)' = Len(executed) + 1
    BY <1>1, <2>1, OneMoreTrade
  <2>3. \A p : p # o => ExecutedQty(p)' = ExecutedQty(p)
    BY <1>1, <2>1, OneMoreTrade
  <2>4. \A p, n : n \in 0 .. Len(executed) => ExecutedOf(p, n)' = ExecutedOf(p, n)
    BY <1>1, <2>1, OneMoreTrade
  <2>5. Len(executed)' \in Nat /\ Len(executed) <= Len(executed)'
    <3>1. Len(executed) \in Nat
      BY <1>1
    <3>2. Len(executed)' = Len(executed) + 1
      BY <2>2
    <3> QED BY <3>1, <3>2
  <2> QED BY <1>4, <2>1, <2>3, <2>4, <2>5
<1>7. ASSUME NEW o \in Orders, VenueEnds(o) PROVE AtWork'
  <2>1. /\ UNCHANGED executed /\ venue[o] = "working"
        /\ UNCHANGED <<row, filled, attempted, pc, op>>
        /\ \A p \in Orders : p # o => venue'[p] = venue[p]
    BY <1>1, <1>7 DEF VenueEnds, durable, control
  <2>2. Len(executed)' \in Nat /\ Len(executed) <= Len(executed)'
    <3>1. Len(executed) \in Nat
      BY <1>1
    <3>2. Len(executed)' = Len(executed)
      BY <2>1
    <3> QED BY <3>1, <3>2
  <2> QED BY <1>4, <2>1, <2>2, SameTrades
<1>8. ASSUME NEW o \in Orders, Approve(o) PROVE AtWork'
  <2>1. CASE Submittable(o)
    <3>1. /\ pc' = "send" /\ op' = [NoOp EXCEPT !.order = o] /\ UNCHANGED attempted
          /\ row' = [row EXCEPT ![o] = "submitting"]
      BY <1>8, <2>1 DEF Approve
    <3>2. op'.order = o
      <4>1. NoOp \in OpRecord
        BY DEF NoOp, OpRecord
      <4> QED BY <3>1, <4>1 DEF OpRecord
    <3>3. o \notin attempted
      BY <1>8 DEF Approve, Unsubmitted, Rows
    <3>4. row'[o] = "submitting" /\ o \notin attempted'
      BY <1>1, <3>1, <3>3
    <3> QED BY <3>1, <3>2, <3>4 DEF AtWork
  <2>2. CASE ~Submittable(o)
    BY <1>2, <1>8, <2>2 DEF Approve, At
  <2> QED BY <2>1, <2>2
<1>9. CASE Send
  <2>1. /\ op.order \in Orders /\ row[op.order] = "submitting" /\ attempted' = attempted \cup {op.order}
    BY <1>9 DEF Send, At, AtWork
  <2>2. CASE row' = row
    <3>1. pc' = "answer" /\ op' = op
      BY <1>9, <2>2 DEF Send
    <3> QED BY <2>1, <2>2, <3>1 DEF AtWork
  <2>3. CASE row' # row
    BY <1>2, <1>9, <2>3 DEF Send
  <2> QED BY <2>2, <2>3
<1>10. CASE Answer
  <2>1. /\ op.order \in attempted /\ op.order \in Orders /\ row[op.order] = "submitting"
        /\ UNCHANGED <<executed, filled, attempted>>
    BY <1>1, <1>10 DEF Answer, At, AtWork
  <2>2. ASSUME NEW d \in Details, Read(op.order, d, TRUE), UNCHANGED row PROVE AtWork'
    BY <1>5, <2>1, <2>2 DEF TERMINAL_STATUSES
  <2>3. CASE pc' = "top"
    BY <1>2, <2>3
  <2> QED BY <1>10, <2>2, <2>3 DEF Answer
<1>11. ASSUME NEW o \in Orders, Reconcile(o) PROVE AtWork'
  <2>1. /\ o \in attempted /\ UNCHANGED <<venue, executed, filled, attempted>> /\ pc = "top"
    BY <1>11 DEF Reconcile, At
  <2>2. ASSUME NEW d \in Details, Read(o, d, TRUE), UNCHANGED row, venue[o] # "none" PROVE AtWork'
    <3>1. row[o] \in TERMINAL_STATUSES => venue[o] = "ended"
      BY <1>1, <2>2 DEF Rows
    <3> QED BY <1>5, <2>1, <2>2, <3>1
  <2>3. CASE UNCHANGED pc
    BY <1>2, <2>1, <2>3
  <2> QED BY <1>11, <2>2, <2>3 DEF Reconcile
<1>12. ASSUME NEW o \in Orders, Cancel(o) PROVE AtWork'
  <2>1. /\ o \in attempted /\ UNCHANGED <<executed, filled, attempted>>
        /\ row' = [row EXCEPT ![o] = "cancel_pending"]
    BY <1>12 DEF Cancel, Rows
  <2>2. PICK d \in Details, sync \in BOOLEAN : Read(o, d, sync)
    BY <1>12 DEF Cancel
  <2>3. row'[o] \notin TERMINAL_STATUSES
    BY <1>1, <2>1 DEF TERMINAL_STATUSES
  <2> QED BY <1>5, <2>1, <2>2, <2>3
<1>13. ASSUME NEW o \in Orders, ResolveUnsubmitted(o) PROVE AtWork'
  BY <1>2, <1>13 DEF ResolveUnsubmitted, At, control
<1>14. CASE Start
  BY <1>3, <1>14 DEF Start, market
<1>15. CASE StartTick
  BY <1>2, <1>15 DEF StartTick
<1>16. CASE CheckAccount
  BY <1>2, <1>16 DEF CheckAccount
<1>17. CASE StartBatch
  BY <1>2, <1>17 DEF StartBatch
<1>18. CASE EndTick
  BY <1>2, <1>18 DEF EndTick
<1>19. CASE AddFill
  BY <1>3, <1>19 DEF AddFill, At, market
<1>20. CASE PublishFill
  BY <1>3, <1>20 DEF PublishFill, At, market
<1>21. CASE PublishRaises
  BY <1>2, <1>21 DEF PublishRaises
<1>22. CASE FinishPersist
  BY <1>2, <1>22 DEF FinishPersist
<1>23. CASE SyncAfter
  BY <1>2, <1>23 DEF SyncAfter
<1>24. CASE Crash
  BY <1>2, <1>24 DEF Crash
<1> QED
  BY <1>6, <1>7, <1>8, <1>9, <1>10, <1>11, <1>12, <1>13, <1>14, <1>15, <1>16, <1>17,
     <1>18, <1>19, <1>20, <1>21, <1>22, <1>23, <1>24 DEF Next

LEMMA FlaggedStep == ASSUME Base, Next PROVE Flagged'
<1> USE DEF Base
<1>1. ASSUME Rebuild, issues' = HasIssues(checkpoint', filled), mode' = "down" => pc' = "top"
      PROVE  Flagged'
  <2>1. checkpoint'.issues = {} => checkpoint'.invalid = {}
    BY <1>1, RebuildGives DEF Written
  <2> QED BY <1>1, <2>1 DEF Flagged, HasIssues
<1>2. ASSUME UNCHANGED <<checkpoint, issues, mode>>, mode = "down" => pc' = "top" PROVE Flagged'
  BY <1>2 DEF Flagged
<1>3. ASSUME UNCHANGED checkpoint, mode' = "down", pc' = "top" PROVE Flagged'
  BY <1>3 DEF Flagged
<1>4. ASSUME UNCHANGED <<checkpoint, issues>>, mode # "down", mode' # "down" PROVE Flagged'
  BY <1>4 DEF Flagged
<1>5. ASSUME NEW o \in Orders, VenueFills(o) PROVE Flagged'
  BY <1>2, <1>5 DEF VenueFills, durable, memory, control, Flagged
<1>6. ASSUME NEW o \in Orders, VenueEnds(o) PROVE Flagged'
  BY <1>2, <1>6 DEF VenueEnds, durable, memory, control, Flagged
<1>7. ASSUME NEW o \in Orders, Approve(o) PROVE Flagged'
  <2>1. UNCHANGED <<checkpoint, issues, mode>> /\ mode \in {"batch", "manage"}
    BY <1>7 DEF Approve
  <2> QED BY <1>4, <2>1
<1>8. ASSUME NEW o \in Orders, Reconcile(o) PROVE Flagged'
  BY <1>4, <1>8 DEF Reconcile
<1>9. ASSUME NEW o \in Orders, Cancel(o) PROVE Flagged'
  BY <1>4, <1>9 DEF Cancel, memory
<1>10. ASSUME NEW o \in Orders, ResolveUnsubmitted(o) PROVE Flagged'
  BY <1>4, <1>10 DEF ResolveUnsubmitted, control
<1>11. CASE Start
  BY <1>1, <1>11 DEF Start
<1>12. CASE StartTick
  <2>1. CASE Synced
    BY <1>1, <1>12, <2>1 DEF StartTick, Synced, Report
  <2>2. CASE SyncFails /\ UNCHANGED mode
    BY <1>4, <1>12, <2>2 DEF StartTick, SyncFails
  <2> QED BY <1>12, <2>1, <2>2 DEF StartTick
<1>13. CASE CheckAccount
  BY <1>1, <1>13 DEF CheckAccount, Report
<1>14. CASE StartBatch
  BY <1>4, <1>14 DEF StartBatch, durable, memory
<1>15. CASE EndTick
  BY <1>4, <1>15 DEF EndTick, durable, memory
<1>16. CASE Send
  BY <1>4, <1>16 DEF Send, At, Flagged
<1>17. CASE Answer
  BY <1>4, <1>17 DEF Answer, At, Flagged
<1>18. CASE AddFill
  BY <1>4, <1>18 DEF AddFill, At, Flagged, memory
<1>19. CASE PublishFill
  <2>1. mode' # "down"
    BY <1>19 DEF PublishFill, At, Flagged
  <2> QED BY <1>1, <1>19, <2>1 DEF PublishFill
<1>20. CASE PublishRaises
  <2>1. mode # "down" /\ mode' # "down" /\ UNCHANGED <<checkpoint, issues>>
    BY <1>20 DEF PublishRaises, At, Flagged, durable
  <2> QED BY <1>4, <2>1
<1>21. CASE FinishPersist
  BY <1>4, <1>21 DEF FinishPersist, At, Flagged
<1>22. CASE SyncAfter
  <2>1. mode # "down" /\ mode' # "down"
    BY <1>22 DEF SyncAfter, At, Flagged
  <2>2. CASE Synced
    BY <1>1, <2>1, <2>2 DEF Synced, Report
  <2>3. CASE SyncFails
    BY <1>4, <2>1, <2>3 DEF SyncFails
  <2> QED BY <1>22, <2>2, <2>3 DEF SyncAfter
<1>23. CASE Crash
  BY <1>3, <1>23 DEF Crash, durable
<1> QED
  BY <1>5, <1>6, <1>7, <1>8, <1>9, <1>10, <1>11, <1>12, <1>13, <1>14, <1>15, <1>16, <1>17,
     <1>18, <1>19, <1>20, <1>21, <1>22, <1>23 DEF Next

LEMMA WrittenStep == ASSUME Base, Next PROVE Written'
<1> USE DEF Base
<1>1. /\ ledger \in Seq(FillRecord) /\ Len(ledger) \in Nat /\ DOMAIN ledger = 1 .. Len(ledger)
      /\ checkpoint.fills \in Nat /\ checkpoint.fills <= Len(ledger)
      /\ executed \in Seq(Orders) /\ Len(executed) \in Nat
  BY BaseTypes DEF Written
(* The ledger and the cursor stay, or the cursor comes up to its end.       *)
<1>2. ASSUME UNCHANGED <<ledger, checkpoint>>, pc' # "publish" PROVE Written'
  BY <1>2 DEF Written
<1>3. ASSUME UNCHANGED ledger, Rebuild, pc' # "publish" PROVE Written'
  <2>1. checkpoint'.fills = Len(ledger)
    BY <1>3, RebuildGives DEF Written
  <2> QED BY <1>1, <1>3, <2>1 DEF Written
(* The venue moves on behind what was read.                                 *)
<1>4. ASSUME UNCHANGED <<ledger, checkpoint, pc, op>>,
             pc = "publish" =>
               /\ Reported' = Reported
               /\ \A m \in 1 .. op.upto : executed'[m] = executed[m]
      PROVE  Written'
  <2>1. ASSUME pc = "publish", LastIsTrade PROVE LastIsTrade'
    <3>1. PICK m \in 1 .. op.upto :
            /\ ledger[Len(ledger)] = Trade(m) /\ executed[m] = op.order
            /\ \A i \in 1 .. m : executed[i] = op.order => OnRecord(i)
      BY <2>1 DEF LastIsTrade
    <3>2. op.upto \in Nat /\ m \in Nat
      BY <1>1, <2>1 DEF AtWork
    <3>3. \A i \in 1 .. m : i \in 1 .. op.upto /\ executed'[i] = executed[i] /\ Trade(i)' = Trade(i)
      <4>1. \A i \in 1 .. m : i \in 1 .. op.upto
        BY <3>1, <3>2
      <4>2. \A i \in 1 .. op.upto : executed'[i] = executed[i] /\ Trade(i)' = Trade(i)
        BY <1>4, <2>1 DEF Trade
      <4> QED BY <4>1, <4>2
    <3>4. Trade(m)' = Trade(m) /\ executed'[m] = op.order
      BY <1>4, <2>1, <3>1 DEF Trade
    <3>5. \A i \in 1 .. m : executed'[i] = op.order => OnRecord(i)'
      <4>1. \A i \in 1 .. m : OnRecord(i) => OnRecord(i)'
        BY <1>4, <3>3 DEF OnRecord
      <4> QED BY <3>1, <3>3, <4>1
    <3> QED BY <1>4, <3>1, <3>4, <3>5 DEF LastIsTrade
  <2>2. ASSUME pc = "publish", LastIsInferred PROVE LastIsInferred'
    BY <1>4, <2>2 DEF LastIsInferred
  <2> QED BY <1>4, <2>1, <2>2 DEF Written
<1>5. ASSUME NEW o \in Orders, VenueFills(o) PROVE Written'
  <2>1. executed' = Append(executed, o) /\ UNCHANGED <<ledger, checkpoint, pc, op>>
    BY <1>5 DEF VenueFills, durable, control
  <2>2. ASSUME pc = "publish"
        PROVE  Reported' = Reported /\ \A m \in 1 .. op.upto : executed'[m] = executed[m]
    <3>1. op.upto \in 0 .. Len(executed)
      BY <2>2 DEF AtWork
    <3>2. \A p, n : n \in 0 .. Len(executed) => ExecutedOf(p, n)' = ExecutedOf(p, n)
      BY <1>1, <2>1, OneMoreTrade
    <3>3. \A i \in 1 .. Len(executed) : executed'[i] = executed[i]
      BY <1>1, <2>1, OneMoreTrade
    <3>4. \A m \in 1 .. op.upto : m \in 1 .. Len(executed)
      BY <1>1, <3>1
    <3>5. Reported' = Reported
      BY <2>1, <3>1, <3>2 DEF Reported
    <3> QED BY <3>3, <3>4, <3>5
  <2> QED BY <1>4, <2>1, <2>2
<1>6. ASSUME NEW o \in Orders, VenueEnds(o) PROVE Written'
  BY <1>4, <1>6, SameTrades DEF VenueEnds, durable, control, Reported
<1>7. ASSUME NEW o \in Orders, Approve(o) PROVE Written'
  BY <1>2, <1>7 DEF Approve, At
<1>8. ASSUME NEW o \in Orders, Reconcile(o) PROVE Written'
  BY <1>2, <1>8 DEF Reconcile, At, Read
<1>9. ASSUME NEW o \in Orders, Cancel(o) PROVE Written'
  BY <1>2, <1>9 DEF Cancel, At, Read
<1>10. ASSUME NEW o \in Orders, ResolveUnsubmitted(o) PROVE Written'
  BY <1>2, <1>10 DEF ResolveUnsubmitted, At, control
<1>11. CASE Start
  BY <1>3, <1>11 DEF Start, Flagged
<1>12. CASE StartTick
  <2>1. CASE Synced
    BY <1>3, <1>12, <2>1 DEF StartTick, Synced, Report
  <2>2. CASE SyncFails
    BY <1>2, <1>12, <2>2 DEF StartTick, SyncFails
  <2> QED BY <1>12, <2>1, <2>2 DEF StartTick
<1>13. CASE CheckAccount
  BY <1>3, <1>13 DEF CheckAccount, Report
<1>14. CASE StartBatch
  BY <1>2, <1>14 DEF StartBatch, durable
<1>15. CASE EndTick
  BY <1>2, <1>15 DEF EndTick, durable
<1>16. CASE Send
  BY <1>2, <1>16 DEF Send
<1>17. CASE Answer
  BY <1>2, <1>17 DEF Answer, Read
<1>18. CASE AddFill
  <2> DEFINE o == op.order
  <2>1. /\ op.order \in Orders /\ op.upto \in 0 .. Len(executed) /\ pc = "persist"
        /\ UNCHANGED <<executed, checkpoint, op>> /\ pc' = "publish"
    BY <1>18, ReportedTyped DEF AddFill, At, AtWork, market
  <2>2. PICK f \in NextFill : ledger' = Append(ledger, f)
    BY <1>18 DEF AddFill
  <2>3. f \in FillRecord /\ f.order = op.order
    BY <2>1, NextFillIs
  <2>4. /\ Len(ledger') = Len(ledger) + 1 /\ DOMAIN ledger' = 1 .. Len(ledger) + 1
        /\ ledger'[Len(ledger) + 1] = f /\ ledger' \in Seq(FillRecord)
        /\ \A i \in 1 .. Len(ledger) : ledger'[i] = ledger[i]
    BY <1>1, <2>2, <2>3
  <2>5. checkpoint'.fills < Len(ledger')
    BY <1>1, <2>1, <2>4
  <2>6. ASSUME NEW m \in 1 .. op.upto, f = Trade(m), executed[m] = op.order,
               \A i \in 1 .. m : i # m /\ executed[i] = op.order => OnRecord(i)
        PROVE  LastIsTrade'
    <3>1. \A i : Trade(i)' = Trade(i)
      BY <2>1 DEF Trade
    <3>2. ASSUME NEW i \in 1 .. m, executed[i] = op.order PROVE OnRecord(i)'
      <4>1. CASE i = m
        <5>1. Len(ledger) + 1 \in DOMAIN ledger' /\ ledger'[Len(ledger) + 1] = Trade(i)'
          BY <1>1, <2>4, <2>6, <3>1, <4>1
        <5> QED BY <5>1 DEF OnRecord
      <4>2. CASE i # m
        <5>1. PICK k \in DOMAIN ledger : ledger[k] = Trade(i)
          BY <2>6, <3>2, <4>2 DEF OnRecord
        <5>2. k \in DOMAIN ledger' /\ ledger'[k] = Trade(i)'
          BY <1>1, <2>4, <3>1, <5>1
        <5> QED BY <5>2 DEF OnRecord
      <4> QED BY <4>1, <4>2
    <3>3. ledger'[Len(ledger')] = Trade(m)'
      BY <2>4, <2>6, <3>1
    <3>4. UNCHANGED <<executed, op>>
      BY <2>1
    <3> QED BY <2>6, <3>2, <3>3, <3>4 DEF LastIsTrade
  <2>7. ASSUME f.key = 2 * op.upto + 1, op.details # "trades", Recorded(op.order) < Reported,
               f.qty = Reported - Recorded(op.order)
        PROVE  LastIsInferred'
    <3>1. /\ RecordedTo(ledger', o, Len(ledger) + 1) = RecordedTo(ledger', o, Len(ledger)) + f.qty
      <4>1. Len(ledger) + 1 \in DOMAIN ledger' /\ ledger'[Len(ledger) + 1].order = o
            /\ (Len(ledger) + 1) - 1 = Len(ledger)
        BY <1>1, <2>3, <2>4
      <4> HIDE DEF o
      <4>2. RecordedTo(ledger', o, Len(ledger) + 1) =
              RecordedTo(ledger', o, (Len(ledger) + 1) - 1) + ledger'[Len(ledger) + 1].qty
        BY <2>4, <4>1, UnitsOfOne
      <4> QED BY <2>4, <4>1, <4>2
    <3>2. RecordedTo(ledger', o, Len(ledger)) = RecordedTo(ledger, o, Len(ledger))
      <4>1. Len(ledger) \in 0 .. Len(ledger)
        BY <1>1
      <4> QED BY <1>1, <2>2, <2>3, <4>1, UnitsStay
    <3>3. RecordedTo(ledger, o, Len(ledger)) = Recorded(o) /\ Recorded(o) \in Nat
      BY <1>1, UnitsInAll, UnitsTyped
    <3>4. Reported \in Nat /\ Reported' = Reported
      BY <1>1, <2>1, ExecutedTyped, SameTrades DEF Reported
    <3>5. RecordedTo(ledger', o, Len(ledger')) = Reported'
      BY <2>4, <2>7, <3>1, <3>2, <3>3, <3>4
    <3> QED BY <2>1, <2>3, <2>4, <2>7, <3>5 DEF LastIsInferred
  <2>8. LastIsTrade' \/ LastIsInferred'
    BY <2>1, <2>6, <2>7, NextFillIs
  <2> QED BY <1>1, <2>1, <2>4, <2>5, <2>8 DEF Written
<1>19. CASE PublishFill
  BY <1>3, <1>19 DEF PublishFill
<1>20. CASE PublishRaises
  BY <1>2, <1>20 DEF PublishRaises, durable
<1>21. CASE FinishPersist
  BY <1>2, <1>21 DEF FinishPersist
<1>22. CASE SyncAfter
  <2>1. CASE Synced
    BY <1>3, <1>22, <2>1 DEF SyncAfter, Synced, Report
  <2>2. CASE SyncFails
    BY <1>2, <1>22, <2>2 DEF SyncAfter, SyncFails
  <2> QED BY <1>22, <2>1, <2>2 DEF SyncAfter
<1>23. CASE Crash
  BY <1>2, <1>23 DEF Crash, durable
<1> QED
  BY <1>5, <1>6, <1>7, <1>8, <1>9, <1>10, <1>11, <1>12, <1>13, <1>14, <1>15, <1>16, <1>17,
     <1>18, <1>19, <1>20, <1>21, <1>22, <1>23 DEF Next

LEMMA BaseStep == ASSUME Base, [Next]_vars PROVE Base'
<1>1. CASE Next
  <2>1. Typed' /\ AtVenue' /\ Rows'
    BY <1>1, TypedStep, AtVenueStep, RowsStep, Zenon
  <2>2. AtWork' /\ Written' /\ Flagged'
    BY <1>1, AtWorkStep, WrittenStep, FlaggedStep, Zenon
  <2> QED BY <2>1, <2>2 DEF Base
<1>2. CASE UNCHANGED vars
  <2>1. Typed'
    <3>1. /\ executed \in Seq(Orders) /\ venue \in [Orders -> {"none", "working", "ended"}]
          /\ row \in [Orders -> Status] /\ reserved \in [Orders -> Nat]
          /\ \A p \in Orders : reserved[p] \in 0 .. Qty[p]
          /\ pc \in {"top", "send", "answer", "persist", "publish", "sync"}
          /\ op \in OpRecord
      BY DEF Base, Typed, TypeOK, OpRecord
    <3>2. /\ Typed /\ UNCHANGED <<executed, venue, row, reserved, pc, op>>
          /\ UNCHANGED <<attempted, filled, ledger, checkpoint, lots, issues, positions, verified,
                         mode, asked, faults>>
      BY <1>2 DEF Base, vars
    <3> QED BY <3>1, <3>2, TypedFrame, Zenon
  <2> USE <1>2 DEF Base, vars
  <2>2. AtVenue' /\ Rows' /\ AtWork'
    BY SameTrades DEF AtVenue, Rows, AtWork, Reported
  <2>3. \A i : OnRecord(i)' = OnRecord(i) /\ Trade(i)' = Trade(i)
    BY DEF OnRecord, Trade
  <2>4. Reported' = Reported
    BY SameTrades DEF Reported
  <2>5. LastIsTrade' = LastIsTrade /\ LastIsInferred' = LastIsInferred
    BY <2>3, <2>4 DEF LastIsTrade, LastIsInferred
  <2>6. Written' /\ Flagged'
    BY <2>5 DEF Written, Flagged
  <2> QED BY <2>1, <2>2, <2>6
<1> QED BY <1>1, <1>2

(* Every variable keeps its type, whatever fails, is lost or crashes: what  *)
(* the venue has traded, the rows, the ledger, its projection and the       *)
(* reservations, which stay between nothing and what was asked for.         *)
THEOREM TypeCorrect == Spec => []TypeOK
<1>1. Base => TypeOK
  BY DEF Base, Typed
<1> QED BY <1>1, BaseInit, BaseStep, PTL DEF Spec

-----------------------------------------------------------------------------
(* A finished order holds nothing.                                          *)

Released == \A o \in Orders : row[o] \in RELEASING_STATUSES => reserved[o] = 0

LEMMA ReleasedStep == ASSUME Base, Released, [Next]_vars PROVE Released'
<1> USE DEF Base
<1>1. /\ row \in [Orders -> Status] /\ reserved \in [Orders -> Nat]
      /\ op.order \in Orders \cup {""}
  <2>1. op \in OpRecord /\ row \in [Orders -> Status] /\ reserved \in [Orders -> Nat]
    BY DEF Typed, TypeOK, OpRecord
  <2> QED BY <2>1 DEF OpRecord
<1>2. ASSUME UNCHANGED <<row, reserved>> PROVE Released'
  BY <1>2 DEF Released
<1>3. ASSUME NEW o \in Orders, NEW status, Publish(o, status) PROVE Released'
  BY <1>1, <1>3 DEF Released, Publish
<1>4. ASSUME NEW o \in Orders, Approve(o) PROVE Released'
  <2>1. CASE Submittable(o)
    <3>1. /\ row' = [row EXCEPT ![o] = "submitting"]
          /\ reserved' = [reserved EXCEPT ![o] = IF o \in Opening THEN Qty[o] ELSE 0]
      BY <1>4, <2>1 DEF Approve
    <3> QED BY <1>1, <3>1 DEF Released, RELEASING_STATUSES
  <2>2. CASE ~Submittable(o)
    BY <1>3, <1>4, <2>2 DEF Approve
  <2> QED BY <2>1, <2>2
<1>5. ASSUME NEW o \in Orders, Reconcile(o) PROVE Released'
  BY <1>2, <1>3, <1>5 DEF Reconcile
<1>6. ASSUME NEW o \in Orders, Cancel(o) PROVE Released'
  <2>1. row' = [row EXCEPT ![o] = "cancel_pending"] /\ UNCHANGED reserved
    BY <1>6 DEF Cancel, memory
  <2> QED BY <1>1, <2>1 DEF Released, RELEASING_STATUSES
<1>7. CASE Send
  <2>1. op.order \in Orders
    BY <1>7 DEF Send, At, AtWork
  <2> QED BY <1>2, <1>3, <1>7, <2>1 DEF Send
<1>8. CASE Answer
  <2>1. op.order \in Orders
    BY <1>1, <1>8 DEF Answer, At, AtWork, Typed, TypeOK
  <2> QED BY <1>2, <1>3, <1>8, <2>1 DEF Answer
<1>9. CASE FinishPersist
  <2>1. op.order \in Orders
    BY <1>9, ReportedTyped DEF FinishPersist, At
  <2> QED BY <1>3, <1>9, <2>1 DEF FinishPersist, UpdateRow
<1>10. CASE PublishFill
  <2>1. UNCHANGED row /\ \E r : reserved' = [reserved EXCEPT ![op.order] = r]
    BY <1>10 DEF PublishFill
  <2>2. op.order \in Orders
    BY <1>10, ReportedTyped DEF PublishFill, At
  <2>3. reserved[op.order] = 0 => reserved'[op.order] = 0
    <3>1. Last(ledger).qty \in Nat
      <4>1. Len(ledger) \in DOMAIN ledger
        BY <1>10, BaseTypes DEF PublishFill, At, Written
      <4> QED BY <4>1, BaseTypes, KeysOfFills DEF Last, FillRecord
    <3>2. reserved' = [reserved EXCEPT ![op.order] = Consumed(op.order, Last(ledger).qty)]
      BY <1>10 DEF PublishFill
    <3>3. reserved[op.order] = 0 => Consumed(op.order, Last(ledger).qty) = 0
      BY <3>1 DEF Consumed
    <3> QED BY <1>1, <2>2, <3>2, <3>3
  <2> QED BY <1>1, <2>1, <2>2, <2>3 DEF Released
<1>11. CASE Start
  <2>1. UNCHANGED row /\ reserved' = [o \in Orders |-> Restored(o)]
    BY <1>11 DEF Start
  <2> QED BY <2>1 DEF Released, Restored, Live, RELEASING_STATUSES, TERMINAL_STATUSES
<1>12. CASE Crash
  BY <1>12 DEF Crash, Released
<1> QED
  <2>1. ASSUME NEW o \in Orders, VenueFills(o) \/ VenueEnds(o) PROVE Released'
    BY <1>2, <2>1 DEF VenueFills, VenueEnds, durable, memory
  <2>2. ASSUME NEW o \in Orders, ResolveUnsubmitted(o) PROVE Released'
    BY <1>3, <2>2 DEF ResolveUnsubmitted
  <2>3. CASE StartTick \/ CheckAccount \/ SyncAfter
    BY <1>2, <2>3 DEF StartTick, CheckAccount, SyncAfter
  <2>4. CASE StartBatch \/ EndTick
    BY <1>2, <2>4 DEF StartBatch, EndTick, durable, memory
  <2>5. CASE AddFill \/ PublishRaises
    BY <1>2, <2>5 DEF AddFill, PublishRaises, durable, memory
  <2>6. CASE UNCHANGED vars
    BY <1>2, <2>6 DEF vars
  <2> QED BY <1>4, <1>5, <1>6, <1>7, <1>8, <1>9, <1>10, <1>11, <1>12, <2>1, <2>2, <2>3, <2>4,
             <2>5, <2>6 DEF Next

(* A finished order holds nothing back: its reservation is gone with the    *)
(* status that finished it, and none comes back at a restart or with a      *)
(* fill that is published late.                                             *)
THEOREM NothingIsHeldBack == Spec => []FinishedHoldsNothing
<1>1. Init => Released
  BY DEF Init, Released
<1>2. Released => FinishedHoldsNothing
  BY DEF Released, FinishedHoldsNothing
<1> QED BY <1>1, <1>2, BaseInit, BaseStep, ReleasedStep, PTL DEF Spec

-----------------------------------------------------------------------------
(* What an order may still buy is reserved.                                  *)

(* The fill inferred from the average up to the u-th trade is published,    *)
(* the row not yet written.                                                 *)
Inferring(o, u) == pc = "persist" /\ op.order = o /\ op.details # "trades" /\ u = op.upto

(* What o had bought by the u-th trade is projected, and the cursor is      *)
(* behind that trade: one published later is late, and an issue.            *)
CoveredUpTo(o, u) ==
    /\ 2 * u + 1 <= checkpoint.last
    /\ ExecutedOf(o, u) <= RecordedTo(ledger, o, checkpoint.fills)
    /\ reserved[o] + ExecutedOf(o, u) >= Qty[o]
    /\ ExecutedOf(o, u) <= filled[o] \/ Inferring(o, u)
Covered(o) ==
    \/ filled[o] >= Qty[o]
    \/ reserved[o] + TradedTo(ledger, o, checkpoint.fills) >= Qty[o]
    \/ \E u \in 0 .. Len(executed) : CoveredUpTo(o, u)

Coverage ==
    mode # "down" /\ checkpoint.issues = {} => \A o \in Opening : Live(o) => Covered(o)

LEMMA Counted ==
    ASSUME Typed, NEW o \in Orders
    PROVE  /\ filled[o] \in Nat /\ reserved[o] \in Nat /\ Qty[o] \in Nat /\ checkpoint.last \in Nat
           /\ checkpoint.fills \in Nat
           /\ \A n : TradedTo(ledger, o, n) \in Nat /\ RecordedTo(ledger, o, n) \in Nat
           /\ \A u \in 0 .. Len(executed) : ExecutedOf(o, u) \in Nat
<1>1. ledger \in Seq(FillRecord) /\ executed \in Seq(Orders)
  BY BaseTypes
<1>2. \A n : TradedTo(ledger, o, n) \in Nat /\ RecordedTo(ledger, o, n) \in Nat
  BY <1>1, UnitsTyped
<1>3. \A u \in 0 .. Len(executed) : ExecutedOf(o, u) \in Nat
  BY <1>1, ExecutedTyped
<1>4. filled[o] \in Nat /\ reserved[o] \in Nat /\ Qty[o] \in Nat
  BY FillFlowAssumption DEF Typed, TypeOK
<1>5. checkpoint.last \in Nat /\ checkpoint.fills \in Nat
  BY DEF Typed, TypeOK
<1> QED BY <1>2, <1>3, <1>4, <1>5

(* More is recorded, projected, traded or shown, and nothing is released.   *)
LEMMA CoveredStays ==
    ASSUME Typed, Typed', NEW o \in Orders, Covered(o), reserved'[o] = reserved[o],
           Len(executed) <= Len(executed'),
           \A u \in 0 .. Len(executed) : ExecutedOf(o, u)' = ExecutedOf(o, u),
           filled[o] <= filled'[o], checkpoint.last <= checkpoint'.last,
           TradedTo(ledger, o, checkpoint.fills) <= TradedTo(ledger', o, checkpoint'.fills),
           RecordedTo(ledger, o, checkpoint.fills) <= RecordedTo(ledger', o, checkpoint'.fills),
           \A u \in 0 .. Len(executed) :
             CoveredUpTo(o, u) /\ Inferring(o, u) =>
               Inferring(o, u)' \/ ExecutedOf(o, u) <= filled'[o]
    PROVE  Covered(o)'
<1>1. /\ filled[o] \in Nat /\ reserved[o] \in Nat /\ Qty[o] \in Nat /\ checkpoint.last \in Nat
      /\ TradedTo(ledger, o, checkpoint.fills) \in Nat /\ RecordedTo(ledger, o, checkpoint.fills) \in Nat
      /\ \A u \in 0 .. Len(executed) : ExecutedOf(o, u) \in Nat
  BY Counted
<1>2. filled'[o] \in Nat /\ checkpoint'.last \in Nat
  BY DEF Typed, TypeOK
<1>3. /\ TradedTo(ledger', o, checkpoint'.fills) \in Nat /\ RecordedTo(ledger', o, checkpoint'.fills) \in Nat
  <2>1. ledger' \in Seq(FillRecord)
    BY DEF Typed, TypeOK
  <2> QED BY <2>1, UnitsTyped
<1>4. CASE filled[o] >= Qty[o]
  BY <1>1, <1>2, <1>4 DEF Covered
<1>5. CASE reserved[o] + TradedTo(ledger, o, checkpoint.fills) >= Qty[o]
  BY <1>1, <1>3, <1>5 DEF Covered
<1>6. ASSUME NEW u \in 0 .. Len(executed), CoveredUpTo(o, u) PROVE Covered(o)'
  <2>1. u \in 0 .. Len(executed')
    <3> DEFINE l == Len(executed)
               m == Len(executed')
    <3>1. l \in Nat /\ m \in Nat
      <4>1. executed \in Seq(Orders) /\ executed' \in Seq(Orders)
        BY DEF Typed, TypeOK
      <4> QED BY <4>1
    <3>2. u \in 0 .. l /\ l <= m
      OBVIOUS
    <3> HIDE DEF l, m
    <3>3. u \in 0 .. m
      BY <3>1, <3>2
    <3> QED BY <3>3 DEF m
  <2>2. ExecutedOf(o, u)' = ExecutedOf(o, u) /\ ExecutedOf(o, u) \in Nat /\ u \in Nat
    BY <1>1
  <2>3. 2 * u + 1 <= checkpoint'.last
    BY <1>1, <1>2, <1>6, <2>2 DEF CoveredUpTo
  <2>4. ExecutedOf(o, u) <= RecordedTo(ledger', o, checkpoint'.fills)
    BY <1>1, <1>3, <1>6, <2>2 DEF CoveredUpTo
  <2>5. reserved'[o] + ExecutedOf(o, u) >= Qty[o]
    BY <1>6 DEF CoveredUpTo
  <2>6. ExecutedOf(o, u) <= filled'[o] \/ Inferring(o, u)'
    BY <1>1, <1>2, <1>6, <2>2 DEF CoveredUpTo
  <2>7. CoveredUpTo(o, u)'
    BY <2>2, <2>3, <2>4, <2>5, <2>6 DEF CoveredUpTo
  <2> QED BY <2>1, <2>7 DEF Covered
<1> QED BY <1>4, <1>5, <1>6 DEF Covered

(* A rebuild without an issue only moves the cursor on.                     *)
LEMMA RebuildCovers ==
    ASSUME Base, Typed', Rebuild, UNCHANGED <<ledger, executed, filled>>, checkpoint'.issues = {}
    PROVE  /\ checkpoint.issues = {} /\ checkpoint.last <= checkpoint'.last
           /\ checkpoint'.fills = Len(ledger)
           /\ \A o \in Orders :
                /\ TradedTo(ledger, o, checkpoint.fills) <= TradedTo(ledger', o, checkpoint'.fills)
                /\ RecordedTo(ledger, o, checkpoint.fills) <= RecordedTo(ledger', o, checkpoint'.fills)
                /\ pc # "persist" /\ Covered(o) /\ reserved'[o] = reserved[o]
                     => Covered(o)'
<1> USE DEF Base
<1>1. /\ checkpoint.issues = {} /\ checkpoint.last <= checkpoint'.last
      /\ checkpoint'.fills = Len(ledger)
  BY RebuildGives DEF Written
<1>2. /\ ledger \in Seq(FillRecord) /\ Len(ledger) \in Nat /\ checkpoint.fills \in 0 .. Len(ledger)
      /\ Len(executed) \in Nat
  BY BaseTypes DEF Written
<1>3. ASSUME NEW o \in Orders
      PROVE  /\ TradedTo(ledger, o, checkpoint.fills) <= TradedTo(ledger', o, checkpoint'.fills)
             /\ RecordedTo(ledger, o, checkpoint.fills) <= RecordedTo(ledger', o, checkpoint'.fills)
  <2>1. checkpoint.fills \in 0 .. Len(ledger) /\ Len(ledger) \in Nat /\ ledger' = ledger
    BY <1>2
  <2>2. /\ TradedTo(ledger, o, checkpoint.fills) <= TradedTo(ledger, o, Len(ledger))
        /\ RecordedTo(ledger, o, checkpoint.fills) <= RecordedTo(ledger, o, Len(ledger))
    BY <1>2, UnitsInOrder
  <2> QED BY <1>1, <2>1, <2>2
<1>4. ASSUME NEW o \in Orders, pc # "persist", Covered(o), reserved'[o] = reserved[o]
      PROVE  Covered(o)'
  <2>1. filled[o] <= filled'[o] /\ Len(executed) <= Len(executed')
    BY <1>2, Counted
  <2>2. \A u \in 0 .. Len(executed) : ~Inferring(o, u) /\ ExecutedOf(o, u)' = ExecutedOf(o, u)
    BY <1>4, SameTrades DEF Inferring
  <2> QED BY <1>1, <1>3, <1>4, <2>1, <2>2, CoveredStays
<1> QED BY <1>1, <1>3, <1>4

(* Nothing but the point an operation has reached changes.                  *)
LEMMA SameCovered ==
    ASSUME Typed, Typed', NEW o \in Orders, Covered(o), reserved'[o] = reserved[o],
           UNCHANGED <<ledger, checkpoint, executed, filled>>,
           \A u : Inferring(o, u) => Inferring(o, u)'
    PROVE  Covered(o)'
<1>1. Len(executed) <= Len(executed') /\ filled[o] <= filled'[o] /\ checkpoint.last <= checkpoint'.last
  BY BaseTypes, Counted
<1>2. /\ TradedTo(ledger, o, checkpoint.fills) <= TradedTo(ledger', o, checkpoint'.fills)
      /\ RecordedTo(ledger, o, checkpoint.fills) <= RecordedTo(ledger', o, checkpoint'.fills)
  BY Counted
<1> QED BY <1>1, <1>2, SameTrades, CoveredStays

(* What a fill takes out of the reservation is projected with it: a trade as a  *)
(* trade, an inferred quantity up to the trade it was read at.  A trade     *)
(* older than what a fill inferred before it accounts for is late.          *)
LEMMA PublishCovers ==
    ASSUME Base, Typed', PublishFill, checkpoint'.issues = {}, op.order \in Orders, Covered(op.order)
    PROVE  Covered(op.order)'
<1> USE DEF Base
<1> DEFINE o == op.order
           n == Len(ledger)
           c == checkpoint.fills
           q == ledger[n].qty
<1>1. /\ pc = "publish" /\ Rebuild /\ UNCHANGED <<ledger, executed, filled, op>> /\ pc' = "persist"
      /\ reserved' = [reserved EXCEPT ![o] = Consumed(o, Last(ledger).qty)]
  BY DEF PublishFill, At, market
<1>2. /\ ledger \in Seq(FillRecord) /\ executed \in Seq(Orders) /\ n \in Nat /\ c \in Nat /\ c < n
      /\ DOMAIN ledger = 1 .. n /\ Len(executed) \in Nat
  BY <1>1, BaseTypes DEF Written
<1>3. /\ filled[o] \in Nat /\ reserved[o] \in Nat /\ Qty[o] \in Nat /\ checkpoint.last \in Nat
      /\ \A k : TradedTo(ledger, o, k) \in Nat /\ RecordedTo(ledger, o, k) \in Nat
      /\ \A u \in 0 .. Len(executed) : ExecutedOf(o, u) \in Nat
  BY Counted
<1>4. n \in DOMAIN ledger /\ q \in Nat /\ n - 1 \in Nat /\ c \in 0 .. n - 1 /\ c \in 0 .. n
  <2>1. n \in DOMAIN ledger /\ n - 1 \in Nat /\ c \in 0 .. n - 1 /\ c \in 0 .. n
    <3> HIDE DEF n, c
    <3> QED BY <1>2
  <2>2. ledger[n] \in FillRecord
    BY <1>2, <2>1, KeysOfFills
  <2> QED BY <2>1, <2>2 DEF FillRecord
<1>5. /\ checkpoint'.fills = n /\ checkpoint.last <= checkpoint'.last /\ checkpoint'.last \in Nat
      /\ \A k \in c + 1 .. n : checkpoint.last <= ledger[k].key /\ ledger[k].key <= checkpoint'.last
  <2>1. checkpoint'.last \in Nat
    BY DEF Typed, TypeOK
  <2> QED BY <1>1, <2>1, RebuildGives DEF Written
<1>6. reserved'[o] \in Nat /\ reserved'[o] + q >= reserved[o]
  <2>1. reserved'[o] = Consumed(o, q)
    <3>1. reserved \in [Orders -> Nat]
      BY DEF Typed
    <3> QED BY <1>1, <3>1 DEF Last
  <2>2. Consumed(o, q) = IF q < reserved[o] THEN reserved[o] - q ELSE 0
    BY DEF Consumed
  <2> HIDE DEF o, q
  <2> QED BY <1>3, <1>4, <2>1, <2>2
<1>7. /\ TradedTo(ledger, o, c) <= TradedTo(ledger, o, n - 1)
      /\ RecordedTo(ledger, o, c) <= RecordedTo(ledger, o, n - 1)
      /\ TradedTo(ledger, o, n - 1) <= RecordedTo(ledger, o, n - 1)
      /\ TradedTo(ledger, o, c) <= RecordedTo(ledger, o, c)
  <2> HIDE DEF o, n, c
  <2> QED BY <1>2, <1>4, UnitsInOrder, UnitsTyped
<1>8. ledger[n].order = o
  <2>1. LastIsTrade => ledger[n].order = o
    BY DEF LastIsTrade, Trade
  <2> QED BY <1>1, <2>1 DEF Written, LastIsInferred
<1>9. /\ RecordedTo(ledger, o, n) = RecordedTo(ledger, o, n - 1) + q
      /\ ~ledger[n].synthetic => TradedTo(ledger, o, n) = TradedTo(ledger, o, n - 1) + q
  <2> HIDE DEF o, n
  <2> QED BY <1>2, <1>4, <1>8, UnitsOfOne
<1>10. /\ q \in Nat /\ reserved[o] \in Nat /\ Qty[o] \in Nat
       /\ TradedTo(ledger, o, c) \in Nat /\ TradedTo(ledger, o, n) \in Nat
       /\ RecordedTo(ledger, o, n - 1) \in Nat /\ RecordedTo(ledger, o, n) \in Nat
  BY <1>3, <1>4
(* What the fill takes off the reservation, its own units make up for.      *)
<1>10a. ASSUME NEW t \in Nat, reserved[o] + t >= Qty[o], TradedTo(ledger, o, n) >= t + q
        PROVE  reserved'[o] + TradedTo(ledger, o, n) >= Qty[o]
  <2> HIDE DEF o, n, c, q
  <2>1. reserved'[o] + q + t >= Qty[o]
    BY <1>6, <1>10, <1>10a
  <2>2. /\ reserved'[o] \in Nat /\ q \in Nat /\ Qty[o] \in Nat
        /\ TradedTo(ledger, o, n) \in Nat
    BY <1>6, <1>10
  <2> QED BY <1>10a, <2>1, <2>2
(* Enough is projected as trades.                                           *)
<1>11. ASSUME reserved'[o] + TradedTo(ledger, o, n) >= Qty[o] PROVE Covered(o)'
  BY <1>1, <1>5, <1>11 DEF Covered
<1>12. CASE filled[o] >= Qty[o]
  BY <1>1, <1>12 DEF Covered
<1>13. CASE LastIsInferred
  <2> DEFINE u == op.upto
  <2>1. /\ op.details # "trades" /\ ledger[n].key = 2 * u + 1
        /\ RecordedTo(ledger, o, n) = ExecutedOf(o, u) /\ u \in 0 .. Len(executed)
        /\ filled[o] <= ExecutedOf(o, u)
    BY <1>1, <1>13 DEF LastIsInferred, Reported, AtWork
  <2>2. 2 * u + 1 <= checkpoint'.last
    <3>1. n \in c + 1 .. n
      <4> HIDE DEF n, c
      <4> QED BY <1>2
    <3> QED BY <1>5, <2>1, <3>1
  <2>3. CASE reserved[o] + TradedTo(ledger, o, c) >= Qty[o]
    <3>1. reserved[o] + RecordedTo(ledger, o, n - 1) >= Qty[o]
      <4> HIDE DEF o, n, c, q
      <4> QED BY <1>3, <1>7, <2>3
    <3>2. reserved'[o] + ExecutedOf(o, u) >= Qty[o]
      <4> HIDE DEF o, n, c, q, u
      <4>1. RecordedTo(ledger, o, n) = RecordedTo(ledger, o, n - 1) + q
            /\ RecordedTo(ledger, o, n) = ExecutedOf(o, u)
        BY <1>9, <2>1
      <4>2. /\ reserved'[o] \in Nat /\ q \in Nat /\ reserved[o] \in Nat /\ Qty[o] \in Nat
            /\ RecordedTo(ledger, o, n - 1) \in Nat /\ reserved'[o] + q >= reserved[o]
        BY <1>6, <1>10
      <4> QED BY <3>1, <4>1, <4>2
    <3>3. CoveredUpTo(o, u)'
      <4>1. Inferring(o, u)'
        BY <1>1, <2>1 DEF Inferring
      <4>2. ExecutedOf(o, u)' = ExecutedOf(o, u) /\ ExecutedOf(o, u) <= RecordedTo(ledger, o, n)
        BY <1>1, <1>3, <2>1, SameTrades
      <4> QED BY <1>1, <1>5, <2>2, <3>2, <4>1, <4>2 DEF CoveredUpTo
    <3> QED BY <1>1, <2>1, <3>3 DEF Covered
  <2>4. ASSUME NEW v \in 0 .. Len(executed), CoveredUpTo(o, v) PROVE Covered(o)'
    <3>1. /\ ExecutedOf(o, v) <= RecordedTo(ledger, o, c) /\ reserved[o] + ExecutedOf(o, v) >= Qty[o]
      BY <2>4 DEF CoveredUpTo
    <3>2. reserved[o] + RecordedTo(ledger, o, n - 1) >= Qty[o]
      <4>1. ExecutedOf(o, v) \in Nat
        BY <1>3
      <4> HIDE DEF o, n, c, q, u
      <4> QED BY <1>3, <1>7, <3>1, <4>1
    <3>3. reserved'[o] + ExecutedOf(o, u) >= Qty[o]
      <4> HIDE DEF o, n, c, q, u
      <4>1. RecordedTo(ledger, o, n) = RecordedTo(ledger, o, n - 1) + q
            /\ RecordedTo(ledger, o, n) = ExecutedOf(o, u)
        BY <1>9, <2>1
      <4>2. /\ reserved'[o] \in Nat /\ q \in Nat /\ reserved[o] \in Nat /\ Qty[o] \in Nat
            /\ RecordedTo(ledger, o, n - 1) \in Nat /\ reserved'[o] + q >= reserved[o]
        BY <1>6, <1>10
      <4> QED BY <3>2, <4>1, <4>2
    <3>4. CoveredUpTo(o, u)'
      <4>1. Inferring(o, u)'
        BY <1>1, <2>1 DEF Inferring
      <4>2. ExecutedOf(o, u)' = ExecutedOf(o, u) /\ ExecutedOf(o, u) <= RecordedTo(ledger, o, n)
        BY <1>1, <1>3, <2>1, SameTrades
      <4> QED BY <1>1, <1>5, <2>2, <3>3, <4>1, <4>2 DEF CoveredUpTo
    <3> QED BY <1>1, <2>1, <3>4 DEF Covered
  <2> QED BY <1>12, <2>3, <2>4 DEF Covered
<1>14. CASE LastIsTrade
  <2>1. PICK m \in 1 .. op.upto :
          /\ ledger[n] = Trade(m) /\ executed[m] = o
          /\ \A i \in 1 .. m : executed[i] = o => OnRecord(i)
    BY <1>14 DEF LastIsTrade
  <2>2. /\ m \in Nat /\ ~ledger[n].synthetic /\ ledger[n].key = 2 * m
    <3>1. op.upto \in Nat
      BY DEF Typed, TypeOK
    <3> QED BY <2>1, <3>1 DEF Trade
  <2>3. TradedTo(ledger, o, n) >= TradedTo(ledger, o, c) + q
    <3>1. TradedTo(ledger, o, n) = TradedTo(ledger, o, n - 1) + q
      BY <1>9, <2>2
    <3> HIDE DEF o, n, c, q
    <3> QED BY <1>3, <1>4, <1>7, <3>1
  <2>4. CASE reserved[o] + TradedTo(ledger, o, c) >= Qty[o]
    <3>1. reserved'[o] + TradedTo(ledger, o, n) >= Qty[o]
      <4>1. TradedTo(ledger, o, c) \in Nat
        BY <1>10
      <4> HIDE DEF o, n, c, q
      <4> QED BY <1>10a, <2>3, <2>4, <4>1
    <3> QED BY <1>11, <3>1
  <2>5. ASSUME NEW v \in 0 .. Len(executed), CoveredUpTo(o, v) PROVE Covered(o)'
    <3>1. 2 * v + 1 <= checkpoint.last /\ reserved[o] + ExecutedOf(o, v) >= Qty[o] /\ v \in Nat
      BY <2>5 DEF CoveredUpTo
    <3>2. v < m
      <4>1. n \in c + 1 .. n
        <5> HIDE DEF n, c
        <5> QED BY <1>2
      <4>2. checkpoint.last <= 2 * m
        BY <1>5, <2>2, <4>1
      <4> QED BY <1>3, <2>2, <3>1, <4>2
    <3>3. ASSUME NEW i \in 1 .. v, executed[i] = o
          PROVE  \E k \in DOMAIN ledger : k <= c /\ ledger[k] = Trade(i)
      <4>1. i \in 1 .. m /\ i \in Nat /\ i <= v
        BY <2>2, <3>1, <3>2
      <4>2. PICK k \in DOMAIN ledger : ledger[k] = Trade(i)
        BY <2>1, <3>3, <4>1 DEF OnRecord
      <4>3. k <= c
        <5>1. ledger[k].key = 2 * i
          BY <4>2 DEF Trade
        <5>2. k \in 1 .. n
          BY <1>2
        <5>3. ~(checkpoint.last <= ledger[k].key)
          BY <1>3, <3>1, <4>1, <5>1
        <5>4. k \notin c + 1 .. n
          BY <1>5, <5>3
        <5> HIDE DEF n, c
        <5> QED BY <1>2, <5>2, <5>4
      <4> QED BY <4>2, <4>3
    <3>4. ExecutedOf(o, v) <= TradedTo(ledger, o, c)
      BY <1>2, <3>3, TradesCounted
    <3>5. reserved'[o] + TradedTo(ledger, o, n) >= Qty[o]
      <4>1. ExecutedOf(o, v) \in Nat
        BY <1>3
      <4> HIDE DEF o, n, c, q
      <4>2. reserved[o] + ExecutedOf(o, v) >= Qty[o]
        BY <3>1
      <4>3. reserved[o] + TradedTo(ledger, o, c) >= Qty[o]
        BY <1>10, <3>4, <4>1, <4>2
      <4>4. TradedTo(ledger, o, c) \in Nat
        BY <1>10
      <4> QED BY <1>10a, <2>3, <4>3, <4>4
    <3> QED BY <1>11, <3>5
  <2> QED BY <1>12, <2>4, <2>5 DEF Covered
<1> QED BY <1>1, <1>13, <1>14 DEF Written

LEMMA NoLess ==
    ASSUME Base, NEW o \in Orders
    PROVE  /\ filled[o] <= filled[o] /\ checkpoint.last <= checkpoint.last
           /\ TradedTo(ledger, o, checkpoint.fills) <= TradedTo(ledger, o, checkpoint.fills)
           /\ RecordedTo(ledger, o, checkpoint.fills) <= RecordedTo(ledger, o, checkpoint.fills)
           /\ Len(executed) <= Len(executed) /\ checkpoint.fills \in 0 .. Len(ledger)
<1>1. Typed /\ checkpoint.fills <= Len(ledger)
  BY DEF Base, Written
<1>2. Len(executed) \in Nat /\ Len(ledger) \in Nat /\ checkpoint.fills \in Nat
  BY <1>1, BaseTypes
<1>3. checkpoint.fills \in 0 .. Len(ledger)
  BY <1>1, <1>2
<1> QED BY <1>1, <1>2, <1>3, Counted

LEMMA CoverageStep == ASSUME Base, Coverage, [Next]_vars PROVE Coverage'
<1> USE DEF Base
<1>1. Typed'
  BY BaseStep
<1> SUFFICES ASSUME mode' # "down", checkpoint'.issues = {}, NEW o \in Opening, Live(o)'
             PROVE  Covered(o)'
  BY DEF Coverage
<1>2. /\ o \in Orders /\ row \in [Orders -> Status] /\ reserved \in [Orders -> Nat]
      /\ op.order \in Orders \cup {""} /\ filled \in [Orders -> Nat]
      /\ executed \in Seq(Orders) /\ Len(executed) \in Nat
      /\ ledger \in Seq(FillRecord) /\ Len(ledger) \in Nat
  <2>1. o \in Orders
    BY OwnedLotsAssumption
  <2>2. op \in OpRecord /\ row \in [Orders -> Status] /\ reserved \in [Orders -> Nat]
        /\ filled \in [Orders -> Nat]
    BY DEF Typed, TypeOK, OpRecord
  <2> QED BY <2>1, <2>2, BaseTypes DEF OpRecord
<1>3. ASSUME mode # "down", checkpoint.issues = {}, Live(o) PROVE Covered(o)
  BY <1>3 DEF Coverage
(* Nothing the coverage speaks of changes.                                  *)
<1>4. ASSUME UNCHANGED <<ledger, checkpoint, executed, filled>>, mode # "down", Live(o),
             reserved'[o] = reserved[o], pc # "persist" \/ UNCHANGED <<pc, op>>
      PROVE  Covered(o)'
  <2>1. checkpoint.issues = {}
    BY <1>4
  <2>2. \A u : Inferring(o, u) => Inferring(o, u)'
    BY <1>4 DEF Inferring
  <2> QED BY <1>1, <1>2, <1>3, <1>4, <2>1, <2>2, SameCovered
(* Nothing but the checkpoint does.                                         *)
<1>5. ASSUME Rebuild, UNCHANGED <<ledger, executed, filled>>, mode # "down", Live(o),
             reserved'[o] = reserved[o], pc # "persist"
      PROVE  Covered(o)'
  <2>1. checkpoint.issues = {}
    BY <1>1, <1>5, RebuildCovers
  <2> QED BY <1>1, <1>2, <1>3, <1>5, <2>1, RebuildCovers
(* The row of an order of which something is known already is written.      *)
<1>6. ASSUME NEW p \in Orders, Publish(p, "unknown"), Live(p), mode # "down", pc # "persist",
             UNCHANGED <<ledger, checkpoint, executed, filled>>
      PROVE  Covered(o)'
  <2>1. Live(o) /\ reserved'[o] = reserved[o]
    BY <1>2, <1>6 DEF Publish, Live, RELEASING_STATUSES
  <2> QED BY <1>4, <1>6, <2>1
<1>7. ASSUME NEW p \in Orders, NEW status \in TERMINAL_STATUSES, Publish(p, status), mode # "down",
             UNCHANGED <<ledger, checkpoint, executed, filled>>, pc # "persist"
      PROVE  Covered(o)'
  <2>1. o # p
    BY <1>2, <1>7 DEF Publish, Live
  <2>2. Live(o) /\ reserved'[o] = reserved[o]
    BY <1>2, <1>7, <2>1 DEF Publish, Live
  <2> QED BY <1>4, <1>7, <2>2
<1>8. ASSUME NEW p \in Orders, VenueFills(p) PROVE Covered(o)'
  <2>1. /\ UNCHANGED <<row, filled, ledger, checkpoint, reserved, mode, pc, op>>
        /\ executed' = Append(executed, p)
    BY <1>8 DEF VenueFills, durable, memory, control
  <2>2. Covered(o)
    BY <1>3, <2>1 DEF Live
  <2>3. Len(executed') = Len(executed) + 1
    BY <1>2, <2>1, OneMoreTrade
  <2>4. \A q, n : n \in 0 .. Len(executed) => ExecutedOf(q, n)' = ExecutedOf(q, n)
    BY <1>2, <2>1, OneMoreTrade
  <2>5. Len(executed) <= Len(executed')
    <3>1. Len(executed) \in Nat
      BY <1>2
    <3> QED BY <2>3, <3>1
  <2>6. /\ filled[o] <= filled'[o] /\ checkpoint.last <= checkpoint'.last
        /\ TradedTo(ledger, o, checkpoint.fills) <= TradedTo(ledger', o, checkpoint'.fills)
        /\ RecordedTo(ledger, o, checkpoint.fills) <= RecordedTo(ledger', o, checkpoint'.fills)
    BY <1>2, <2>1, NoLess
  <2>7. \A u : Inferring(o, u) => Inferring(o, u)'
    BY <2>1 DEF Inferring
  <2> QED BY <1>1, <1>2, <2>1, <2>2, <2>4, <2>5, <2>6, <2>7, CoveredStays
<1>9. ASSUME NEW p \in Orders, VenueEnds(p) PROVE Covered(o)'
  BY <1>4, <1>9 DEF VenueEnds, durable, memory, control, Live
<1>10. ASSUME NEW p \in Orders, Approve(p) PROVE Covered(o)'
  <2>1. /\ UNCHANGED <<ledger, checkpoint, executed, filled>> /\ mode # "down" /\ pc = "top"
    BY <1>10 DEF Approve, At, market
  <2>2. CASE Submittable(p) /\ o = p
    <3>1. reserved'[o] = Qty[o]
      BY <1>2, <1>10, <2>2 DEF Approve
    <3>2. Qty[o] \in Nat /\ TradedTo(ledger, o, checkpoint.fills) \in Nat
      BY <1>2, Counted
    <3>3. reserved'[o] + TradedTo(ledger', o, checkpoint'.fills) >= Qty[o]
      BY <2>1, <3>1, <3>2
    <3> QED BY <3>3 DEF Covered
  <2>3. CASE Submittable(p) /\ o # p
    <3>1. reserved'[o] = reserved[o] /\ row'[o] = row[o]
      BY <1>2, <1>10, <2>3 DEF Approve
    <3> QED BY <1>4, <2>1, <3>1 DEF Live
  <2>4. CASE ~Submittable(p)
    <3>1. Publish(p, "rejected")
      BY <1>10, <2>4 DEF Approve
    <3> QED BY <1>7, <2>1, <3>1 DEF TERMINAL_STATUSES
  <2> QED BY <2>2, <2>3, <2>4
<1>11. ASSUME NEW p \in Orders, Reconcile(p) PROVE Covered(o)'
  <2>1. /\ UNCHANGED <<ledger, checkpoint, executed, filled>> /\ mode # "down" /\ pc = "top"
    BY <1>11 DEF Reconcile, At
  <2> QED BY <1>4, <1>6, <1>11, <2>1 DEF Reconcile, Live
<1>12. ASSUME NEW p \in Orders, Cancel(p) PROVE Covered(o)'
  <2>1. /\ UNCHANGED <<ledger, checkpoint, executed, filled, reserved>> /\ mode # "down" /\ pc = "top"
        /\ row[p] \in {"accepted", "partial", "cancel_pending"}
        /\ row' = [row EXCEPT ![p] = "cancel_pending"]
    BY <1>12 DEF Cancel, At, memory
  <2>2. Live(o)
    BY <1>2, <2>1 DEF Live, TERMINAL_STATUSES
  <2> QED BY <1>4, <2>1, <2>2
<1>13. ASSUME NEW p \in Orders, ResolveUnsubmitted(p) PROVE Covered(o)'
  <2>1. /\ UNCHANGED <<ledger, checkpoint, executed, filled>> /\ mode # "down" /\ pc = "top"
        /\ Publish(p, "expired_unsubmitted")
    BY <1>13 DEF ResolveUnsubmitted, At, market
  <2> QED BY <1>7, <2>1 DEF TERMINAL_STATUSES
<1>14. CASE Start
  <2>1. /\ reserved'[o] = Restored(o) /\ UNCHANGED <<row, filled, ledger>>
    BY <1>2, <1>14 DEF Start
  <2>2. filled[o] >= Qty[o] \/ reserved'[o] = Qty[o]
    <3>1. filled[o] \in Nat /\ Qty[o] \in Nat
      BY <1>2, Counted
    <3>2. Live(o)
      BY <2>1 DEF Live
    <3> QED BY <2>1, <3>1, <3>2 DEF Restored
  <2>3. Qty[o] \in Nat /\ TradedTo(ledger, o, checkpoint'.fills) \in Nat
    BY <1>2, Counted
  <2>4. CASE filled[o] >= Qty[o]
    BY <2>1, <2>4 DEF Covered
  <2>5. CASE reserved'[o] = Qty[o]
    <3>1. reserved'[o] + TradedTo(ledger', o, checkpoint'.fills) >= Qty[o]
      BY <2>1, <2>3, <2>5
    <3> QED BY <3>1 DEF Covered
  <2> QED BY <2>2, <2>4, <2>5
<1>15. CASE StartTick
  <2>1. /\ UNCHANGED <<row, filled, ledger, executed, reserved>> /\ mode # "down" /\ pc = "top"
    BY <1>15 DEF StartTick, market
  <2>2. CASE Synced
    BY <1>5, <2>1, <2>2 DEF Synced, Report, Live
  <2>3. CASE SyncFails
    BY <1>4, <2>1, <2>3 DEF SyncFails, Live
  <2> QED BY <1>15, <2>2, <2>3 DEF StartTick
<1>16. CASE CheckAccount
  BY <1>5, <1>16 DEF CheckAccount, Report, market, Live
<1>17. CASE StartBatch
  BY <1>4, <1>17 DEF StartBatch, market, durable, memory, Live
<1>18. CASE EndTick
  BY <1>4, <1>18 DEF EndTick, market, durable, memory, Live
<1>19. CASE Send
  <2>1. /\ UNCHANGED <<ledger, checkpoint, executed, filled>> /\ mode # "down" /\ pc = "send"
        /\ op.order \in Orders /\ row[op.order] = "submitting"
    BY <1>19 DEF Send, At, AtWork, Flagged
  <2>2. Live(op.order)
    BY <2>1 DEF Live, TERMINAL_STATUSES
  <2>3. CASE UNCHANGED <<row, reserved>>
    BY <1>4, <2>1, <2>3 DEF Live
  <2>4. CASE Publish(op.order, "unknown")
    BY <1>6, <2>1, <2>2, <2>4
  <2>5. CASE Publish(op.order, "rejected")
    BY <1>7, <2>1, <2>5 DEF TERMINAL_STATUSES
  <2> QED BY <1>19, <2>3, <2>4, <2>5 DEF Send
<1>20. CASE Answer
  <2>1. /\ UNCHANGED <<ledger, checkpoint, executed, filled>> /\ mode # "down" /\ pc = "answer"
        /\ op.order \in Orders /\ row[op.order] = "submitting"
    BY <1>2, <1>20 DEF Answer, At, AtWork, Flagged, Typed, TypeOK
  <2>2. Live(op.order)
    BY <2>1 DEF Live, TERMINAL_STATUSES
  <2>3. CASE UNCHANGED <<row, reserved>>
    BY <1>4, <2>1, <2>3 DEF Live
  <2>4. CASE Publish(op.order, "unknown")
    BY <1>6, <2>1, <2>2, <2>4
  <2> QED BY <1>20, <2>3, <2>4 DEF Answer
<1>21. CASE AddFill
  <2>1. /\ UNCHANGED <<row, filled, checkpoint, executed, reserved, mode, op>> /\ pc = "persist"
        /\ op.order \in Orders /\ op.upto \in 0 .. Len(executed) /\ mode # "down"
    BY <1>21, ReportedTyped DEF AddFill, At, market, memory, AtWork, Flagged
  <2>2. PICK f \in NextFill : ledger' = Append(ledger, f)
    BY <1>21 DEF AddFill
  <2>3. f \in FillRecord
    BY <2>1, NextFillIs
  <2>4. checkpoint.fills \in 0 .. Len(ledger)
    BY <1>2, NoLess
  <2>5. /\ TradedTo(ledger', o, checkpoint.fills) = TradedTo(ledger, o, checkpoint.fills)
        /\ RecordedTo(ledger', o, checkpoint.fills) = RecordedTo(ledger, o, checkpoint.fills)
    BY <1>2, <2>2, <2>3, <2>4, UnitsStay
  <2>6. ASSUME NEW u, CoveredUpTo(o, u), Inferring(o, u) PROVE FALSE
    <3>1. /\ o = op.order /\ op.details # "trades" /\ Reported <= RecordedTo(ledger, o, checkpoint.fills)
      BY <2>6 DEF CoveredUpTo, Inferring, Reported
    <3>2. Recorded(o) < Reported
      BY <2>2, <3>1 DEF NextFill
    <3>3. RecordedTo(ledger, o, checkpoint.fills) <= RecordedTo(ledger, o, Len(ledger))
      BY <1>2, <2>4, UnitsInOrder
    <3>4. Recorded(o) = RecordedTo(ledger, o, Len(ledger))
      BY <1>2, UnitsInAll
    <3>5. /\ RecordedTo(ledger, o, checkpoint.fills) \in Nat /\ RecordedTo(ledger, o, Len(ledger)) \in Nat
          /\ Reported \in Nat
      BY <1>2, <2>1, ReportedTyped, UnitsTyped
    <3> QED BY <3>1, <3>2, <3>3, <3>4, <3>5
  <2>7. /\ Covered(o) /\ filled[o] <= filled'[o] /\ checkpoint.last <= checkpoint'.last
        /\ TradedTo(ledger, o, checkpoint.fills) <= TradedTo(ledger', o, checkpoint'.fills)
        /\ RecordedTo(ledger, o, checkpoint.fills) <= RecordedTo(ledger', o, checkpoint'.fills)
    <3>1. Covered(o)
      BY <1>3, <2>1 DEF Live
    <3>2. UNCHANGED <<filled, checkpoint>>
      BY <2>1
    <3> QED BY <1>2, <2>5, <3>1, <3>2, NoLess
  <2>8. Len(executed) <= Len(executed')
    BY <1>2, <2>1, NoLess
  <2> QED BY <1>1, <1>2, <2>1, <2>6, <2>7, <2>8, SameTrades, CoveredStays
<1>22. CASE PublishFill
  <2>1. /\ UNCHANGED <<row, filled, ledger, executed>> /\ pc = "publish" /\ mode # "down" /\ Rebuild
        /\ op.order \in Orders /\ reserved' = [reserved EXCEPT ![op.order] =
                                                Consumed(op.order, Last(ledger).qty)]
    BY <1>22, ReportedTyped DEF PublishFill, At, market, Flagged
  <2>2. Live(o)
    BY <2>1 DEF Live
  <2>3. CASE o # op.order
    <3>1. reserved'[o] = reserved[o]
      BY <1>2, <2>1, <2>3
    <3> QED BY <1>5, <2>1, <2>2, <3>1
  <2>4. CASE o = op.order
    <3>1. checkpoint.issues = {}
      BY <1>1, <2>1, RebuildCovers
    <3>2. Covered(op.order)
      <4>1. Covered(o)
        BY <1>3, <2>1, <2>2, <3>1
      <4> QED BY <2>4, <4>1
    <3>3. checkpoint'.issues = {} /\ op.order \in Orders
      BY <2>1
    <3>4. Covered(op.order)'
      BY <1>1, <1>22, <3>2, <3>3, PublishCovers
    <3>5. op' = op
      BY <1>22 DEF PublishFill
    <3> QED BY <2>4, <3>4, <3>5 DEF Covered, CoveredUpTo, Inferring
  <2> QED BY <2>3, <2>4
<1>23. CASE PublishRaises
  BY <1>4, <1>23 DEF PublishRaises, At, market, durable, Flagged, Live
<1>24. CASE FinishPersist
  <2>1. /\ UNCHANGED <<ledger, checkpoint, executed, mode>> /\ pc = "persist" /\ mode # "down"
        /\ op.order \in Orders /\ NewStatus \in Status /\ Reported \in Nat
        /\ row' = [row EXCEPT ![op.order] = NewStatus] /\ filled' = [filled EXCEPT ![op.order] = Reported]
        /\ reserved' = [reserved EXCEPT ![op.order] =
                           IF NewStatus \in RELEASING_STATUSES THEN 0 ELSE @]
    BY <1>24, ReportedTyped DEF FinishPersist, At, market, Flagged, UpdateRow, Publish
  <2>2. Live(o) /\ reserved'[o] = reserved[o]
    <3>1. CASE o = op.order
      <4>1. NewStatus \notin TERMINAL_STATUSES
        BY <1>2, <2>1, <3>1 DEF Live
      <4>2. ~op.ended
        BY <4>1 DEF NewStatus, ParsedStatus, TERMINAL_STATUSES
      <4>3. row[o] \notin TERMINAL_STATUSES /\ row[o] # "created"
        BY <1>2, <2>1, <3>1, <4>2 DEF AtWork, Rows
      <4>4. NewStatus \notin RELEASING_STATUSES
        BY <4>1 DEF TERMINAL_STATUSES, RELEASING_STATUSES
      <4> QED BY <1>2, <2>1, <3>1, <4>3, <4>4 DEF Live
    <3>2. CASE o # op.order
      BY <1>2, <2>1, <3>2 DEF Live
    <3> QED BY <3>1, <3>2
  <2>3. filled[op.order] <= Reported
    BY <2>1 DEF AtWork
  <2>4. filled[o] <= filled'[o]
    <3>1. CASE o = op.order
      BY <1>2, <2>1, <2>3, <3>1
    <3>2. CASE o # op.order
      BY <1>2, <2>1, <3>2, NoLess
    <3> QED BY <3>1, <3>2
  <2>5. ASSUME NEW u, Inferring(o, u) PROVE ExecutedOf(o, u) <= filled'[o]
    <3>1. o = op.order /\ u = op.upto
      BY <2>5 DEF Inferring
    <3>2. filled'[o] = Reported /\ Reported = ExecutedOf(o, u)
      BY <1>2, <2>1, <3>1 DEF Reported
    <3> QED BY <2>1, <3>2
  <2>6. /\ Covered(o) /\ checkpoint.last <= checkpoint'.last
        /\ TradedTo(ledger, o, checkpoint.fills) <= TradedTo(ledger', o, checkpoint'.fills)
        /\ RecordedTo(ledger, o, checkpoint.fills) <= RecordedTo(ledger', o, checkpoint'.fills)
    <3>1. Covered(o)
      BY <1>3, <2>1, <2>2
    <3>2. UNCHANGED <<ledger, checkpoint>>
      BY <2>1
    <3> QED BY <1>2, <3>1, <3>2, NoLess
  <2>7. Len(executed) <= Len(executed')
    BY <1>2, <2>1, NoLess
  <2> QED BY <1>1, <1>2, <2>1, <2>2, <2>4, <2>5, <2>6, <2>7, SameTrades, CoveredStays
<1>25. CASE SyncAfter
  <2>1. /\ UNCHANGED <<row, filled, ledger, executed, reserved, mode>> /\ mode # "down" /\ pc = "sync"
    BY <1>25 DEF SyncAfter, market, At, Flagged
  <2>2. CASE Synced
    BY <1>5, <2>1, <2>2 DEF Synced, Report, Live
  <2>3. CASE SyncFails
    BY <1>4, <2>1, <2>3 DEF SyncFails, Live
  <2> QED BY <1>25, <2>2, <2>3 DEF SyncAfter
<1>26. CASE Crash
  BY <1>26 DEF Crash
<1>27. CASE UNCHANGED vars
  BY <1>4, <1>27 DEF vars, Live
<1> QED
  BY <1>8, <1>9, <1>10, <1>11, <1>12, <1>13, <1>14, <1>15, <1>16, <1>17, <1>18, <1>19, <1>20,
     <1>21, <1>22, <1>23, <1>24, <1>25, <1>26, <1>27 DEF Next

(* A row that says what its trades say leaves to be bought, or bought and   *)
(* not on record, what the reservation holds.                               *)
LEMMA CoverageGives == ASSUME Base, Coverage PROVE RiskCovered
<1> USE DEF Base
<1> SUFFICES ASSUME pc = "top", mode # "down", ~issues,
                    \A o \in Orders : Documented(ledger, o) = filled[o],
                    NEW o \in Opening
             PROVE  Outstanding(o) + Unrecorded(o) <= reserved[o]
  BY DEF RiskCovered
<1>1. checkpoint.issues = {}
  BY DEF Flagged
<1>2. o \in Orders
  BY OwnedLotsAssumption
<1>3. /\ filled[o] \in Nat /\ reserved[o] \in Nat /\ Qty[o] \in Nat /\ ExecutedQty(o) \in Nat
      /\ \A u \in 0 .. Len(executed) : ExecutedOf(o, u) \in Nat
  <2>1. Len(executed) \in 0 .. Len(executed)
    BY BaseTypes
  <2> QED BY <1>2, <2>1, Counted DEF ExecutedQty
<1>4. /\ filled[o] <= ExecutedQty(o) /\ ExecutedQty(o) <= Qty[o]
  BY <1>2 DEF Rows, AtVenue
<1>5. Unrecorded(o) = ExecutedQty(o) - filled[o]
  BY <1>2 DEF Unrecorded
<1>6. CASE Live(o)
  <2>1. Covered(o)
    BY <1>1, <1>6 DEF Coverage
  <2>2. Qty[o] <= reserved[o] + filled[o]
    <3>1. CASE filled[o] >= Qty[o]
      BY <1>3, <3>1
    <3>2. CASE reserved[o] + TradedTo(ledger, o, checkpoint.fills) >= Qty[o]
      <4>1. ledger \in Seq(FillRecord) /\ Len(ledger) \in Nat /\ checkpoint.fills \in 0 .. Len(ledger)
        BY BaseTypes DEF Written
      <4>2. TradedTo(ledger, o, checkpoint.fills) <= TradedTo(ledger, o, Len(ledger))
        BY <4>1, UnitsInOrder
      <4>3. TradedTo(ledger, o, Len(ledger)) = filled[o]
        BY <1>2, <4>1, UnitsInAll
      <4>4. TradedTo(ledger, o, checkpoint.fills) \in Nat
        BY <4>1, UnitsTyped
      <4> QED BY <1>3, <3>2, <4>2, <4>3, <4>4
    <3>3. ASSUME NEW u \in 0 .. Len(executed), CoveredUpTo(o, u) PROVE Qty[o] <= reserved[o] + filled[o]
      <4>1. ExecutedOf(o, u) <= filled[o] /\ reserved[o] + ExecutedOf(o, u) >= Qty[o]
        BY <3>3 DEF CoveredUpTo, Inferring
      <4>2. ExecutedOf(o, u) \in Nat
        BY <1>3
      <4> QED BY <1>3, <4>1, <4>2
    <3> QED BY <2>1, <3>1, <3>2, <3>3 DEF Covered
  <2>3. Outstanding(o) \in {0, Qty[o] - ExecutedQty(o)}
    BY DEF Outstanding
  <2> QED BY <1>3, <1>4, <1>5, <2>2, <2>3
<1>7. CASE ~Live(o)
  <2>1. venue[o] # "working" /\ filled[o] = ExecutedQty(o)
    <3>1. CASE row[o] = "created"
      <4>1. venue[o] = "none" /\ ExecutedQty(o) = 0
        BY <1>2, <3>1 DEF Rows, AtVenue
      <4> QED BY <1>3, <1>4, <4>1
    <3>2. CASE row[o] \in TERMINAL_STATUSES
      BY <1>2, <3>2 DEF Rows
    <3> QED BY <1>7, <3>1, <3>2 DEF Live
  <2>2. Outstanding(o) = 0
    BY <2>1 DEF Outstanding
  <2> QED BY <1>3, <1>5, <2>1, <2>2
<1> QED BY <1>6, <1>7

(* When no issue blocks new risk and no row is ahead of its trades, every   *)
(* unit an order may still buy, or has bought unrecorded, is reserved,      *)
(* whatever was lost in a crash, inferred and told again, or told late.     *)
THEOREM RiskStaysCovered == Spec => []RiskCovered
<1>1. Init => Coverage
  BY DEF Init, Coverage
<1> QED BY <1>1, BaseInit, BaseStep, CoverageStep, CoverageGives, PTL DEF Spec

-----------------------------------------------------------------------------
(* Totals, as the number of their units.                                    *)

UnitsIn(f, S) == UNION {{e} \X (1 .. f[e]) : e \in S}
SumOf(f, S) == Cardinality(UnitsIn(f, S))

LEMMA UnitsInFinite ==
    ASSUME NEW S, IsFiniteSet(S), NEW f, \A e \in S : f[e] \in Nat
    PROVE  IsFiniteSet(UnitsIn(f, S)) /\ SumOf(f, S) \in Nat
<1> DEFINE R == {{e} \X (1 .. f[e]) : e \in S}
           g == [e \in S |-> {e} \X (1 .. f[e])]
<1>1. g \in Surjection(S, R)
  <2>1. g \in [S -> R] /\ \A t \in R : \E e \in S : g[e] = t
    OBVIOUS
  <2> HIDE DEF g, R
  <2> QED BY <2>1 DEF Surjection
<1>2. IsFiniteSet(R)
  <2> HIDE DEF g, R
  <2> QED BY <1>1, FS_Surjection
<1>3. ASSUME NEW t \in R PROVE IsFiniteSet(t)
  <2>1. PICK e \in S : t = {e} \X (1 .. f[e])
    OBVIOUS
  <2>2. IsFiniteSet(1 .. f[e])
    <3>1. 1 \in Int /\ f[e] \in Int
      OBVIOUS
    <3> QED BY <3>1, FS_Interval
  <2>3. IsFiniteSet({e})
    BY FS_Singleton
  <2>4. IsFiniteSet({e} \X (1 .. f[e]))
    BY <2>2, <2>3, FS_Product
  <2> QED BY <2>1, <2>4
<1>4. IsFiniteSet(UNION R)
  <2> HIDE DEF R
  <2> QED BY <1>2, <1>3, FS_UNION
<1>5. UnitsIn(f, S) = UNION R
  BY DEF UnitsIn
<1> QED BY <1>4, <1>5, FS_CardinalityType DEF SumOf

LEMMA SumsAgree ==
    ASSUME NEW S, NEW f, NEW g, \A e \in S : f[e] = g[e]
    PROVE  SumOf(f, S) = SumOf(g, S)
<1>1. UnitsIn(f, S) = UnitsIn(g, S)
  BY DEF UnitsIn
<1> QED BY <1>1 DEF SumOf

LEMMA SumMonotone ==
    ASSUME NEW S, IsFiniteSet(S), NEW T \in SUBSET S, NEW f, NEW g,
           \A e \in S : f[e] \in Nat, \A e \in T : g[e] \in Nat /\ g[e] <= f[e]
    PROVE  SumOf(g, T) <= SumOf(f, S)
<1>1. UnitsIn(g, T) \in SUBSET UnitsIn(f, S)
  <2>1. ASSUME NEW u \in UnitsIn(g, T) PROVE u \in UnitsIn(f, S)
    <3>1. PICK e \in T : u \in {e} \X (1 .. g[e])
      BY DEF UnitsIn
    <3>2. g[e] \in Nat /\ f[e] \in Nat /\ g[e] <= f[e]
      OBVIOUS
    <3>3. u \in {e} \X (1 .. f[e])
      BY <3>1, <3>2
    <3> QED BY <3>3 DEF UnitsIn
  <2> QED BY <2>1
<1>2. IsFiniteSet(UnitsIn(f, S))
  BY UnitsInFinite
<1> QED BY <1>1, <1>2, FS_Subset DEF SumOf

(* A total is that of the others and one.                                   *)
LEMMA SumSplits ==
    ASSUME NEW S, IsFiniteSet(S), NEW f, \A e \in S : f[e] \in Nat, NEW e \in S
    PROVE  SumOf(f, S) = SumOf(f, S \ {e}) + f[e]
<1> DEFINE rest == UnitsIn(f, S \ {e})
           q == f[e]
           own == {e} \X (1 .. q)
<1>1. UnitsIn(f, S) = rest \cup own
  BY DEF UnitsIn
<1>2. rest \cap own = {}
  BY DEF UnitsIn
<1>3. q \in Nat
  OBVIOUS
<1>4. IsFiniteSet(S \ {e})
  BY FS_RemoveElement
<1>5. IsFiniteSet(rest) /\ Cardinality(rest) \in Nat
  BY <1>4, UnitsInFinite DEF SumOf
<1> HIDE DEF q, rest
<1>6. IsFiniteSet(own) /\ Cardinality(own) = q
  <2>1. IsFiniteSet(1 .. q) /\ Cardinality(1 .. q) = q
    <3>1. 1 \in Int /\ q \in Int
      BY <1>3
    <3>2. IsFiniteSet(1 .. q) /\ Cardinality(1 .. q) = IF 1 > q THEN 0 ELSE q - 1 + 1
      BY <3>1, FS_Interval
    <3> QED BY <1>3, <3>2
  <2>2. IsFiniteSet({e}) /\ Cardinality({e}) = 1
    BY FS_Singleton
  <2>3. IsFiniteSet(own) /\ Cardinality(own) = Cardinality({e}) * Cardinality(1 .. q)
    BY <2>1, <2>2, FS_Product, Zenon
  <2> QED BY <1>3, <2>1, <2>2, <2>3
<1> HIDE DEF own
<1>7. Cardinality(rest \cup own) = Cardinality(rest) + Cardinality(own) - Cardinality(rest \cap own)
  BY <1>5, <1>6, FS_Union
<1>8. Cardinality(rest \cap own) = 0
  BY <1>2, FS_EmptySet, Zenon
<1>9. Cardinality(rest \cup own) = Cardinality(rest) + q
  BY <1>3, <1>5, <1>6, <1>7, <1>8
<1> QED BY <1>1, <1>9 DEF SumOf, rest, q

(* Where one quantity differs, the totals differ as it does.                *)
LEMMA SumChanges ==
    ASSUME NEW S, IsFiniteSet(S), NEW f, NEW g, NEW e \in S,
           \A x \in S : f[x] \in Nat /\ g[x] \in Nat,
           \A x \in S : x # e => f[x] = g[x]
    PROVE  SumOf(g, S) = SumOf(f, S) + g[e] - f[e]
<1>1. SumOf(f, S) = SumOf(f, S \ {e}) + f[e] /\ SumOf(g, S) = SumOf(g, S \ {e}) + g[e]
  BY SumSplits
<1>2. SumOf(f, S \ {e}) = SumOf(g, S \ {e})
  BY SumsAgree
<1>3. IsFiniteSet(S \ {e})
  BY FS_RemoveElement
<1>4. SumOf(f, S \ {e}) \in Nat /\ f[e] \in Nat /\ g[e] \in Nat
  BY <1>3, UnitsInFinite
<1> QED BY <1>1, <1>2, <1>4

(* What the state's totals are.                                             *)
Positions == [s \in Symbols |-> VenuePosition(s)]
Open == [o \in Opening |-> Outstanding(o)]

LEMMA TotalsAre ==
    /\ Exposure = SumOf(Positions, Symbols) + SumOf(Open, Opening)
    /\ OpenRisk = SumOf([s \in Symbols |-> NetQty(lots[s])], Held)
    /\ \A o : PendingRisk(o) = SumOf(reserved, Orders \ {o})
<1>1. Sum(VenuePosition, Symbols) = SumOf(Positions, Symbols)
  BY DEF Sum, SumOf, UnitsIn, Positions
<1>2. Sum(Outstanding, Opening) = SumOf(Open, Opening)
  BY DEF Sum, SumOf, UnitsIn, Open
<1>3. OpenRisk = SumOf([s \in Symbols |-> NetQty(lots[s])], Held)
  <2>1. Held \in SUBSET Symbols
    BY DEF Held
  <2> QED BY <2>1 DEF OpenRisk, Sum, SumOf, UnitsIn
<1>4. ASSUME NEW o PROVE PendingRisk(o) = SumOf(reserved, Orders \ {o})
  BY DEF PendingRisk, Sum, SumOf, UnitsIn
<1> QED BY <1>1, <1>2, <1>3, <1>4 DEF Exposure

LEMMA SumOfPart ==
    ASSUME NEW S, NEW f, \A e \in S : f[e] \in Nat
    PROVE  SumOf(f, {e \in S : f[e] > 0}) = SumOf(f, S)
<1> DEFINE T == {e \in S : f[e] > 0}
<1>1. UnitsIn(f, T) \subseteq UnitsIn(f, S)
  BY DEF UnitsIn
<1>2. ASSUME NEW u \in UnitsIn(f, S) PROVE u \in UnitsIn(f, T)
  <2>1. PICK e \in S : u \in {e} \X (1 .. f[e])
    BY DEF UnitsIn
  <2>2. f[e] \in Nat /\ f[e] > 0
    BY <2>1
  <2> QED BY <2>1, <2>2 DEF UnitsIn
<1>3. UnitsIn(f, T) = UnitsIn(f, S)
  BY <1>1, <1>2
<1> QED BY <1>3 DEF SumOf

LEMMA SumOfNothing ==
    ASSUME NEW S, NEW f, \A e \in S : f[e] = 0 PROVE SumOf(f, S) = 0
<1>1. ASSUME NEW u \in UnitsIn(f, S) PROVE FALSE
  <2>1. PICK e \in S : u \in {e} \X (1 .. f[e])
    BY DEF UnitsIn
  <2> QED BY <2>1
<1>2. UnitsIn(f, S) = {}
  BY <1>1
<1> QED BY <1>2, FS_EmptySet DEF SumOf

-----------------------------------------------------------------------------
(* What has been bought and not sold, in all.                               *)

(* By the n-th trade.                                                       *)
Net(n) == Cardinality(Among(executed, Opening, n)) - Cardinality(Among(executed, Orders \ Opening, n))
NetKept == SumOf(Positions, Symbols) = Net(Len(executed))

LEMMA AmongNext ==
    ASSUME NEW e, NEW S, NEW n \in Nat
    PROVE  Cardinality(Among(e, S, n + 1)) =
             Cardinality(Among(e, S, n)) + (IF e[n + 1] \in S THEN 1 ELSE 0)
<1>1. IsFiniteSet(Among(e, S, n)) /\ Cardinality(Among(e, S, n)) \in Nat
  BY AmongFinite
<1>2. CASE e[n + 1] \in S
  <2>1. Among(e, S, n + 1) = Among(e, S, n) \cup {n + 1} /\ n + 1 \notin Among(e, S, n)
    BY <1>2 DEF Among
  <2> QED BY <1>1, <1>2, <2>1, FS_AddElement
<1>3. CASE e[n + 1] \notin S
  <2>1. Among(e, S, n + 1) = Among(e, S, n)
    BY <1>3 DEF Among
  <2> QED BY <1>1, <1>3, <2>1
<1> QED BY <1>2, <1>3

LEMMA NetTyped == ASSUME NEW n \in Nat PROVE Net(n) \in Int
  BY AmongFinite DEF Net

LEMMA NetGrows ==
    ASSUME executed \in Seq(Orders), NEW o \in Orders, executed' = Append(executed, o)
    PROVE  Net(Len(executed))' = Net(Len(executed)) + (IF o \in Opening THEN 1 ELSE -1)
<1>1. ASSUME NEW S
      PROVE  /\ Cardinality(Among(executed', S, Len(executed'))) =
                  Cardinality(Among(executed, S, Len(executed))) + (IF o \in S THEN 1 ELSE 0)
             /\ Cardinality(Among(executed, S, Len(executed))) \in Nat
  <2>1. Len(executed) \in Nat
    OBVIOUS
  <2> QED BY <2>1, AmongGrows, AmongFinite
<1>2. Net(Len(executed))' = Cardinality(Among(executed', Opening, Len(executed')))
                             - Cardinality(Among(executed', Orders \ Opening, Len(executed')))
  BY DEF Net
<1> QED BY <1>1, <1>2 DEF Net

(* Only the venue trades.                                                   *)
LEMMA OnlyFillsTrade ==
    ASSUME [Next]_vars PROVE UNCHANGED executed \/ \E o \in Orders : VenueFills(o)
<1>1. ASSUME NEW o \in Orders,
             VenueEnds(o) \/ Approve(o) \/ Reconcile(o) \/ Cancel(o) \/ ResolveUnsubmitted(o)
      PROVE  UNCHANGED executed
  BY <1>1 DEF VenueEnds, Approve, Reconcile, Cancel, ResolveUnsubmitted, market
<1>2. CASE Start \/ StartTick \/ CheckAccount \/ StartBatch \/ EndTick
  BY <1>2 DEF Start, StartTick, CheckAccount, StartBatch, EndTick, market
<1>3. CASE Send \/ Answer \/ AddFill \/ PublishFill
  BY <1>3 DEF Send, Answer, AddFill, PublishFill, market
<1>4. CASE PublishRaises \/ FinishPersist \/ SyncAfter \/ Crash
  BY <1>4 DEF PublishRaises, FinishPersist, SyncAfter, Crash, market
<1>5. CASE UNCHANGED vars
  BY <1>5 DEF vars
<1> QED BY <1>1, <1>2, <1>3, <1>4, <1>5 DEF Next

LEMMA NetKeptStep == ASSUME Base, Base', NetKept, [Next]_vars PROVE NetKept'
<1> USE DEF Base
<1>1. /\ executed \in Seq(Orders) /\ Len(executed) \in Nat
      /\ \A s \in Symbols : Positions[s] = VenuePosition(s) /\ Positions'[s] = VenuePosition(s)'
  BY BaseTypes DEF Positions
<1>2. CASE UNCHANGED executed
  <2>1. Positions' = Positions
    BY <1>2, SameTrades DEF Positions
  <2>2. Net(Len(executed))' = Net(Len(executed))
    BY <1>2 DEF Net
  <2> QED BY <2>1, <2>2 DEF NetKept
<1>3. ASSUME NEW o \in Orders, VenueFills(o) PROVE NetKept'
  <2> DEFINE s == SymbolOf[o]
             d == IF o \in Opening THEN 1 ELSE -1
  <2>1. /\ executed' = Append(executed, o) /\ Len(executed)' = Len(executed) + 1 /\ s \in Symbols
        /\ \A S : ExecutedFor(S)' = ExecutedFor(S) + (IF o \in S THEN 1 ELSE 0)
    BY <1>1, <1>3, OneMoreTrade, OwnedLotsAssumption DEF VenueFills
  <2>2. ASSUME NEW r \in Symbols
        PROVE  /\ VenuePosition(r) \in Nat /\ VenuePosition(r)' \in Nat
               /\ VenuePosition(r)' = VenuePosition(r) + (IF r = s THEN d ELSE 0)
    <3> DEFINE in == OrdersOf(r) \cap Opening
               out == OrdersOf(r) \ Opening
    <3>1. ASSUME NEW S PROVE ExecutedFor(S) \in Nat
      BY <1>1, ExecutedForCount, AmongFinite
    <3>2. VenuePosition(r) = ExecutedFor(in) - ExecutedFor(out)
      BY DEF VenuePosition
    <3>3. VenuePosition(r)' = ExecutedFor(in)' - ExecutedFor(out)'
      BY DEF VenuePosition, OrdersOf, ExecutedFor
    <3>4. /\ o \in in <=> r = s /\ o \in Opening
          /\ o \in out <=> r = s /\ o \notin Opening
      BY DEF OrdersOf
    <3>5. /\ ExecutedFor(in)' = ExecutedFor(in) + (IF o \in in THEN 1 ELSE 0)
          /\ ExecutedFor(out)' = ExecutedFor(out) + (IF o \in out THEN 1 ELSE 0)
          /\ ExecutedFor(in) \in Nat /\ ExecutedFor(out) \in Nat
      BY <2>1, <3>1
    <3>6. VenuePosition(r) >= 0 /\ VenuePosition(r)' >= 0
      BY DEF AtVenue
    <3> HIDE DEF in, out, s
    <3> QED BY <3>2, <3>3, <3>4, <3>5, <3>6
  <2>3. SumOf(Positions', Symbols) = SumOf(Positions, Symbols) + Positions'[s] - Positions[s]
    <3>1. \A r \in Symbols : Positions[r] \in Nat /\ Positions'[r] \in Nat
      BY <1>1, <2>2
    <3>2. \A r \in Symbols : r # s => Positions[r] = Positions'[r]
      BY <1>1, <2>2
    <3>3. ASSUME NEW r \in Symbols, NEW f, NEW g, \A x \in Symbols : f[x] \in Nat /\ g[x] \in Nat,
                 \A x \in Symbols : x # r => f[x] = g[x]
          PROVE  SumOf(g, Symbols) = SumOf(f, Symbols) + g[r] - f[r]
      BY <3>3, FiniteAssumption, SumChanges
    <3>4. s \in Symbols
      BY <2>1
    <3> HIDE DEF s
    <3> QED BY <3>1, <3>2, <3>3, <3>4
  <2>4. Net(Len(executed))' = Net(Len(executed)) + d
    BY <1>1, <2>1, NetGrows
  <2>5. SumOf(Positions, Symbols) \in Nat /\ Net(Len(executed)) \in Int
    <3>1. \A r \in Symbols : Positions[r] \in Nat
      BY <1>1, <2>2
    <3> QED BY <1>1, <3>1, UnitsInFinite, NetTyped, FiniteAssumption
  <2>6. Positions'[s] = Positions[s] + d /\ Positions[s] \in Nat
    BY <1>1, <2>1, <2>2
  <2> HIDE DEF s
  <2> QED BY <2>3, <2>4, <2>5, <2>6 DEF NetKept
<1> QED BY <1>2, <1>3, OnlyFillsTrade

LEMMA NetKeptInit == Init => NetKept
<1> SUFFICES ASSUME Init PROVE NetKept
  OBVIOUS
<1>1. executed = <<>>
  BY DEF Init
<1>2. ASSUME NEW S PROVE ExecutedFor(S) = 0 /\ Among(executed, S, Len(executed)) = {}
  BY <1>1, FS_EmptySet DEF ExecutedFor, Among
<1>3. \A s \in Symbols : Positions[s] = 0
  BY <1>2 DEF Positions, VenuePosition
<1>4. SumOf(Positions, Symbols) = 0
  BY <1>3, SumOfNothing
<1>5. Net(Len(executed)) = 0
  BY <1>2, FS_EmptySet DEF Net
<1> QED BY <1>4, <1>5 DEF NetKept

(* The trades of orders in S after the n-th, and g, order by order.         *)
LEMMA LaterTrades ==
    ASSUME executed \in Seq(Orders), NEW S \in SUBSET Orders, NEW n \in 0 .. Len(executed),
           NEW g, \A o \in S : g[o] \in Nat
    PROVE  SumOf([o \in S |-> ExecutedQty(o) - ExecutedOf(o, n) + g[o]], S) =
             Cardinality(Among(executed, S, Len(executed))) - Cardinality(Among(executed, S, n))
               + SumOf(g, S)
<1> DEFINE f(m) == [o \in S |-> ExecutedOf(o, m) - ExecutedOf(o, n) + g[o]]
           count(m) == Cardinality(Among(executed, S, m))
           top == Len(executed) - n
           good == {k \in 0 .. top : SumOf(f(n + k), S) = count(n + k) - count(n) + SumOf(g, S)}
<1>1. /\ Len(executed) \in Nat /\ n \in Nat /\ top \in Nat /\ IsFiniteSet(S)
      /\ \A i \in 1 .. Len(executed) : executed[i] \in Orders
  BY FiniteAssumption, FS_Subset
<1>2. /\ \A m \in Nat : count(m) \in Nat
      /\ \A o : \A m \in Nat : ExecutedOf(o, m) \in Nat
      /\ SumOf(g, S) \in Nat
  BY <1>1, AmongFinite, ExecutedCount, UnitsInFinite
<1>3. 0 \in good
  <2>1. n + 0 = n /\ \A o \in S : f(n)[o] = g[o]
    <3>1. ASSUME NEW o \in S PROVE f(n)[o] = g[o]
      <4>1. f(n)[o] = ExecutedOf(o, n) - ExecutedOf(o, n) + g[o]
        OBVIOUS
      <4>2. ExecutedOf(o, n) \in Nat /\ g[o] \in Nat
        BY <1>1, <1>2
      <4> HIDE DEF f
      <4> QED BY <4>1, <4>2
    <3> QED BY <1>1, <3>1
  <2>2. SumOf(f(n), S) = SumOf(g, S)
    <3> HIDE DEF f
    <3> QED BY <2>1, SumsAgree
  <2> HIDE DEF f, count
  <2> QED BY <1>1, <1>2, <2>1, <2>2
<1>4. ASSUME NEW m \in n .. Len(executed) - 1
      PROVE  /\ count(m + 1) = count(m) + (IF executed[m + 1] \in S THEN 1 ELSE 0)
             /\ SumOf(f(m + 1), S) = SumOf(f(m), S) + (IF executed[m + 1] \in S THEN 1 ELSE 0)
             /\ SumOf(f(m), S) \in Nat
  <2>1. m \in Nat /\ m + 1 \in Nat /\ m + 1 \in 0 .. Len(executed) /\ n \in 0 .. m /\ m \in 0 .. Len(executed)
    BY <1>1
  <2>2. count(m + 1) = count(m) + (IF executed[m + 1] \in S THEN 1 ELSE 0)
    BY <2>1, AmongNext
  <2>3. ASSUME NEW o PROVE ExecutedOf(o, m + 1) = ExecutedOf(o, m) + (IF executed[m + 1] = o THEN 1 ELSE 0)
    <3>1. executed[m + 1] \in {o} <=> executed[m + 1] = o
      OBVIOUS
    <3>2. Cardinality(Among(executed, {o}, m + 1))
            = Cardinality(Among(executed, {o}, m)) + (IF executed[m + 1] \in {o} THEN 1 ELSE 0)
      BY <2>1, AmongNext
    <3> QED BY <3>1, <3>2, ExecutedCount
  <2>4. ASSUME NEW o \in S
        PROVE  /\ f(m)[o] \in Nat /\ f(m + 1)[o] \in Nat
               /\ f(m + 1)[o] = f(m)[o] + (IF executed[m + 1] = o THEN 1 ELSE 0)
    <3>1. ExecutedOf(o, n) <= ExecutedOf(o, m)
      BY <2>1, ExecutedMonotone
    <3>2. /\ ExecutedOf(o, n) \in Nat /\ ExecutedOf(o, m) \in Nat /\ ExecutedOf(o, m + 1) \in Nat
          /\ g[o] \in Nat
      BY <1>1, <1>2, <2>1
    <3>3. /\ f(m)[o] = ExecutedOf(o, m) - ExecutedOf(o, n) + g[o]
          /\ f(m + 1)[o] = ExecutedOf(o, m + 1) - ExecutedOf(o, n) + g[o]
      OBVIOUS
    <3>4. ExecutedOf(o, m + 1) = ExecutedOf(o, m) + (IF executed[m + 1] = o THEN 1 ELSE 0)
      BY <2>3
    <3> HIDE DEF f
    <3>5. f(m)[o] \in Nat
      BY <3>1, <3>2, <3>3
    <3>6. f(m + 1)[o] = f(m)[o] + (IF executed[m + 1] = o THEN 1 ELSE 0)
      <4>1. CASE executed[m + 1] = o
        <5>1. ExecutedOf(o, m + 1) = ExecutedOf(o, m) + 1
          BY <3>4, <4>1
        <5> QED BY <3>2, <3>3, <4>1, <5>1
      <4>2. CASE executed[m + 1] # o
        <5>1. ExecutedOf(o, m + 1) = ExecutedOf(o, m)
          BY <3>2, <3>4, <4>2
        <5> QED BY <3>2, <3>3, <4>2, <5>1
      <4> QED BY <4>1, <4>2
    <3>7. f(m + 1)[o] \in Nat
      BY <3>5, <3>6
    <3> QED BY <3>5, <3>6, <3>7
  <2>5. ASSUME NEW a, NEW b, NEW p \in S, \A x \in S : a[x] \in Nat /\ b[x] \in Nat,
               \A x \in S : x # p => a[x] = b[x]
        PROVE  SumOf(b, S) = SumOf(a, S) + b[p] - a[p]
    <3>1. IsFiniteSet(S)
      BY <1>1
    <3> HIDE DEF f, count, top, good
    <3> QED BY <2>5, <3>1, SumChanges
  <2> HIDE DEF f
  <2>6. SumOf(f(m), S) \in Nat
    BY <1>1, <2>4, UnitsInFinite
  <2>7. CASE executed[m + 1] \in S
    <3>1. /\ \A x \in S : f(m)[x] \in Nat /\ f(m + 1)[x] \in Nat
          /\ \A x \in S : x # executed[m + 1] => f(m)[x] = f(m + 1)[x]
      BY <2>4
    <3>2. SumOf(f(m + 1), S) = SumOf(f(m), S) + f(m + 1)[executed[m + 1]] - f(m)[executed[m + 1]]
      BY <2>5, <2>7, <3>1
    <3>3. /\ f(m + 1)[executed[m + 1]] = f(m)[executed[m + 1]] + 1
          /\ f(m)[executed[m + 1]] \in Nat
      BY <2>4, <2>7
    <3> QED BY <2>2, <2>6, <2>7, <3>2, <3>3
  <2>8. CASE executed[m + 1] \notin S
    <3>1. \A x \in S : f(m + 1)[x] = f(m)[x]
      BY <2>4, <2>8
    <3>2. SumOf(f(m + 1), S) = SumOf(f(m), S)
      BY <3>1, SumsAgree
    <3> QED BY <2>2, <2>6, <2>8, <3>2
  <2> QED BY <2>7, <2>8
<1>5. ASSUME NEW k \in 1 .. top, k - 1 \in good PROVE k \in good
  <2>1. n + (k - 1) \in n .. Len(executed) - 1 /\ n + (k - 1) + 1 = n + k /\ k \in 0 .. top
    BY <1>1
  <2>2. SumOf(f(n + (k - 1)), S) = count(n + (k - 1)) - count(n) + SumOf(g, S)
    BY <1>5
  <2> HIDE DEF f, count
  <2>3. /\ count(n + k) = count(n + (k - 1)) + (IF executed[n + k] \in S THEN 1 ELSE 0)
        /\ SumOf(f(n + k), S) = SumOf(f(n + (k - 1)), S) + (IF executed[n + k] \in S THEN 1 ELSE 0)
        /\ SumOf(f(n + (k - 1)), S) \in Nat
    BY <1>4, <2>1
  <2>4. count(n + (k - 1)) \in Nat /\ count(n) \in Nat /\ SumOf(g, S) \in Nat
    <3>1. n + (k - 1) \in Nat
      BY <1>1, <2>1
    <3> QED BY <1>1, <1>2, <3>1
  <2>5. SumOf(f(n + k), S) = count(n + k) - count(n) + SumOf(g, S)
    <3>1. CASE executed[n + k] \in S
      BY <2>2, <2>3, <2>4, <3>1
    <3>2. CASE executed[n + k] \notin S
      BY <2>2, <2>3, <2>4, <3>2
    <3> QED BY <3>1, <3>2
  <2> QED BY <2>1, <2>5
<1>6. top \in good
  <2> HIDE DEF good, top
  <2>1. \A k \in 0 .. top : k \in good
    BY <1>1, <1>3, <1>5, AlongPrefix
  <2> QED BY <1>1, <2>1
<1>7. n + top = Len(executed)
  BY <1>1
<1>8. f(Len(executed)) = [o \in S |-> ExecutedQty(o) - ExecutedOf(o, n) + g[o]]
  BY DEF ExecutedQty
<1> HIDE DEF f, count, top
<1> QED BY <1>6, <1>7, <1>8 DEF count

-----------------------------------------------------------------------------
(* What each step leaves alone.                                             *)

Framed ==
    /\ UNCHANGED ledger \/ AddFill
    /\ UNCHANGED filled \/ FinishPersist
    /\ UNCHANGED attempted \/ Send
    /\ pc' = "send" => (\E o \in Orders : Approve(o)) \/ UNCHANGED <<pc, op>>
    /\ pc' = "answer" => Send \/ UNCHANGED <<pc, op>>
    /\ pc' = "publish" => AddFill \/ UNCHANGED <<pc, op>>
    /\ pc' = "persist" => \/ Answer \/ (\E o \in Orders : Reconcile(o) \/ Cancel(o))
                          \/ PublishFill \/ UNCHANGED <<pc, op>>
    /\ pc \in {"send", "persist", "publish"} /\ UNCHANGED <<pc, op>>
         => UNCHANGED <<row, reserved, mode, asked>>

LEMMA Frames == ASSUME Base, [Next]_vars PROVE Framed
<1> USE DEF Framed
<1>1. ASSUME NEW o \in Orders, VenueFills(o) \/ VenueEnds(o) PROVE Framed
  <2>1. UNCHANGED <<ledger, filled, attempted, row, reserved, mode, asked, pc, op>>
    BY <1>1 DEF VenueFills, VenueEnds, durable, memory, control
  <2> QED BY <2>1
<1>2. ASSUME NEW o \in Orders, Approve(o) PROVE Framed
  BY <1>2 DEF Approve, At
<1>3. ASSUME NEW o \in Orders, Reconcile(o) PROVE Framed
  BY <1>3 DEF Reconcile, At, Read
<1>4. ASSUME NEW o \in Orders, Cancel(o) PROVE Framed
  BY <1>4 DEF Cancel, At, Read
<1>5. ASSUME NEW o \in Orders, ResolveUnsubmitted(o) PROVE Framed
  BY <1>5 DEF ResolveUnsubmitted, At, control
<1>6. CASE Start
  BY <1>6 DEF Start, Base, Flagged
<1>7. CASE StartTick \/ CheckAccount
  BY <1>7 DEF StartTick, CheckAccount
<1>8. CASE StartBatch \/ EndTick
  BY <1>8 DEF StartBatch, EndTick, durable
<1>9. CASE Send
  BY <1>9 DEF Send, At
<1>10. CASE Answer
  BY <1>10 DEF Answer, At, Read
<1>11. CASE AddFill
  BY <1>11 DEF AddFill, At
<1>12. CASE PublishFill
  BY <1>12 DEF PublishFill, At
<1>13. CASE PublishRaises
  BY <1>13 DEF PublishRaises, At, durable
<1>14. CASE FinishPersist
  BY <1>14 DEF FinishPersist, At
<1>15. CASE SyncAfter
  BY <1>15 DEF SyncAfter, At
<1>16. CASE Crash
  BY <1>16 DEF Crash, durable
<1>17. CASE UNCHANGED vars
  BY <1>17 DEF vars
<1> QED
  <2>1. ASSUME NEW o \in Orders,
               \/ VenueFills(o) \/ VenueEnds(o)
               \/ Approve(o) \/ Reconcile(o) \/ Cancel(o) \/ ResolveUnsubmitted(o)
        PROVE  Framed
    BY <1>1, <1>2, <1>3, <1>4, <1>5, <2>1
  <2> QED BY <1>6, <1>7, <1>8, <1>9, <1>10, <1>11, <1>12, <1>13, <1>14, <1>15, <1>16, <1>17, <2>1 DEF Next

-----------------------------------------------------------------------------
(* The ledger when the venue tells every trade.                             *)

AllTold == \A i \in DOMAIN ledger : ~ledger[i].synthetic

LEMMA ToldDocumented == ASSUME AllTold, NEW o PROVE Documented(ledger, o) = Recorded(o)
<1>1. Traded(ledger, o) = FillsOf(o)
  BY DEF AllTold, Traded, FillsOf
<1> QED BY <1>1, DocumentedUnits DEF Recorded, UnitsOf

LEMMA NoFillNothing ==
    ASSUME NEW o, FillsOf(o) = {} PROVE Documented(ledger, o) = 0
<1>1. Traded(ledger, o) = {}
  BY DEF Traded, FillsOf
<1>2. UnitsOf(ledger, {}) = {}
  BY DEF UnitsOf
<1> QED BY <1>1, <1>2, DocumentedUnits, FS_EmptySet

LEMMA AddFillAdds ==
    ASSUME Base, AddFill
    PROVE  /\ op.order \in attempted /\ op.order \in Orders
           /\ \A p : p # op.order => /\ FillsOf(p)' = FillsOf(p)
                                     /\ Documented(ledger, p)' = Documented(ledger, p)
           /\ AllTold' => /\ AllTold
                          /\ Documented(ledger, op.order) < Documented(ledger, op.order)'
<1> USE DEF Base
<1>1. /\ op.order \in attempted /\ op.order \in Orders /\ op.upto \in 0 .. Len(executed)
      /\ ledger \in Seq(FillRecord) /\ Len(ledger) \in Nat
  BY ReportedTyped, BaseTypes DEF AddFill, At, AtWork
<1>2. PICK f \in NextFill : ledger' = Append(ledger, f)
  BY DEF AddFill
<1>3. f \in FillRecord /\ f.order = op.order
  BY <1>1, NextFillIs
<1>4. /\ DOMAIN ledger = 1 .. Len(ledger) /\ DOMAIN ledger' = 1 .. Len(ledger) + 1
      /\ \A i \in 1 .. Len(ledger) : ledger'[i] = ledger[i]
      /\ ledger'[Len(ledger) + 1] = f /\ ledger' \in Seq(FillRecord)
  BY <1>1, <1>2, <1>3
<1>5. ASSUME NEW p, p # op.order
      PROVE  FillsOf(p)' = FillsOf(p) /\ Documented(ledger, p)' = Documented(ledger, p)
  <2>1. FillsOf(p)' = FillsOf(p) /\ Traded(ledger', p) = Traded(ledger, p)
    BY <1>1, <1>3, <1>4, <1>5 DEF FillsOf, Traded
  <2>2. Traded(ledger, p) \in SUBSET (DOMAIN ledger)
    BY DEF Traded
  <2>3. UnitsOf(ledger', Traded(ledger, p)) = UnitsOf(ledger, Traded(ledger, p))
    BY <1>1, <1>2, <1>3, <2>2, UnitsGrow
  <2>4. Documented(ledger', p) = Documented(ledger, p)
    BY <2>1, <2>3, DocumentedUnits
  <2> QED BY <2>1, <2>4
<1>6. ASSUME AllTold'
      PROVE  AllTold /\ Documented(ledger, op.order) < Documented(ledger, op.order)'
  <2> DEFINE T == Traded(ledger, op.order)
  <2>1. \A i \in DOMAIN ledger' : ~ledger'[i].synthetic
    BY <1>6 DEF AllTold
  <2>2. AllTold /\ ~f.synthetic
    BY <1>1, <1>4, <2>1 DEF AllTold
  <2>3. Traded(ledger', op.order) = T \cup {Len(ledger) + 1} /\ T \in SUBSET (DOMAIN ledger)
    BY <1>1, <1>3, <1>4, <2>2 DEF Traded
  <2> HIDE DEF T
  <2>4. Cardinality(UnitsOf(ledger', T \cup {Len(ledger) + 1})) = Cardinality(UnitsOf(ledger, T)) + f.qty
    BY <1>1, <1>2, <1>3, <2>3, UnitsGrow
  <2>5. f.qty \in Nat \ {0}
    BY <1>3 DEF FillRecord
  <2>6. /\ Documented(ledger, op.order) = Cardinality(UnitsOf(ledger, T))
        /\ Documented(ledger', op.order) = Cardinality(UnitsOf(ledger', T \cup {Len(ledger) + 1}))
    BY <2>3, DocumentedUnits DEF T
  <2>7. Documented(ledger, op.order) \in Nat
    BY <1>1, DocumentedTyped
  <2>8. Documented(ledger, op.order) < Documented(ledger', op.order)
    BY <2>4, <2>5, <2>6, <2>7
  <2>9. UNCHANGED op
    BY DEF AddFill
  <2> QED BY <2>2, <2>8, <2>9
<1> QED BY <1>1, <1>5, <1>6

-----------------------------------------------------------------------------
(* What the orders, their rows and the operation in hand say of fills.      *)

Cancelable == {"accepted", "partial", "cancel_pending"}

(* An order never sent has no fill, nor has one whose answer is awaited.    *)
Unsent ==
    /\ \A o \in Orders : o \notin attempted => FillsOf(o) = {}
    /\ pc = "answer" => FillsOf(op.order) = {}
(* When every fill is a trade, none that a row shows is missing, and one    *)
(* that is about to be published is ahead of the row.                       *)
Told ==
    AllTold => /\ \A o \in Orders : filled[o] <= Documented(ledger, o)
               /\ pc = "publish" => filled[op.order] < Documented(ledger, op.order)
(* What is read outside the recovery is of an order just sent, or of one    *)
(* that is not canceled again; what is about to be sent is reserved;        *)
(* between ticks nothing is in hand.                                        *)
InHand ==
    /\ mode = "idle" => pc = "top"
    /\ mode \in {"manage", "batch"} /\ pc \in {"persist", "publish"} =>
         op.order \in asked \/ row[op.order] \notin Cancelable
    /\ pc = "send" /\ op.order \in Opening => reserved[op.order] = Qty[op.order]

Attested == Unsent /\ Told /\ InHand

LEMMA AttestedInit == Init => Attested
<1> SUFFICES ASSUME Init PROVE Attested
  OBVIOUS
<1>1. ledger = <<>> /\ filled = [o \in Orders |-> 0] /\ pc = "top"
  BY DEF Init
<1>2. \A o : FillsOf(o) = {}
  BY <1>1 DEF FillsOf
<1>3. \A o : Documented(ledger, o) = 0
  BY <1>2, NoFillNothing
<1> QED BY <1>1, <1>2, <1>3 DEF Attested, Unsent, Told, InHand

(* Once every fill of a payload is on record.                               *)
LEMMA ReportedOnRecord ==
    ASSUME Base, pc = "persist", NextFill = {}, AllTold
    PROVE  Reported <= Documented(ledger, op.order)
<1> USE DEF Base
<1>1. /\ op.order \in Orders /\ op.upto \in 0 .. Len(executed) /\ Reported \in Nat
      /\ executed \in Seq(Orders) /\ ledger \in Seq(FillRecord) /\ Len(ledger) \in Nat
  BY ReportedTyped, BaseTypes DEF AtWork
<1>2. CASE op.details = "trades"
  <2>1. \A i \in 1 .. op.upto : executed[i] = op.order => Trade(i) \in ToSet(ledger)
    BY <1>2 DEF NextFill, Missing
  <2>2. \A i \in 1 .. op.upto : executed[i] = op.order =>
           \E k \in DOMAIN ledger : k <= Len(ledger) /\ ledger[k] = Trade(i)
    <3>1. DOMAIN ledger = 1 .. Len(ledger)
      BY <1>1
    <3> QED BY <1>1, <2>1, <3>1 DEF ToSet
  <2>3. ExecutedOf(op.order, op.upto) <= TradedTo(ledger, op.order, Len(ledger))
    BY <1>1, <2>2, TradesCounted
  <2> QED BY <1>1, <2>3, UnitsInAll DEF Reported
<1>3. CASE op.details # "trades"
  <2>1. ~(Reported > Recorded(op.order))
    BY <1>3 DEF NextFill
  <2>2. Recorded(op.order) = Documented(ledger, op.order) /\ Documented(ledger, op.order) \in Nat
    BY <1>1, ToldDocumented, DocumentedTyped
  <2> QED BY <1>1, <2>1, <2>2
<1> QED BY <1>2, <1>3

LEMMA UnsentStep == ASSUME Base, Unsent, [Next]_vars PROVE Unsent'
<1> USE DEF Base
<1>1. attempted \subseteq attempted' /\ op.order \in Orders \cup {""}
  <2>1. UNCHANGED attempted \/ attempted' = attempted \cup {op.order}
    BY Frames DEF Framed, Send
  <2>2. op \in OpRecord
    BY DEF Typed, TypeOK, OpRecord
  <2> QED BY <2>1, <2>2 DEF OpRecord
<1>2. ASSUME NEW o \in Orders, o \notin attempted' PROVE FillsOf(o)' = {}
  <2>1. o \notin attempted /\ FillsOf(o) = {}
    BY <1>1, <1>2 DEF Unsent
  <2>2. CASE UNCHANGED ledger
    BY <2>1, <2>2 DEF FillsOf
  <2>3. CASE AddFill
    BY <2>1, <2>3, AddFillAdds
  <2> QED BY <2>2, <2>3, Frames DEF Framed
<1>3. ASSUME pc' = "answer" PROVE FillsOf(op.order)' = {}
  <2>1. CASE Send
    <3>1. op' = op /\ UNCHANGED ledger /\ op.order \in Orders /\ op.order \notin attempted
      BY <1>3, <2>1 DEF Send, At, AtWork
    <3> QED BY <3>1 DEF FillsOf, Unsent
  <2>2. CASE UNCHANGED <<pc, op>>
    <3>1. UNCHANGED ledger
      BY <1>3, <2>2, Frames DEF Framed, AddFill, At
    <3> QED BY <1>3, <2>2, <3>1 DEF FillsOf, Unsent
  <2> QED BY <1>3, <2>1, <2>2, Frames DEF Framed
<1> QED BY <1>2, <1>3 DEF Unsent

LEMMA ToldStep == ASSUME Base, Told, [Next]_vars PROVE Told'
<1> USE DEF Base
<1>1. CASE AddFill
  <2>1. /\ UNCHANGED <<filled, op>> /\ filled \in [Orders -> Nat] /\ ledger \in Seq(FillRecord)
    BY <1>1, BaseTypes DEF AddFill, Typed, TypeOK
  <2> SUFFICES ASSUME AllTold'
               PROVE  /\ \A o \in Orders : filled[o] <= Documented(ledger, o)'
                      /\ filled[op.order] < Documented(ledger, op.order)'
    BY <2>1 DEF Told
  <2>2. /\ AllTold /\ op.order \in Orders /\ Documented(ledger, op.order) < Documented(ledger, op.order)'
        /\ \A p : p # op.order => Documented(ledger, p)' = Documented(ledger, p)
    BY <1>1, AddFillAdds
  <2>3. ledger' \in Seq(FillRecord)
    BY BaseStep, BaseTypes DEF Typed, TypeOK
  <2>4. /\ \A o : Documented(ledger, o) \in Nat
        /\ \A o : Documented(ledger', o) \in Nat
    BY <2>1, <2>3, DocumentedTyped
  <2>5. \A o \in Orders : filled[o] <= Documented(ledger, o)
    BY <2>2 DEF Told
  <2>6. filled[op.order] < Documented(ledger, op.order)'
    BY <2>1, <2>2, <2>4, <2>5
  <2>7. ASSUME NEW o \in Orders PROVE filled[o] <= Documented(ledger, o)'
    BY <2>1, <2>2, <2>4, <2>5, <2>7
  <2> QED BY <2>6, <2>7
<1>2. CASE UNCHANGED ledger
  <2>1. /\ AllTold' = AllTold /\ \A o : Documented(ledger', o) = Documented(ledger, o)
    BY <1>2 DEF AllTold
  <2> SUFFICES ASSUME AllTold
               PROVE  /\ \A o \in Orders : filled'[o] <= Documented(ledger', o)
                      /\ pc' = "publish" => filled'[op'.order] < Documented(ledger', op'.order)
    BY <2>1 DEF Told
  <2>2. CASE UNCHANGED filled
    <3>1. pc' = "publish" => UNCHANGED <<pc, op>>
      <4>1. ~AddFill
        <5>1. \A f : ledger # Append(ledger, f)
          <6>1. ledger \in Seq(FillRecord)
            BY BaseTypes
          <6> QED BY <6>1
        <5> QED BY <1>2, <5>1 DEF AddFill
      <4> QED BY <4>1, Frames DEF Framed
    <3> QED BY <2>1, <2>2, <3>1 DEF Told
  <2>3. CASE FinishPersist
    <3>1. /\ filled' = [filled EXCEPT ![op.order] = Reported] /\ filled \in [Orders -> Nat]
          /\ pc = "persist" /\ NextFill = {} /\ pc' # "publish"
      BY <2>3 DEF FinishPersist, UpdateRow, At, Typed, TypeOK
    <3>2. Reported <= Documented(ledger, op.order)
      BY <3>1, ReportedOnRecord
    <3>3. \A o \in Orders : filled[o] <= Documented(ledger, o)
      BY DEF Told
    <3> QED BY <2>1, <3>1, <3>2, <3>3
  <2> QED BY <2>2, <2>3, Frames DEF Framed
<1> QED BY <1>1, <1>2, Frames DEF Framed

LEMMA InHandStep == ASSUME Base, InHand, [Next]_vars PROVE InHand'
<1> USE DEF Base
<1>1. ASSUME mode' \in {"manage", "batch"}, pc' \in {"persist", "publish"}
      PROVE  op'.order \in asked' \/ row'[op'.order] \notin Cancelable
  <2>1. CASE Answer
    <3>1. row[op.order] = "submitting" /\ op'.order = op.order /\ row' = row
      BY <1>1, <2>1 DEF Answer, At, AtWork, Read
    <3> QED BY <3>1 DEF Cancelable
  <2>2. ASSUME NEW o \in Orders, Reconcile(o) PROVE FALSE
    BY <1>1, <2>2 DEF Reconcile
  <2>3. ASSUME NEW o \in Orders, Cancel(o) PROVE op'.order \in asked'
    <3>1. asked' = asked \cup {o} /\ op'.order = o
      BY <2>3 DEF Cancel, Read
    <3> QED BY <3>1
  <2>4. CASE PublishFill
    BY <1>1, <2>4 DEF PublishFill, At, InHand
  <2>5. CASE AddFill
    BY <1>1, <2>5 DEF AddFill, At, InHand
  <2>6. CASE UNCHANGED <<pc, op>>
    <3>1. UNCHANGED <<row, mode, asked>>
      BY <1>1, <2>6, Frames DEF Framed
    <3> QED BY <1>1, <2>6, <3>1 DEF InHand
  <2> QED BY <1>1, <2>1, <2>2, <2>3, <2>4, <2>5, <2>6, Frames DEF Framed
<1>2. ASSUME pc' = "send", op'.order \in Opening PROVE reserved'[op'.order] = Qty[op'.order]
  <2>1. ASSUME NEW o \in Orders, Approve(o) PROVE reserved'[op'.order] = Qty[op'.order]
    <3>1. Submittable(o)
      BY <1>2, <2>1 DEF Approve, At
    <3>2. /\ op'.order = o
          /\ reserved' = [reserved EXCEPT ![o] = IF o \in Opening THEN Qty[o] ELSE 0]
      BY <2>1, <3>1 DEF Approve, NoOp
    <3>3. reserved \in [Orders -> Nat]
      BY DEF Typed
    <3> QED BY <1>2, <3>2, <3>3
  <2>2. CASE UNCHANGED <<pc, op>>
    <3>1. UNCHANGED reserved
      BY <1>2, <2>2, Frames DEF Framed
    <3> QED BY <1>2, <2>2, <3>1 DEF InHand
  <2> QED BY <1>2, <2>1, <2>2, Frames DEF Framed
<1>3. ASSUME mode' = "idle" PROVE pc' = "top"
  <2>1. CASE Start \/ StartTick \/ EndTick \/ PublishRaises
    BY <1>3, <2>1 DEF Start, StartTick, EndTick, PublishRaises, Flagged
  <2>2. CASE UNCHANGED mode /\ UNCHANGED pc
    BY <1>3, <2>2 DEF InHand
  <2>3. CASE UNCHANGED mode /\ (pc # "top" \/ mode # "idle")
    BY <1>3, <2>3 DEF InHand
  <2>4. ASSUME NEW o \in Orders,
               \/ VenueFills(o) \/ VenueEnds(o)
               \/ Approve(o) \/ Reconcile(o) \/ Cancel(o) \/ ResolveUnsubmitted(o)
        PROVE  pc' = "top"
    <3>1. CASE VenueFills(o) \/ VenueEnds(o) \/ ResolveUnsubmitted(o)
      BY <2>2, <3>1 DEF VenueFills, VenueEnds, ResolveUnsubmitted, control
    <3>2. CASE Approve(o) \/ Reconcile(o) \/ Cancel(o)
      BY <1>3, <2>3, <3>2 DEF Approve, Reconcile, Cancel
    <3> QED BY <2>4, <3>1, <3>2
  <2>5. CASE Send \/ Answer \/ AddFill \/ PublishFill \/ FinishPersist \/ SyncAfter
    BY <2>3, <2>5 DEF Send, Answer, AddFill, PublishFill, FinishPersist, SyncAfter, At
  <2>6. CASE CheckAccount \/ StartBatch \/ Crash
    BY <1>3, <2>6 DEF CheckAccount, StartBatch, Crash
  <2>7. CASE UNCHANGED vars
    BY <2>2, <2>7 DEF vars
  <2> QED BY <2>1, <2>4, <2>5, <2>6, <2>7 DEF Next
<1> QED BY <1>1, <1>2, <1>3 DEF InHand

LEMMA AttestedStep == ASSUME Base, Attested, [Next]_vars PROVE Attested'
  BY UnsentStep, ToldStep, InHandStep DEF Attested

-----------------------------------------------------------------------------
(* The positions the engine counts on are those of the venue at some trade  *)
(* n since; all that has happened since is still reserved.                  *)

(* What o has bought after the n-th trade, and may still buy, is reserved.  *)
Backed(o, n) == ExecutedQty(o) - ExecutedOf(o, n) + Outstanding(o) <= reserved[o]
(* An order with a fill of after the n-th trade on record is not at work in *)
(* a handler that ends it, nor about to be.                                 *)
Settled(o, n) ==
    Documented(ledger, o) > ExecutedOf(o, n) =>
      ~(pc = "persist" /\ op.order = o) /\ (o \in asked \/ row[o] \notin Cancelable)
SyncedAt(n) ==
    /\ SumOf(positions, Symbols) = Net(n)
    /\ \A o \in Opening : Backed(o, n) /\ Settled(o, n)

(* As long as approvals may rely on them.                                   *)
Relying == AllTold /\ ~issues /\ (mode = "batch" \/ (mode = "manage" /\ verified))
Synchronised == Relying => \E n \in 0 .. Len(executed) : SyncedAt(n)

LEMMA CountsTyped ==
    ASSUME Base, NEW o \in Orders, NEW n \in 0 .. Len(executed)
    PROVE  /\ ExecutedQty(o) \in Nat /\ ExecutedOf(o, n) \in Nat /\ ExecutedOf(o, n) <= ExecutedQty(o)
           /\ Qty[o] \in Nat \ {0} /\ reserved[o] \in Nat /\ ExecutedQty(o) <= Qty[o]
           /\ Documented(ledger, o) \in Nat /\ Outstanding(o) \in Nat
<1> USE DEF Base
<1>1. executed \in Seq(Orders) /\ ledger \in Seq(FillRecord) /\ reserved \in [Orders -> Nat]
  BY BaseTypes DEF Typed
<1>2. ExecutedQty(o) \in Nat /\ ExecutedOf(o, n) \in Nat /\ ExecutedOf(o, n) <= ExecutedQty(o)
  BY <1>1, ExecutedTyped
<1>3. Qty[o] \in Nat \ {0} /\ ExecutedQty(o) <= Qty[o]
  BY FillFlowAssumption DEF AtVenue
<1>4. Outstanding(o) \in Nat
  BY <1>2, <1>3 DEF Outstanding
<1> QED BY <1>1, <1>2, <1>3, <1>4, DocumentedTyped

(* An order that was not sent has bought nothing.                           *)
LEMMA UnsentBacked ==
    ASSUME Base, NEW o \in Orders, o \notin attempted, NEW n \in 0 .. Len(executed)
    PROVE  ExecutedQty(o) = 0 /\ ExecutedOf(o, n) = 0 /\ Outstanding(o) = 0 /\ venue[o] = "none"
<1>1. ExecutedQty(o) = 0 /\ venue[o] = "none"
  BY DEF Base, AtVenue
<1>2. ExecutedOf(o, n) \in Nat /\ ExecutedOf(o, n) <= ExecutedQty(o)
  BY CountsTyped
<1> QED BY <1>1, <1>2 DEF Outstanding

(* A unit that trades, or an order that ends, leaves less to be bought.     *)
LEMMA VenueBacked ==
    ASSUME Base, NEW o \in Orders, VenueFills(o) \/ VenueEnds(o), NEW p \in Orders,
           NEW n \in 0 .. Len(executed), Backed(p, n)
    PROVE  Backed(p, n)'
<1> USE DEF Base
<1>1. /\ UNCHANGED reserved /\ executed \in Seq(Orders)
      /\ venue[o] = "working" /\ venue \in [Orders -> {"none", "working", "ended"}]
  BY BaseTypes DEF VenueFills, VenueEnds, memory, Typed, TypeOK
<1>2. /\ ExecutedQty(p) \in Nat /\ ExecutedOf(p, n) \in Nat /\ Qty[p] \in Nat /\ reserved[p] \in Nat
      /\ ExecutedQty(o) \in Nat /\ Qty[o] \in Nat /\ ExecutedQty(o) < Qty[o]
  BY <1>1, CountsTyped DEF AtVenue
<1>3. CASE VenueFills(o)
  <2>1. /\ executed' = Append(executed, o)
        /\ venue' = [venue EXCEPT ![o] = IF ExecutedQty(o) + 1 = Qty[o] THEN "ended" ELSE @]
    BY <1>3 DEF VenueFills
  <2>2. /\ ExecutedOf(p, n)' = ExecutedOf(p, n)
        /\ ExecutedQty(p)' = ExecutedQty(p) + (IF p = o THEN 1 ELSE 0)
    BY <1>1, <1>2, <2>1, OneMoreTrade
  <2>3. CASE p = o
    <3>1. Outstanding(p) = Qty[p] - ExecutedQty(p)
      BY <1>1, <2>3 DEF Outstanding
    <3>2. Outstanding(p)' = Outstanding(p) - 1
      <4>1. venue'[p] = IF ExecutedQty(p) + 1 = Qty[p] THEN "ended" ELSE "working"
        BY <1>1, <2>1, <2>3
      <4>2. ExecutedQty(p)' = ExecutedQty(p) + 1
        BY <2>2, <2>3
      <4>3. Outstanding(p)' = IF venue'[p] = "working" THEN Qty[p] - ExecutedQty(p)' ELSE 0
        BY DEF Outstanding
      <4> QED BY <1>2, <3>1, <4>1, <4>2, <4>3
    <3> QED BY <1>1, <1>2, <2>2, <2>3, <3>1, <3>2 DEF Backed
  <2>4. CASE p # o
    <3>1. Outstanding(p)' = Outstanding(p)
      BY <1>1, <1>2, <2>1, <2>2, <2>4 DEF Outstanding
    <3> QED BY <1>1, <1>2, <2>2, <2>4, <3>1 DEF Backed
  <2> QED BY <2>3, <2>4
<1>4. CASE VenueEnds(o)
  <2>1. UNCHANGED executed /\ venue' = [venue EXCEPT ![o] = "ended"]
    BY <1>4 DEF VenueEnds
  <2>2. ExecutedOf(p, n)' = ExecutedOf(p, n) /\ ExecutedQty(p)' = ExecutedQty(p)
    BY <2>1, SameTrades
  <2>3. CASE p = o
    BY <1>1, <1>2, <2>1, <2>2, <2>3 DEF Backed, Outstanding
  <2>4. CASE p # o
    BY <1>1, <1>2, <2>1, <2>2, <2>4 DEF Backed, Outstanding
  <2> QED BY <2>3, <2>4
<1> QED BY <1>3, <1>4

LEMMA SynchronisedInit == Init => Synchronised
  BY DEF Init, Synchronised, Relying

LEMMA SynchronisedStep ==
    ASSUME Base, Base', RiskCovered', NetKept', Attested, Synchronised, [Next]_vars
    PROVE  Synchronised'
<1> USE DEF Base
<1> SUFFICES ASSUME Relying' PROVE \E n \in 0 .. Len(executed') : SyncedAt(n)'
  BY DEF Synchronised
<1>1. /\ executed \in Seq(Orders) /\ Len(executed) \in Nat
      /\ row \in [Orders -> Status] /\ reserved \in [Orders -> Nat] /\ Opening \subseteq Orders
      /\ venue \in [Orders -> {"none", "working", "ended"}]
  BY BaseTypes, OwnedLotsAssumption DEF Typed, TypeOK
<1>2. AllTold
  <2>1. CASE UNCHANGED ledger
    BY <2>1 DEF Relying, AllTold
  <2>2. CASE AddFill
    BY <2>2, AddFillAdds DEF Relying
  <2> QED BY <2>1, <2>2, Frames DEF Framed
(* A report without issues starts over from the trades of now.              *)
<1>3. ASSUME UNCHANGED <<executed, filled, ledger>>, pc' = "top", mode' # "down",
             issues' = HasIssues(checkpoint', filled),
             \A s \in Symbols : positions'[s] = VenuePosition(s)
      PROVE  \E n \in 0 .. Len(executed') : SyncedAt(n)'
  <2>1. Len(executed') \in 0 .. Len(executed') /\ Len(executed') = Len(executed)
    BY <1>1, <1>3
  <2>2. SumOf(positions', Symbols) = Net(Len(executed))'
    <3>1. \A s \in Symbols : positions'[s] = Positions'[s]
      BY <1>3, SameTrades DEF Positions
    <3>2. SumOf(positions', Symbols) = SumOf(Positions', Symbols)
      BY <3>1, SumsAgree
    <3> QED BY <3>2 DEF NetKept
  <2>3. ~issues' /\ \A o \in Orders : Documented(ledger', o) = filled'[o]
    <3>1. ~issues'
      BY DEF Relying
    <3> QED BY <1>3, <3>1 DEF HasIssues
  <2>4. ASSUME NEW o \in Opening PROVE Backed(o, Len(executed))' /\ Settled(o, Len(executed))'
    <3>1. Outstanding(o)' + Unrecorded(o)' <= reserved'[o]
      BY <1>3, <2>3 DEF RiskCovered
    <3>2. ExecutedOf(o, Len(executed))' = ExecutedQty(o)'
      BY DEF ExecutedQty
    <3>3. filled'[o] <= ExecutedQty(o)'
      BY <1>1 DEF Rows
    <3>4. Unrecorded(o)' = ExecutedQty(o)' - filled'[o]
      BY <1>1, <2>3 DEF Unrecorded
    <3>5. ExecutedQty(o)' \in Nat /\ filled'[o] \in Nat /\ reserved'[o] \in Nat
      <4>1. executed' \in Seq(Orders) /\ filled' \in [Orders -> Nat] /\ reserved' \in [Orders -> Nat]
        BY DEF Typed, TypeOK
      <4>2. ExecutedQty(o)' = ExecutedQty(o)
        BY <1>3, SameTrades
      <4>3. ExecutedQty(o) \in Nat
        BY <1>1, <2>1, ExecutedTyped, CountsTyped
      <4> QED BY <1>1, <4>1, <4>2, <4>3
    <3>6. Outstanding(o)' \in Int
      <4>1. Qty[o] \in Nat
        BY <1>1, FillFlowAssumption
      <4> QED BY <3>5, <4>1 DEF Outstanding
    <3>7. Backed(o, Len(executed))'
      BY <3>1, <3>2, <3>4, <3>5, <3>6, <3>3 DEF Backed
    <3>8. ~(Documented(ledger', o) > ExecutedQty(o)')
      BY <1>1, <2>3, <3>3, <3>5
    <3>9. Settled(o, Len(executed))'
      BY <3>2, <3>8 DEF Settled
    <3> QED BY <3>7, <3>9
  <2>5. SyncedAt(Len(executed))'
    BY <2>1, <2>2, <2>4 DEF SyncedAt
  <2> QED BY <2>1, <2>5
(* What was relied on still holds.                                          *)
<1>4. ASSUME UNCHANGED <<executed, positions>>, Relying,
             \A n \in 0 .. Len(executed), o \in Opening :
               Backed(o, n) /\ Settled(o, n) => Backed(o, n)' /\ Settled(o, n)'
      PROVE  \E n \in 0 .. Len(executed') : SyncedAt(n)'
  <2>1. PICK n \in 0 .. Len(executed) : SyncedAt(n)
    BY <1>4 DEF Synchronised
  <2>2. Net(n)' = Net(n)
    BY <1>4 DEF Net
  <2>3. SyncedAt(n)'
    BY <1>4, <2>1, <2>2 DEF SyncedAt
  <2> QED BY <1>4, <2>1, <2>3
<1>5. ASSUME UNCHANGED <<venue, executed>>, NEW o \in Opening, NEW n \in 0 .. Len(executed),
             reserved'[o] = reserved[o], Backed(o, n)
      PROVE  Backed(o, n)'
  BY <1>5, SameTrades DEF Backed, Outstanding
<1>6. ASSUME UNCHANGED executed, NEW o \in Opening, NEW n \in 0 .. Len(executed), o \notin attempted,
             Outstanding(o)' <= reserved'[o], Outstanding(o)' \in Nat, reserved'[o] \in Nat
      PROVE  Backed(o, n)'
  <2>1. ExecutedQty(o)' = 0 /\ ExecutedOf(o, n)' = 0
    BY <1>1, <1>6, UnsentBacked, SameTrades
  <2> QED BY <1>6, <2>1 DEF Backed
<1>7. ASSUME UNCHANGED <<ledger, executed, row, asked>>, NEW o \in Opening, NEW n \in 0 .. Len(executed),
             pc' # "persist" \/ UNCHANGED <<pc, op>>, Settled(o, n)
      PROVE  Settled(o, n)'
  BY <1>7, SameTrades DEF Settled
(* Nothing of this is touched.                                              *)
<1>8. ASSUME UNCHANGED <<venue, executed, ledger, row, asked, positions, reserved>>, Relying,
             pc' # "persist" \/ UNCHANGED <<pc, op>>
      PROVE  \E n \in 0 .. Len(executed') : SyncedAt(n)'
  BY <1>4, <1>5, <1>7, <1>8
<1>9. ASSUME NEW o \in Orders, VenueFills(o) \/ VenueEnds(o)
      PROVE  \E n \in 0 .. Len(executed') : SyncedAt(n)'
  <2>1. UNCHANGED <<row, ledger, issues, positions, verified, mode, asked, pc, op>>
    BY <1>9 DEF VenueFills, VenueEnds, durable, memory, control
  <2>2. PICK n \in 0 .. Len(executed) : SyncedAt(n)
    BY <1>2, <2>1 DEF Synchronised, Relying
  <2>3. /\ n \in 0 .. Len(executed') /\ Net(n)' = Net(n)
        /\ \A p : ExecutedOf(p, n)' = ExecutedOf(p, n)
    <3>1. CASE VenueFills(o)
      <4>1. executed' = Append(executed, o)
        BY <3>1 DEF VenueFills
      <4>2. Len(executed') = Len(executed) + 1 /\ \A p : ExecutedOf(p, n)' = ExecutedOf(p, n)
        BY <1>1, <4>1, OneMoreTrade
      <4>3. \A S : Among(executed', S, n) = Among(executed, S, n)
        <5>1. \A i \in 1 .. n : executed'[i] = executed[i]
          BY <1>1, <4>1, OneMoreTrade
        <5> QED BY <5>1 DEF Among
      <4> QED BY <1>1, <4>2, <4>3 DEF Net
    <3>2. CASE VenueEnds(o)
      <4>1. UNCHANGED executed
        BY <3>2 DEF VenueEnds
      <4> QED BY <4>1, SameTrades DEF Net
    <3> QED BY <1>9, <3>1, <3>2
  <2>4. ASSUME NEW p \in Opening PROVE Backed(p, n)' /\ Settled(p, n)'
    <3>1. Backed(p, n) /\ Settled(p, n)
      BY <2>2 DEF SyncedAt
    <3>2. Backed(p, n)'
      BY <1>1, <1>9, <3>1, VenueBacked
    <3>3. Settled(p, n)'
      BY <2>1, <2>3, <3>1 DEF Settled
    <3> QED BY <3>2, <3>3
  <2>5. SyncedAt(n)'
    BY <2>1, <2>2, <2>3, <2>4 DEF SyncedAt
  <2> QED BY <2>3, <2>5
<1>10. ASSUME NEW o \in Orders, Approve(o) PROVE \E n \in 0 .. Len(executed') : SyncedAt(n)'
  <2>1. /\ UNCHANGED <<venue, executed, ledger, issues, positions, verified, mode, asked>>
        /\ pc = "top" /\ pc' \in {"top", "send"} /\ o \notin attempted
    BY <1>1, <1>10 DEF Approve, At, market, Unsubmitted, Rows
  <2>2. \E status \in {"submitting", "rejected"}, q \in Nat :
           row' = [row EXCEPT ![o] = status] /\ reserved' = [reserved EXCEPT ![o] = q]
    <3>1. CASE Submittable(o)
      <4>1. (IF o \in Opening THEN Qty[o] ELSE 0) \in Nat
        BY FillFlowAssumption
      <4> QED BY <1>10, <3>1, <4>1 DEF Approve
    <3>2. CASE ~Submittable(o)
      <4>1. Publish(o, "rejected")
        BY <1>10, <3>2 DEF Approve
      <4> QED BY <4>1 DEF Publish, RELEASING_STATUSES
    <3> QED BY <3>1, <3>2
  <2>3. ASSUME NEW n \in 0 .. Len(executed), NEW p \in Opening, Backed(p, n), Settled(p, n)
        PROVE  Backed(p, n)' /\ Settled(p, n)'
    <3>1. CASE p = o
      <4>1. Outstanding(p)' = 0
        BY <1>1, <2>1, <3>1, UnsentBacked DEF Outstanding
      <4>2. reserved'[p] \in Nat
        BY <1>1, <2>2
      <4>3. Backed(p, n)'
        BY <1>6, <2>1, <3>1, <4>1, <4>2
      <4>4. row'[p] \notin Cancelable
        BY <1>1, <2>2, <3>1 DEF Cancelable
      <4> QED BY <2>1, <4>3, <4>4 DEF Settled
    <3>2. CASE p # o
      <4>1. reserved'[p] = reserved[p] /\ row'[p] = row[p]
        BY <1>1, <2>2, <3>2
      <4>2. Backed(p, n)'
        BY <1>5, <2>1, <2>3, <4>1
      <4> QED BY <2>1, <2>3, <4>1, <4>2, SameTrades DEF Settled
    <3> QED BY <3>1, <3>2
  <2>4. Relying
    BY <1>2, <2>1 DEF Relying
  <2> QED BY <1>4, <2>1, <2>3, <2>4
<1>11. CASE Send
  <2> DEFINE o == op.order
  <2>1. /\ UNCHANGED <<executed, ledger, issues, positions, verified, mode, asked>>
        /\ pc = "send" /\ pc' \in {"top", "answer"} /\ o \in Orders /\ o \notin attempted
    BY <1>11 DEF Send, At, AtWork
  <2>2. ASSUME NEW n \in 0 .. Len(executed), NEW p \in Opening, Backed(p, n), Settled(p, n)
        PROVE  Backed(p, n)' /\ Settled(p, n)'
    <3>1. CASE venue' = [venue EXCEPT ![o] = "working"] /\ UNCHANGED <<row, reserved>>
      <4>1. CASE p = o
        <5>1. reserved'[p] = Qty[p] /\ Qty[p] \in Nat
          BY <1>1, <2>1, <3>1, <4>1, FillFlowAssumption DEF Attested, InHand
        <5>2. Outstanding(p)' = Qty[p]
          <6>1. venue'[p] = "working" /\ ExecutedQty(p)' = 0
            BY <1>1, <2>1, <3>1, <4>1, UnsentBacked, SameTrades
          <6> QED BY <5>1, <6>1 DEF Outstanding
        <5>3. Backed(p, n)'
          BY <1>6, <2>1, <4>1, <5>1, <5>2
        <5> QED BY <1>7, <2>1, <2>2, <3>1, <5>3
      <4>2. CASE p # o
        <5>1. venue'[p] = venue[p]
          BY <1>1, <3>1, <4>2
        <5>2. Backed(p, n)'
          BY <2>1, <2>2, <3>1, <5>1, SameTrades DEF Backed, Outstanding
        <5> QED BY <1>7, <2>1, <2>2, <3>1, <5>2
      <4> QED BY <4>1, <4>2
    <3>2. ASSUME UNCHANGED venue, NEW status \in {"unknown", "rejected"}, Publish(o, status)
          PROVE  Backed(p, n)' /\ Settled(p, n)'
      <4>1. CASE p = o
        <5>1. reserved'[p] \in Nat /\ row'[p] \notin Cancelable
          BY <1>1, <3>2, <4>1 DEF Publish, Cancelable
        <5>2. Outstanding(p)' = 0
          BY <1>1, <2>1, <3>2, <4>1, UnsentBacked DEF Outstanding
        <5>3. Backed(p, n)'
          BY <1>6, <2>1, <4>1, <5>1, <5>2
        <5> QED BY <2>1, <5>1, <5>3 DEF Settled
      <4>2. CASE p # o
        <5>1. reserved'[p] = reserved[p] /\ row'[p] = row[p]
          BY <1>1, <3>2, <4>2 DEF Publish
        <5>2. Backed(p, n)'
          BY <1>5, <2>1, <2>2, <3>2, <5>1
        <5> QED BY <2>1, <2>2, <5>1, <5>2, SameTrades DEF Settled
      <4> QED BY <4>1, <4>2
    <3> QED BY <1>11, <3>1, <3>2 DEF Send
  <2>3. Relying
    BY <1>2, <2>1 DEF Relying
  <2> QED BY <1>4, <2>1, <2>2, <2>3
<1>12. CASE Answer
  <2>1. /\ UNCHANGED <<venue, executed, ledger, issues, positions, verified, mode, asked>>
        /\ pc = "answer" /\ op.order \in Orders /\ FillsOf(op.order) = {}
    BY <1>12 DEF Answer, At, AtWork, Attested, Unsent, Typed, TypeOK
  <2>2. Documented(ledger, op.order) = 0
    BY <2>1, NoFillNothing
  <2>3. \A p \in Orders : reserved'[p] = reserved[p] /\ (row'[p] = row[p] \/ row'[p] = "unknown")
    BY <1>1, <1>12 DEF Answer, Publish, RELEASING_STATUSES
  <2>4. pc' = "top" \/ (pc' = "persist" /\ op'.order = op.order)
    BY <1>12 DEF Answer, Read
  <2>5. ASSUME NEW n \in 0 .. Len(executed), NEW p \in Opening, Backed(p, n), Settled(p, n)
        PROVE  Backed(p, n)' /\ Settled(p, n)'
    <3>1. Backed(p, n)'
      BY <1>1, <1>5, <2>1, <2>3, <2>5
    <3>2. CASE p = op.order
      <4>1. ~(Documented(ledger', p) > ExecutedOf(p, n)')
        BY <2>1, <2>2, <3>2, CountsTyped, SameTrades
      <4> QED BY <3>1, <4>1 DEF Settled
    <3>3. CASE p # op.order
      BY <1>1, <2>1, <2>3, <2>4, <2>5, <3>1, <3>3, SameTrades DEF Settled, Cancelable
    <3> QED BY <3>2, <3>3
  <2>6. Relying
    BY <1>2, <2>1 DEF Relying
  <2> QED BY <1>4, <2>1, <2>5, <2>6
<1>13. ASSUME NEW o \in Orders, Cancel(o) PROVE \E n \in 0 .. Len(executed') : SyncedAt(n)'
  <2>1. /\ UNCHANGED <<executed, ledger, issues, positions, reserved, verified, mode>>
        /\ row' = [row EXCEPT ![o] = "cancel_pending"] /\ asked' = asked \cup {o}
        /\ o \notin asked /\ row[o] \in Cancelable /\ op'.order = o
        /\ UNCHANGED venue \/ venue' = [venue EXCEPT ![o] = "ended"]
    BY <1>13 DEF Cancel, memory, Read, Cancelable
  <2>2. ASSUME NEW n \in 0 .. Len(executed), NEW p \in Opening, Backed(p, n), Settled(p, n)
        PROVE  Backed(p, n)' /\ Settled(p, n)'
    <3>1. /\ ExecutedQty(p)' = ExecutedQty(p) /\ ExecutedOf(p, n)' = ExecutedOf(p, n)
          /\ Documented(ledger', p) = Documented(ledger, p)
      BY <2>1, SameTrades
    <3>2. Outstanding(p)' = Outstanding(p) \/ Outstanding(p)' = 0
      BY <1>1, <2>1, <3>1 DEF Outstanding
    <3>3. Backed(p, n)'
      <4>1. /\ ExecutedQty(p) \in Nat /\ ExecutedOf(p, n) \in Nat /\ Outstanding(p) \in Nat
            /\ reserved[p] \in Nat
        BY <1>1, CountsTyped
      <4> QED BY <2>1, <2>2, <3>1, <3>2, <4>1 DEF Backed
    <3>4. CASE p = o
      <4>1. ~(Documented(ledger, p) > ExecutedOf(p, n))
        BY <2>1, <2>2, <3>4 DEF Settled
      <4> QED BY <3>1, <3>3, <4>1 DEF Settled
    <3>5. CASE p # o
      BY <1>1, <2>1, <2>2, <3>1, <3>3, <3>5 DEF Settled
    <3> QED BY <3>4, <3>5
  <2>3. Relying
    BY <1>2, <2>1 DEF Relying
  <2> QED BY <1>4, <2>1, <2>2, <2>3
<1>14. ASSUME NEW o \in Orders, Reconcile(o) \/ ResolveUnsubmitted(o) PROVE FALSE
  BY <1>14 DEF Reconcile, ResolveUnsubmitted, control, Relying
<1>15. CASE Start \/ EndTick \/ Crash
  BY <1>15 DEF Start, EndTick, Crash, Relying
<1>16. CASE StartTick
  <2>1. Synced /\ mode' = "manage" /\ pc' = "top" /\ UNCHANGED <<executed, filled, ledger>>
    BY <1>16 DEF StartTick, Relying, market
  <2>2. \A s \in Symbols : positions'[s] = VenuePosition(s)
    BY <2>1 DEF Synced
  <2> QED BY <1>3, <2>1, <2>2 DEF Synced, Report
<1>17. CASE CheckAccount
  <2>1. /\ Report(positions) /\ mode' = "manage" /\ pc' = "top"
        /\ UNCHANGED <<executed, filled, ledger, positions>>
    BY <1>17 DEF CheckAccount, At, market
  <2>2. verified'
    BY <2>1 DEF Relying
  <2>3. \A s \in Symbols : positions'[s] = VenuePosition(s)
    BY <2>1, <2>2 DEF Report
  <2> QED BY <1>3, <2>1, <2>3 DEF Report
<1>18. CASE StartBatch
  BY <1>2, <1>8, <1>18 DEF StartBatch, market, durable, memory, Relying
<1>19. CASE AddFill
  <2>1. /\ UNCHANGED <<venue, executed, row, issues, positions, reserved, verified, mode, asked, op>>
        /\ pc = "persist" /\ pc' = "publish"
    BY <1>19 DEF AddFill, At, market, memory
  <2>2. Relying
    BY <1>2, <2>1 DEF Relying
  <2>3. op.order \in asked \/ row[op.order] \notin Cancelable
    BY <2>1, <2>2 DEF Attested, InHand, Relying
  <2>4. ASSUME NEW n \in 0 .. Len(executed), NEW p \in Opening, Backed(p, n), Settled(p, n)
        PROVE  Backed(p, n)' /\ Settled(p, n)'
    <3>1. Backed(p, n)'
      BY <1>5, <2>1, <2>4
    <3>2. CASE p = op.order
      BY <2>1, <2>3, <3>1, <3>2 DEF Settled
    <3>3. CASE p # op.order
      <4>1. Documented(ledger, p)' = Documented(ledger, p)
        BY <1>19, <3>3, AddFillAdds
      <4> QED BY <2>1, <2>4, <3>1, <4>1, SameTrades DEF Settled
    <3> QED BY <3>2, <3>3
  <2> QED BY <1>4, <2>1, <2>2, <2>4
<1>20. CASE PublishFill
  <2>1. /\ UNCHANGED <<ledger, filled>> /\ pc = "publish" /\ op.order \in Orders
        /\ issues' = HasIssues(checkpoint', filled)
    BY <1>20, ReportedTyped DEF PublishFill, At
  <2>2. filled[op.order] < Documented(ledger, op.order)
    BY <1>2, <2>1 DEF Attested, Told
  <2>3. filled[op.order] \in Nat /\ Documented(ledger, op.order) \in Nat
    BY <2>1, BaseTypes, DocumentedTyped DEF Typed, TypeOK
  <2>4. HasIssues(checkpoint', filled)
    BY <2>1, <2>2, <2>3 DEF HasIssues
  <2>5. ~issues'
    BY DEF Relying
  <2> QED BY <2>1, <2>4, <2>5
<1>21. CASE PublishRaises
  <2>1. /\ UNCHANGED <<venue, executed, ledger, row, asked, positions, reserved, issues, verified>>
        /\ pc' = "top" /\ mode' = IF mode = "recover" THEN "idle" ELSE "manage"
        /\ mode # "down" /\ pc = "publish"
    BY <1>21 DEF PublishRaises, At, market, durable, Flagged
  <2>2. mode \in {"manage", "batch"}
    <3>1. mode \in {"down", "idle", "recover", "manage", "batch"}
      BY DEF Typed, TypeOK
    <3>2. mode # "idle"
      BY <2>1 DEF Attested, InHand
    <3> QED BY <2>1, <3>1, <3>2 DEF Relying
  <2>3. Relying
    BY <1>2, <2>1, <2>2 DEF Relying
  <2> QED BY <1>8, <2>1, <2>3
<1>22. CASE FinishPersist
  <2> DEFINE o == op.order
  <2>1. /\ UNCHANGED <<venue, executed, ledger, issues, positions, verified, mode, asked>>
        /\ pc = "persist" /\ pc' \in {"sync", "top"} /\ NextFill = {}
        /\ o \in Orders /\ Reported \in Nat /\ Publish(o, NewStatus)
    BY <1>22, ReportedTyped DEF FinishPersist, At, market, UpdateRow
  <2>2. ASSUME NEW n \in 0 .. Len(executed), NEW p \in Opening, Backed(p, n), Settled(p, n)
        PROVE  Backed(p, n)' /\ Settled(p, n)'
    <3>1. CASE p # o
      <4>1. reserved'[p] = reserved[p] /\ row'[p] = row[p]
        BY <1>1, <2>1, <3>1 DEF Publish
      <4>2. Backed(p, n)'
        BY <1>5, <2>1, <2>2, <4>1
      <4> QED BY <2>1, <2>2, <4>1, <4>2, SameTrades DEF Settled
    <3>2. CASE p = o
      <4>1. ~(Documented(ledger, o) > ExecutedOf(o, n))
        BY <2>1, <2>2, <3>2 DEF Settled
      <4>2. Settled(p, n)'
        BY <2>1, <3>2, <4>1, SameTrades DEF Settled
      <4>3. CASE NewStatus \notin RELEASING_STATUSES
        <5>1. reserved'[p] = reserved[p]
          BY <1>1, <2>1, <3>2, <4>3 DEF Publish
        <5> QED BY <1>5, <2>1, <2>2, <4>2, <5>1
      <4>4. CASE NewStatus \in RELEASING_STATUSES
        <5>1. /\ ExecutedQty(o) \in Nat /\ ExecutedOf(o, n) \in Nat /\ ExecutedOf(o, n) <= ExecutedQty(o)
              /\ Qty[o] \in Nat /\ ExecutedQty(o) <= Qty[o] /\ Documented(ledger, o) \in Nat
          BY <2>1, CountsTyped
        <5>2. Reported <= ExecutedOf(o, n)
          <6>1. Reported <= Documented(ledger, o)
            BY <1>2, <2>1, ReportedOnRecord
          <6> QED BY <2>1, <4>1, <5>1, <6>1
        <5>3. Reported >= Qty[o] \/ op.ended
          BY <4>4 DEF NewStatus, ParsedStatus, RELEASING_STATUSES
        <5>4. ExecutedQty(o) <= ExecutedOf(o, n) /\ venue[o] # "working"
          <6>1. CASE Reported >= Qty[o]
            <7>1. ExecutedQty(o) = Qty[o] /\ ExecutedQty(o) <= ExecutedOf(o, n)
              BY <2>1, <5>1, <5>2, <6>1
            <7> QED BY <2>1, <5>1, <7>1 DEF AtVenue
          <6>2. CASE op.ended
            <7>1. venue[o] = "ended" /\ Reported = ExecutedQty(o)
              BY <2>1, <6>2 DEF AtWork
            <7> QED BY <5>2, <7>1
          <6> QED BY <5>3, <6>1, <6>2
        <5>5. ExecutedQty(p)' = ExecutedQty(p) /\ ExecutedOf(p, n)' = ExecutedOf(p, n) /\ Outstanding(p)' = 0
          BY <2>1, <3>2, <5>4, SameTrades DEF Outstanding
        <5>6. reserved'[p] = 0
          BY <1>1, <2>1, <3>2, <4>4 DEF Publish
        <5>7. ExecutedQty(p)' - ExecutedOf(p, n)' + Outstanding(p)' <= reserved'[p]
          BY <3>2, <5>1, <5>4, <5>5, <5>6
        <5> QED BY <4>2, <5>7 DEF Backed
      <4> QED BY <4>3, <4>4
    <3> QED BY <3>1, <3>2
  <2>3. Relying
    BY <1>2, <2>1 DEF Relying
  <2> QED BY <1>4, <2>1, <2>2, <2>3
<1>23. CASE SyncAfter
  <2>1. /\ UNCHANGED <<venue, executed, row, filled, ledger, reserved, mode, asked>>
        /\ pc' = "top" /\ mode' # "down"
    BY <1>23 DEF SyncAfter, market, Relying
  <2>2. CASE Synced
    <3>1. \A s \in Symbols : positions'[s] = VenuePosition(s)
      BY <2>2 DEF Synced
    <3> QED BY <1>3, <2>1, <2>2, <3>1 DEF Synced, Report
  <2>3. CASE SyncFails
    <3>1. UNCHANGED <<positions, issues>> /\ ~verified'
      BY <2>3 DEF SyncFails
    <3>2. Relying
      BY <1>2, <2>1, <3>1 DEF Relying
    <3> QED BY <1>8, <2>1, <3>1, <3>2
  <2> QED BY <1>23, <2>2, <2>3 DEF SyncAfter
<1>24. CASE UNCHANGED vars
  BY <1>2, <1>8, <1>24 DEF vars, Relying
<1> QED
  <2>1. ASSUME NEW o \in Orders,
               \/ VenueFills(o) \/ VenueEnds(o)
               \/ Approve(o) \/ Reconcile(o) \/ Cancel(o) \/ ResolveUnsubmitted(o)
        PROVE  \E n \in 0 .. Len(executed') : SyncedAt(n)'
    BY <1>9, <1>10, <1>13, <1>14, <2>1
  <2> QED BY <1>11, <1>12, <1>15, <1>16, <1>17, <1>18, <1>19, <1>20, <1>21, <1>22, <1>23, <1>24, <2>1 DEF Next

-----------------------------------------------------------------------------
(* The budget.                                                              *)

(* What is about to be sent is not with the venue yet.                      *)
Sent == IF pc = "send" /\ op.order \in Opening THEN Qty[op.order] ELSE 0
Budgeted == AllTold => Exposure + Sent <= Budget

Exposed ==
    /\ IsFiniteSet(Opening) /\ Opening \subseteq Orders
    /\ \A o \in Opening : Open[o] \in Nat /\ Open[o] = Outstanding(o)
    /\ SumOf(Open, Opening) \in Nat /\ SumOf(Positions, Symbols) \in Nat
    /\ Exposure = SumOf(Positions, Symbols) + SumOf(Open, Opening)
    /\ Exposure \in Nat /\ Sent \in Nat /\ Budget \in Nat

LEMMA ExposureTyped == ASSUME Base PROVE Exposed
<1> USE DEF Base
<1>1. /\ IsFiniteSet(Opening) /\ IsFiniteSet(Symbols) /\ Opening \subseteq Orders /\ Budget \in Nat
      /\ executed \in Seq(Orders) /\ Len(executed) \in 0 .. Len(executed)
  BY FiniteAssumption, FillFlowAssumption, OwnedLotsAssumption, FS_Subset, BaseTypes
<1>2. ASSUME NEW o \in Opening PROVE Open[o] \in Nat /\ Open[o] = Outstanding(o)
  BY <1>1, CountsTyped DEF Open
<1>3. ASSUME NEW s \in Symbols PROVE Positions[s] \in Nat
  <2>1. ASSUME NEW S PROVE ExecutedFor(S) \in Nat
    BY <1>1, BaseTypes, ExecutedForCount, AmongFinite
  <2>2. /\ ExecutedFor(OrdersOf(s) \cap Opening) \in Nat /\ ExecutedFor(OrdersOf(s) \ Opening) \in Nat
        /\ VenuePosition(s) >= 0
    BY <2>1 DEF AtVenue
  <2> QED BY <2>2 DEF Positions, VenuePosition
<1>4. SumOf(Open, Opening) \in Nat /\ SumOf(Positions, Symbols) \in Nat
  BY <1>1, <1>2, <1>3, UnitsInFinite
<1>5. Sent \in Nat
  BY <1>1, FillFlowAssumption DEF Sent
<1> QED BY <1>1, <1>2, <1>4, <1>5, TotalsAre DEF Exposed

(* What the guard sees is no less than the exposure, when what it relies on *)
(* holds.                                                                   *)
LEMMA GuardCovers ==
    ASSUME Base, NetKept, NEW n \in 0 .. Len(executed), SyncedAt(n), LotsVerifiable,
           NEW o \in Opening, o \notin attempted
    PROVE  /\ Exposure <= OpenRisk + PendingRisk(o)
           /\ OpenRisk \in Nat /\ PendingRisk(o) \in Nat
<1> USE DEF Base
<1> DEFINE later == [p \in Opening |-> ExecutedQty(p) - ExecutedOf(p, n) + Open[p]]
           bought(m) == Cardinality(Among(executed, Opening, m))
           sold(m) == Cardinality(Among(executed, Orders \ Opening, m))
<1>1. /\ executed \in Seq(Orders) /\ n \in Nat /\ Len(executed) \in Nat /\ o \in Orders
      /\ reserved \in [Orders -> Nat] /\ positions \in [Symbols -> Nat]
      /\ Opening \in SUBSET Orders /\ IsFiniteSet(Opening) /\ IsFiniteSet(Symbols)
      /\ IsFiniteSet(Orders \ {o}) /\ Opening \ {o} \in SUBSET (Orders \ {o})
  <2>1. executed \in Seq(Orders) /\ n \in Nat /\ Len(executed) \in Nat
    BY BaseTypes
  <2>2. reserved \in [Orders -> Nat] /\ positions \in [Symbols -> Nat]
    BY DEF Typed, TypeOK
  <2>3. Opening \in SUBSET Orders /\ IsFiniteSet(Opening) /\ IsFiniteSet(Symbols) /\ IsFiniteSet(Orders)
    BY ExposureTyped, FiniteAssumption DEF Exposed
  <2>4. IsFiniteSet(Orders \ {o})
    BY <2>3, FS_RemoveElement
  <2> QED BY <2>1, <2>2, <2>3, <2>4
<1>2. /\ bought(n) \in Nat /\ bought(Len(executed)) \in Nat
      /\ sold(n) \in Nat /\ sold(Len(executed)) \in Nat /\ sold(n) <= sold(Len(executed))
  BY <1>1, AmongFinite, AmongMonotone
<1>3. ASSUME NEW p \in Opening
      PROVE  /\ Open[p] \in Nat /\ later[p] \in Nat /\ later[p] <= reserved[p]
             /\ later[p] = ExecutedQty(p) - ExecutedOf(p, n) + Open[p]
  <2>1. /\ ExecutedQty(p) \in Nat /\ ExecutedOf(p, n) \in Nat /\ ExecutedOf(p, n) <= ExecutedQty(p)
        /\ Open[p] \in Nat /\ Open[p] = Outstanding(p)
    BY <1>1, CountsTyped, ExposureTyped DEF Exposed
  <2>2. Backed(p, n)
    BY DEF SyncedAt
  <2>3. later[p] = ExecutedQty(p) - ExecutedOf(p, n) + Open[p]
    OBVIOUS
  <2> HIDE DEF later
  <2> QED BY <2>1, <2>2, <2>3 DEF Backed
<1>4. SumOf(later, Opening) = bought(Len(executed)) - bought(n) + SumOf(Open, Opening)
  BY <1>1, <1>3, LaterTrades
<1>5. SumOf(later, Opening) <= PendingRisk(o)
  <2>1. later[o] = 0
    <3>1. ExecutedQty(o) = 0 /\ ExecutedOf(o, n) = 0 /\ Outstanding(o) = 0
      BY <1>1, UnsentBacked
    <3>2. Open[o] = 0
      BY <3>1, ExposureTyped DEF Exposed
    <3> QED BY <1>3, <3>1, <3>2
  <2> HIDE DEF later
  <2>2. SumOf(later, Opening) = SumOf(later, Opening \ {o}) + later[o]
    <3>1. \A p \in Opening : later[p] \in Nat
      BY <1>3
    <3> QED BY <1>1, <3>1, SumSplits
  <2>3. SumOf(later, Opening \ {o}) <= SumOf(reserved, Orders \ {o})
    <3>1. \A p \in Orders \ {o} : reserved[p] \in Nat
      BY <1>1
    <3>2. \A p \in Opening \ {o} : later[p] \in Nat /\ later[p] <= reserved[p]
      BY <1>3
    <3> QED BY <1>1, <3>1, <3>2, SumMonotone
  <2>4. IsFiniteSet(Opening \ {o}) /\ \A p \in Opening \ {o} : later[p] \in Nat
    BY <1>1, <1>3, FS_RemoveElement
  <2>5. SumOf(later, Opening \ {o}) \in Nat
    BY <2>4, UnitsInFinite
  <2> QED BY <2>1, <2>2, <2>3, <2>5, TotalsAre
<1>6. OpenRisk = SumOf(positions, Symbols) /\ SumOf(positions, Symbols) \in Nat
  <2>1. SumOf([s \in Symbols |-> NetQty(lots[s])], Held) = SumOf(positions, Held)
    <3> DEFINE owned == [s \in Symbols |-> NetQty(lots[s])]
    <3>1. \A s \in Held : owned[s] = positions[s]
      BY DEF LotsVerifiable, Held
    <3> HIDE DEF owned
    <3>2. SumOf(owned, Held) = SumOf(positions, Held)
      BY <3>1, SumsAgree
    <3> QED BY <3>2 DEF owned
  <2>2. \A s \in Symbols : positions[s] \in Nat
    BY <1>1
  <2>3. SumOf(positions, Held) = SumOf(positions, Symbols)
    BY <2>2, SumOfPart DEF Held
  <2>4. SumOf(positions, Symbols) \in Nat
    BY <1>1, <2>2, UnitsInFinite
  <2> QED BY <2>1, <2>3, <2>4, TotalsAre
<1>7. PendingRisk(o) \in Nat
  <2>1. \A p \in Orders \ {o} : reserved[p] \in Nat
    BY <1>1
  <2>2. SumOf(reserved, Orders \ {o}) \in Nat
    BY <1>1, <2>1, UnitsInFinite
  <2> QED BY <2>2, TotalsAre
<1>8. /\ SumOf(Positions, Symbols) = bought(Len(executed)) - sold(Len(executed))
      /\ SumOf(positions, Symbols) = bought(n) - sold(n)
  BY DEF NetKept, SyncedAt, Net
<1>9. Exposure = SumOf(Positions, Symbols) + SumOf(Open, Opening) /\ SumOf(Open, Opening) \in Nat
  BY ExposureTyped DEF Exposed
<1> HIDE DEF later, bought, sold
<1>10. Exposure <= OpenRisk + PendingRisk(o)
  <2>1. SumOf(Open, Opening) <= PendingRisk(o) - (bought(Len(executed)) - bought(n))
    BY <1>2, <1>4, <1>5, <1>7, <1>9
  <2>2. SumOf(Positions, Symbols) <= bought(Len(executed)) - bought(n) + OpenRisk
    BY <1>2, <1>6, <1>8
  <2>3. /\ SumOf(Open, Opening) \in Nat /\ PendingRisk(o) \in Nat /\ OpenRisk \in Nat
        /\ bought(Len(executed)) \in Nat /\ bought(n) \in Nat
        /\ SumOf(Positions, Symbols) \in Int
    BY <1>2, <1>6, <1>7, <1>8, <1>9
  <2> QED BY <1>9, <2>1, <2>2, <2>3
<1> QED BY <1>6, <1>7, <1>10

LEMMA BudgetedInit == Init => Budgeted
<1> SUFFICES ASSUME Init PROVE Budgeted
  OBVIOUS
<1>1. executed = <<>> /\ venue = [o \in Orders |-> "none"] /\ pc = "top"
  BY DEF Init
<1>2. Base
  BY BaseInit
<1>3. \A s \in Symbols : Positions[s] = 0
  <2>1. ASSUME NEW S PROVE ExecutedFor(S) = 0
    BY <1>1, FS_EmptySet DEF ExecutedFor
  <2> QED BY <2>1 DEF Positions, VenuePosition
<1>4. \A o \in Opening : Open[o] = 0
  BY <1>1, OwnedLotsAssumption DEF Open, Outstanding
<1>5. SumOf(Positions, Symbols) = 0 /\ SumOf(Open, Opening) = 0
  BY <1>3, <1>4, SumOfNothing
<1>6. Exposure = 0 /\ Sent = 0 /\ 0 <= Budget
  BY <1>1, <1>2, <1>5, ExposureTyped DEF Sent, Exposed
<1> QED BY <1>6 DEF Budgeted

LEMMA BudgetedStep ==
    ASSUME Base, NetKept, NetKept', Exposed, Exposed', Attested, Synchronised, Budgeted, [Next]_vars
    PROVE  Budgeted'
<1> USE DEF Base
<1> SUFFICES ASSUME AllTold' PROVE Exposure' + Sent' <= Budget
  BY DEF Budgeted
<1>1. AllTold
  <2>1. CASE UNCHANGED ledger
    BY <2>1 DEF AllTold
  <2>2. CASE AddFill
    BY <2>2, AddFillAdds
  <2> QED BY <2>1, <2>2, Frames DEF Framed
<1>2. /\ executed \in Seq(Orders) /\ Len(executed) \in Nat /\ Opening \subseteq Orders
      /\ venue \in [Orders -> {"none", "working", "ended"}]
      /\ IsFiniteSet(Opening) /\ Exposure \in Nat /\ Sent \in Nat /\ Budget \in Nat
      /\ Exposure + Sent <= Budget
      /\ SumOf(Open, Opening) \in Nat /\ SumOf(Positions, Symbols) \in Nat
      /\ Exposure = SumOf(Positions, Symbols) + SumOf(Open, Opening)
      /\ \A o \in Opening : Open[o] \in Nat /\ Open[o] = Outstanding(o)
  BY <1>1, BaseTypes DEF Typed, TypeOK, Budgeted, Exposed
<1>3. /\ Exposure' \in Nat /\ Sent' \in Nat
      /\ SumOf(Open', Opening) \in Nat /\ SumOf(Positions', Symbols) \in Nat
      /\ Exposure' = SumOf(Positions', Symbols) + SumOf(Open', Opening)
      /\ \A o \in Opening : Open'[o] \in Nat /\ Open'[o] = Outstanding(o)'
  BY DEF Exposed
(* Of these, what is about totals.                                          *)
<1>2a. /\ Exposure \in Nat /\ Sent \in Nat /\ Budget \in Nat /\ Exposure + Sent <= Budget
       /\ SumOf(Open, Opening) \in Nat /\ SumOf(Positions, Symbols) \in Nat
       /\ Exposure = SumOf(Positions, Symbols) + SumOf(Open, Opening)
  BY <1>2
<1>3a. /\ Exposure' \in Nat /\ Sent' \in Nat
       /\ SumOf(Open', Opening) \in Nat /\ SumOf(Positions', Symbols) \in Nat
       /\ Exposure' = SumOf(Positions', Symbols) + SumOf(Open', Opening)
  BY <1>3
<1>4. ASSUME UNCHANGED executed PROVE SumOf(Positions', Symbols) = SumOf(Positions, Symbols)
  <2>1. Positions' = Positions
    BY <1>4, SameTrades DEF Positions
  <2> QED BY <2>1
<1>5. ASSUME UNCHANGED <<venue, executed>> PROVE Exposure' = Exposure
  <2>1. Open' = Open
    BY <1>5, SameTrades DEF Open, Outstanding
  <2>2. SumOf(Positions', Symbols) = SumOf(Positions, Symbols)
    BY <1>4, <1>5
  <2> QED BY <1>2a, <1>3a, <2>1, <2>2
<1>6. ASSUME pc' # "send" \/ UNCHANGED <<pc, op>> PROVE Sent' <= Sent
  BY <1>2, <1>6 DEF Sent
<1>7. ASSUME UNCHANGED <<venue, executed>>, pc' # "send" \/ UNCHANGED <<pc, op>>
      PROVE  Exposure' + Sent' <= Budget
  BY <1>2a, <1>3a, <1>5, <1>6, <1>7
(* The total of what may be bought, where one order's share changes.        *)
<1>8. ASSUME NEW o \in Opening, \A p \in Opening : p # o => Outstanding(p)' = Outstanding(p)
      PROVE  SumOf(Open', Opening) = SumOf(Open, Opening) + Outstanding(o)' - Outstanding(o)
  <2>1. ASSUME NEW p \in Opening, NEW f, NEW g, \A x \in Opening : f[x] \in Nat /\ g[x] \in Nat,
               \A x \in Opening : x # p => f[x] = g[x]
        PROVE  SumOf(g, Opening) = SumOf(f, Opening) + g[p] - f[p]
    <3>1. IsFiniteSet(Opening)
      BY <1>2
    <3> QED BY <2>1, <3>1, SumChanges
  <2>2. /\ \A x \in Opening : Open[x] \in Nat /\ Open'[x] \in Nat
        /\ \A x \in Opening : x # o => Open[x] = Open'[x]
    BY <1>2, <1>3, <1>8
  <2>3. SumOf(Open', Opening) = SumOf(Open, Opening) + Open'[o] - Open[o]
    BY <2>1, <2>2
  <2> QED BY <1>2, <1>3, <2>3
<1>9. ASSUME \A p \in Opening : Outstanding(p)' <= Outstanding(p)
      PROVE  SumOf(Open', Opening) <= SumOf(Open, Opening)
  <2>1. \A x \in Opening : Open[x] \in Nat /\ Open'[x] \in Nat /\ Open'[x] <= Open[x]
    BY <1>2, <1>3, <1>9
  <2> QED BY <1>2, <2>1, SumMonotone
<1>10. ASSUME NEW o \in Orders, VenueFills(o) PROVE Exposure' + Sent' <= Budget
  <2>1. /\ executed' = Append(executed, o) /\ venue[o] = "working" /\ UNCHANGED <<pc, op>>
        /\ venue' = [venue EXCEPT ![o] = IF ExecutedQty(o) + 1 = Qty[o] THEN "ended" ELSE @]
    BY <1>10 DEF VenueFills, control
  <2>2. SumOf(Positions', Symbols) = SumOf(Positions, Symbols) + (IF o \in Opening THEN 1 ELSE -1)
    BY <1>2, <2>1, NetGrows DEF NetKept
  <2>3. /\ \A p : p # o => ExecutedQty(p)' = ExecutedQty(p)
        /\ ExecutedQty(o)' = ExecutedQty(o) + 1
    BY <1>2, <2>1, OneMoreTrade
  <2>4. \A p \in Opening : p # o => Outstanding(p)' = Outstanding(p)
    BY <1>2, <2>1, <2>3 DEF Outstanding
  <2>5. CASE o \in Opening
    <3>1. Outstanding(o)' = Outstanding(o) - 1
      <4>1. ExecutedQty(o) \in Nat /\ Qty[o] \in Nat
        <5>1. Len(executed) \in 0 .. Len(executed)
          BY <1>2
        <5> QED BY <5>1, CountsTyped
      <4>2. venue'[o] = IF ExecutedQty(o) + 1 = Qty[o] THEN "ended" ELSE "working"
        BY <1>2, <2>1
      <4>3. Outstanding(o) = Qty[o] - ExecutedQty(o)
        BY <2>1 DEF Outstanding
      <4>4. Outstanding(o)' = IF venue'[o] = "working" THEN Qty[o] - ExecutedQty(o)' ELSE 0
        BY DEF Outstanding
      <4> QED BY <2>3, <4>1, <4>2, <4>3, <4>4
    <3>2. SumOf(Open', Opening) = SumOf(Open, Opening) + Outstanding(o)' - Outstanding(o)
      BY <1>8, <2>4, <2>5
    <3>3. Outstanding(o) \in Nat
      BY <1>2, <2>5
    <3>4. Sent' <= Sent
      BY <1>6, <2>1
    <3>5. Exposure' = Exposure
      <4>1. SumOf(Positions', Symbols) = SumOf(Positions, Symbols) + 1
        BY <2>2, <2>5
      <4>2. SumOf(Open', Opening) = SumOf(Open, Opening) - 1
        BY <1>2a, <3>1, <3>2, <3>3
      <4> QED BY <1>2a, <1>3a, <4>1, <4>2
    <3> QED BY <1>2a, <1>3a, <3>4, <3>5
  <2>6. CASE o \notin Opening
    <3>1. \A p \in Opening : Open'[p] = Open[p]
      BY <1>2, <1>3, <2>4, <2>6
    <3>2. SumOf(Open', Opening) = SumOf(Open, Opening)
      BY <3>1, SumsAgree
    <3>3. Sent' <= Sent
      BY <1>6, <2>1
    <3>4. SumOf(Positions', Symbols) <= SumOf(Positions, Symbols)
      BY <1>2a, <2>2, <2>6
    <3>5. Exposure' <= Exposure
      BY <1>2a, <1>3a, <3>2, <3>4
    <3> QED BY <1>2a, <1>3a, <3>3, <3>5
  <2> QED BY <2>5, <2>6
<1>11. ASSUME NEW o \in Orders, VenueEnds(o) \/ Cancel(o) PROVE Exposure' + Sent' <= Budget
  <2>1. /\ UNCHANGED executed
        /\ UNCHANGED venue \/ venue' = [venue EXCEPT ![o] = "ended"]
        /\ pc' # "send" \/ UNCHANGED <<pc, op>>
    BY <1>11 DEF VenueEnds, Cancel, Read, control
  <2>2. ASSUME NEW p \in Opening PROVE Outstanding(p)' <= Outstanding(p)
    <3>1. Outstanding(p)' = Outstanding(p) \/ Outstanding(p)' = 0
      <4>1. ExecutedQty(p)' = ExecutedQty(p) /\ (venue'[p] = venue[p] \/ venue'[p] = "ended")
        BY <1>2, <2>1, SameTrades
      <4> QED BY <4>1 DEF Outstanding
    <3>2. Outstanding(p) \in Nat
      BY <1>2
    <3> QED BY <3>1, <3>2
  <2>3. SumOf(Open', Opening) <= SumOf(Open, Opening)
    BY <1>9, <2>2
  <2>4. Sent' <= Sent /\ SumOf(Positions', Symbols) = SumOf(Positions, Symbols)
    BY <1>4, <1>6, <2>1
  <2>5. Exposure' <= Exposure
    BY <1>2a, <1>3a, <2>3, <2>4
  <2> QED BY <1>2a, <1>3a, <2>4, <2>5
<1>12. ASSUME NEW o \in Orders, Approve(o) PROVE Exposure' + Sent' <= Budget
  <2>1. /\ UNCHANGED <<venue, executed>> /\ pc = "top" /\ o \notin attempted
    BY <1>2, <1>12 DEF Approve, At, market, Unsubmitted, Rows
  <2>2. CASE o \in Opening /\ Submittable(o)
    <3>1. /\ ~issues /\ WithinBudget(o) /\ mode = "batch" /\ pc' = "send" /\ op'.order = o
      BY <1>12, <2>2 DEF Approve, Submittable, NoOp
    <3>2. PICK n \in 0 .. Len(executed) : SyncedAt(n)
      BY <1>1, <3>1 DEF Synchronised, Relying
    <3>3. LotsVerifiable /\ OpenRisk + PendingRisk(o) + Qty[o] <= Budget
      BY <3>1 DEF WithinBudget
    <3>4. Exposure <= OpenRisk + PendingRisk(o) /\ OpenRisk \in Nat /\ PendingRisk(o) \in Nat
      BY <2>1, <2>2, <3>2, <3>3, GuardCovers
    <3>5. Sent' = Qty[o] /\ Qty[o] \in Nat
      BY <2>2, <3>1, FillFlowAssumption DEF Sent
    <3>6. Exposure' = Exposure
      BY <1>5, <2>1
    <3> DEFINE risk == OpenRisk + PendingRisk(o)
    <3>7. risk \in Nat /\ Exposure <= risk /\ risk + Qty[o] <= Budget
      BY <3>3, <3>4
    <3>8. Exposure \in Nat /\ Budget \in Nat
      BY <1>2a
    <3> HIDE DEF risk
    <3> QED BY <3>5, <3>6, <3>7, <3>8
  <2>3. CASE o \notin Opening /\ Submittable(o)
    <3>1. op'.order = o
      BY <1>12, <2>3 DEF Approve, NoOp
    <3>2. Sent' = 0
      BY <2>3, <3>1 DEF Sent
    <3>3. Exposure' = Exposure
      BY <1>5, <2>1
    <3> QED BY <1>2a, <3>2, <3>3
  <2>4. CASE ~Submittable(o)
    BY <1>7, <1>12, <2>1, <2>4 DEF Approve
  <2> QED BY <2>2, <2>3, <2>4
<1>13. CASE Send
  <2>1. /\ UNCHANGED executed /\ pc = "send" /\ pc' # "send"
        /\ op.order \in Orders /\ op.order \notin attempted
        /\ UNCHANGED venue \/ venue' = [venue EXCEPT ![op.order] = "working"]
    BY <1>13 DEF Send, At, AtWork
  <2>2. CASE UNCHANGED venue
    BY <1>7, <2>1, <2>2
  <2>3. ASSUME NEW o \in Orders, o = op.order, venue' = [venue EXCEPT ![o] = "working"]
        PROVE  Exposure' + Sent' <= Budget
    <3>1. \A p \in Opening : p # o => Outstanding(p)' = Outstanding(p)
      BY <1>2, <2>1, <2>3, SameTrades DEF Outstanding
    <3>2. Sent' = 0
      BY <2>1 DEF Sent
    <3>3. CASE o \in Opening
      <4>1. ExecutedQty(o) = 0 /\ Outstanding(o) = 0 /\ Qty[o] \in Nat
        <5>1. Len(executed) \in 0 .. Len(executed)
          BY <1>2
        <5> QED BY <2>1, <2>3, <5>1, UnsentBacked, CountsTyped
      <4>2. Outstanding(o)' = Qty[o]
        BY <1>2, <2>1, <2>3, <4>1, SameTrades DEF Outstanding
      <4>3. SumOf(Open', Opening) = SumOf(Open, Opening) + Outstanding(o)' - Outstanding(o)
        BY <1>8, <3>1, <3>3
      <4>4. Sent = Qty[o]
        BY <2>1, <2>3, <3>3 DEF Sent
      <4>5. SumOf(Positions', Symbols) = SumOf(Positions, Symbols)
        BY <1>4, <2>1
      <4>6. SumOf(Open', Opening) = SumOf(Open, Opening) + Qty[o]
        BY <1>2a, <4>1, <4>2, <4>3
      <4>7. Qty[o] \in Nat
        BY <4>1
      <4> QED BY <1>2a, <1>3a, <3>2, <4>4, <4>5, <4>6, <4>7
    <3>4. CASE o \notin Opening
      <4>1. \A p \in Opening : Open'[p] = Open[p]
        BY <1>2, <1>3, <3>1, <3>4
      <4>2. SumOf(Open', Opening) = SumOf(Open, Opening)
        BY <4>1, SumsAgree
      <4>3. SumOf(Positions', Symbols) = SumOf(Positions, Symbols)
        BY <1>4, <2>1
      <4> QED BY <1>2a, <1>3a, <3>2, <4>2, <4>3
    <3> QED BY <3>3, <3>4
  <2> QED BY <2>1, <2>2, <2>3
<1>14. CASE UNCHANGED <<venue, executed>> /\ ~(\E o \in Orders : Approve(o))
  BY <1>7, <1>14, Frames DEF Framed
<1> QED
  <2>1. ASSUME NEW o \in Orders, Reconcile(o) \/ ResolveUnsubmitted(o) PROVE UNCHANGED <<venue, executed>>
    BY <2>1 DEF Reconcile, ResolveUnsubmitted, market
  <2>2. CASE Start \/ StartTick \/ CheckAccount \/ StartBatch \/ EndTick
    BY <1>12, <1>14, <2>2 DEF Start, StartTick, CheckAccount, StartBatch, EndTick, market
  <2>3. CASE Answer \/ AddFill \/ PublishFill
    BY <1>12, <1>14, <2>3 DEF Answer, AddFill, PublishFill, market
  <2>4. CASE PublishRaises \/ FinishPersist \/ SyncAfter \/ Crash
    BY <1>12, <1>14, <2>4 DEF PublishRaises, FinishPersist, SyncAfter, Crash, market
  <2>5. CASE UNCHANGED vars
    BY <1>12, <1>14, <2>5 DEF vars
  <2> QED BY <1>10, <1>11, <1>12, <1>13, <1>14, <2>1, <2>2, <2>3, <2>4, <2>5 DEF Next

(* As long as the venue tells the trades of every fill, what is bought and  *)
(* not sold and what working orders may still buy never exceeds the budget, *)
(* whatever crashed, failed or was looked at too early on the way.          *)
THEOREM BudgetIsKept == Spec => []BudgetKeptWithTrades
<1>1. Init => Coverage
  BY DEF Init, Coverage
<1>2. Base /\ Budgeted => BudgetKeptWithTrades
  <2> SUFFICES ASSUME Base, Budgeted, AllTold PROVE BudgetKept
    BY DEF BudgetKeptWithTrades, AllTold
  <2> QED BY ExposureTyped DEF Exposed, Budgeted, BudgetKept
<1> QED BY <1>1, <1>2, BaseInit, BaseStep, CoverageStep, CoverageGives, NetKeptInit, NetKeptStep,
          AttestedInit, AttestedStep, SynchronisedInit, SynchronisedStep, ExposureTyped,
          BudgetedInit, BudgetedStep, PTL DEF Spec
=============================================================================
