-------------------------- MODULE OwnedLots_proofs --------------------------
(***************************************************************************)
(* What the books of lots are under any fills.  A fold over a sequence is  *)
(* a recursive function: each lemma about one follows a predicate along    *)
(* its positions, from the first one that would break it (Smallest,        *)
(* AlongPrefix).  In the end: applying fills keeps the books typed         *)
(* (AppliedTyped), they are applied in the order of their keys whenever no *)
(* issue is reported (AppliedInOrder), and what the trades document of an  *)
(* order only grows (DocumentedGrows).                                     *)
(***************************************************************************)
EXTENDS OwnedLots, FunctionTheorems, SequenceTheorems, FiniteSetTheorems,
        NaturalsInduction, WellFoundedInduction, TLAPS

-----------------------------------------------------------------------------
(* The least of some naturals.                                              *)
LEMMA Smallest ==
    ASSUME NEW S \in SUBSET Nat, S # {}
    PROVE  \E m \in S : \A n \in S : m <= n
<1> DEFINE less == {ss \in Nat \X Nat : ss[1] < ss[2]}
<1>1. IsWellFoundedOn(less, Nat)
  BY NatLessThanWellFounded, Zenon DEF OpToRel
<1> HIDE DEF less
<1>2. \E m \in S : \A n \in S : ~(<<n, m>> \in less)
  BY <1>1, WFMin
<1>3. ASSUME NEW m \in S, NEW n \in S, ~(<<n, m>> \in less) PROVE m <= n
  BY <1>3 DEF less
<1> QED BY <1>2, <1>3

(* What holds of the start and of each position after another holds of all. *)
LEMMA AlongPrefix ==
    ASSUME NEW n \in Nat, NEW good, 0 \in good, \A k \in 1 .. n : k - 1 \in good => k \in good
    PROVE  \A k \in 0 .. n : k \in good
<1> DEFINE without == {k \in 0 .. n : k \notin good}
<1>1. ASSUME without # {} PROVE FALSE
  <2>1. PICK k \in without : \A m \in without : k <= m
    <3>1. without \in SUBSET Nat
      OBVIOUS
    <3> HIDE DEF without
    <3> QED BY <1>1, <3>1, Smallest
  <2>2. k \in 1 .. n /\ k - 1 \in 0 .. n /\ ~(k <= k - 1)
    BY <2>1
  <2> QED BY <2>1, <2>2
<1> QED BY <1>1

(* The last of the first k positions.                                       *)
LEMMA MaxOfPrefix == ASSUME NEW k \in Nat, NEW S \in SUBSET (1 .. k), k \in S PROVE Max(S) = k
<1>1. k \in S /\ \A y \in S : k >= y
  OBVIOUS
<1>2. ASSUME NEW x \in S, \A y \in S : x >= y PROVE x = k
  BY <1>2
<1> QED BY <1>1, <1>2 DEF Max

(* The recursion that folds ApplyFill over fills.                           *)
FillRecursion(base, fs, g, n) ==
    g = [S \in SUBSET (1 .. n) |->
           IF S = {} THEN base ELSE ApplyFill(g[S \ {Max(S)}], fs[Max(S)])]

LEMMA FillNextRecursion ==
    ASSUME NEW base, NEW fs, NEW n \in Nat, NEW g, FillRecursion(base, fs, g, n)
    PROVE  \E h : FillRecursion(base, fs, h, n + 1)
<1> DEFINE h == [S \in SUBSET (1 .. n + 1) |->
                   IF n + 1 \in S THEN ApplyFill(g[S \ {n + 1}], fs[n + 1]) ELSE g[S]]
<1>1. ASSUME NEW S \in SUBSET (1 .. n + 1)
      PROVE  h[S] = IF S = {} THEN base ELSE ApplyFill(h[S \ {Max(S)}], fs[Max(S)])
  <2>1. CASE n + 1 \in S
    <3>1. Max(S) = n + 1
      BY <2>1, MaxOfPrefix
    <3>2. S \ {n + 1} \in SUBSET (1 .. n) /\ S \ {n + 1} \in SUBSET (1 .. n + 1)
      OBVIOUS
    <3>3. h[S \ {n + 1}] = g[S \ {n + 1}]
      BY <3>2
    <3>4. h[S] = ApplyFill(g[S \ {n + 1}], fs[n + 1])
      BY <2>1
    <3> HIDE DEF h
    <3> QED BY <3>1, <3>3, <3>4, <2>1
  <2>2. CASE n + 1 \notin S
    <3>1. S \in SUBSET (1 .. n)
      BY <2>2
    <3>2. g[S] = IF S = {} THEN base ELSE ApplyFill(g[S \ {Max(S)}], fs[Max(S)])
      BY <3>1 DEF FillRecursion
    <3>3. S \ {Max(S)} \in SUBSET (1 .. n + 1) /\ n + 1 \notin S \ {Max(S)}
      BY <2>2
    <3>4. h[S \ {Max(S)}] = g[S \ {Max(S)}] /\ h[S] = g[S]
      BY <3>3, <2>2
    <3> HIDE DEF h
    <3> QED BY <3>2, <3>4
  <2> QED BY <2>1, <2>2
<1>2. h = [S \in SUBSET (1 .. n + 1) |-> h[S]]
  OBVIOUS
<1> HIDE DEF h
<1>3. FillRecursion(base, fs, h, n + 1)
  BY <1>1, <1>2 DEF FillRecursion
<1> QED BY <1>3

LEMMA FillRecursionExists ==
    ASSUME NEW base, NEW fs, NEW n \in Nat
    PROVE  \E g : FillRecursion(base, fs, g, n)
<1> DEFINE without == {k \in Nat : ~ \E g : FillRecursion(base, fs, g, k)}
<1>1. ASSUME without # {} PROVE FALSE
  <2>1. PICK k \in without : \A m \in without : k <= m
    <3>1. without \in SUBSET Nat
      OBVIOUS
    <3> HIDE DEF without
    <3> QED BY <1>1, <3>1, Smallest
  <2>2. CASE k = 0
    <3> DEFINE g == [S \in SUBSET (1 .. 0) |-> base]
    <3>1. \A S \in SUBSET (1 .. 0) : S = {}
      OBVIOUS
    <3>2. FillRecursion(base, fs, g, 0)
      BY <3>1 DEF FillRecursion
    <3> HIDE DEF g
    <3> QED BY <2>2, <3>2
  <2>3. CASE k # 0
    <3>1. k - 1 \in Nat /\ k - 1 \notin without /\ (k - 1) + 1 = k
      <4>1. k - 1 \in Nat /\ ~(k <= k - 1) /\ (k - 1) + 1 = k
        BY <2>3
      <4> QED BY <2>1, <4>1
    <3>2. PICK g : FillRecursion(base, fs, g, k - 1)
      BY <3>1
    <3>3. \E h : FillRecursion(base, fs, h, (k - 1) + 1)
      BY <3>1, <3>2, FillNextRecursion
    <3> QED BY <3>1, <3>3
  <2> QED BY <2>2, <2>3
<1> QED BY <1>1

FillFold(base, fs) == FoldLeft(ApplyFill, base, fs)
(* What the fold comes to fill by fill.                                     *)
FillRun(acc, base, fs, n) ==
    /\ acc[0] = base
    /\ \A k \in 1 .. n : acc[k] = ApplyFill(acc[k - 1], fs[k])
    /\ FillFold(base, fs) = acc[n]

LEMMA FillRuns ==
    ASSUME NEW base, NEW fs, NEW n \in Nat, DOMAIN fs = 1 .. n
    PROVE  \E acc : FillRun(acc, base, fs, n)
<1> DEFINE g == CHOOSE g : FillRecursion(base, fs, g, n)
           acc == [k \in 0 .. n |-> g[1 .. k]]
<1>1. FillRecursion(base, fs, g, n)
  BY FillRecursionExists
<1>2. FillFold(base, fs) = g[1 .. n]
  BY DEF FillFold, FoldLeft, MapThenFoldSet, FillRecursion
<1> HIDE DEF g
<1>3. acc[0] = base
  <2>1. 1 .. 0 = {} /\ {} \in SUBSET (1 .. n) /\ 0 \in 0 .. n
    OBVIOUS
  <2>2. g[{}] = base
    BY <1>1, <2>1 DEF FillRecursion
  <2> QED BY <2>1, <2>2
<1>4. ASSUME NEW k \in 1 .. n PROVE acc[k] = ApplyFill(acc[k - 1], fs[k])
  <2>1. /\ 1 .. k \in SUBSET (1 .. n) /\ k \in 1 .. k /\ k \in Nat /\ (1 .. k) \ {k} = 1 .. (k - 1)
        /\ k \in 0 .. n /\ k - 1 \in 0 .. n
    OBVIOUS
  <2>2. Max(1 .. k) = k
    BY <2>1, MaxOfPrefix
  <2>3. g[1 .. k] = ApplyFill(g[1 .. (k - 1)], fs[k])
    BY <1>1, <2>1, <2>2 DEF FillRecursion
  <2> QED BY <2>1, <2>3
<1>5. acc[n] = g[1 .. n]
  OBVIOUS
<1> HIDE DEF acc
<1> QED BY <1>2, <1>3, <1>4, <1>5 DEF FillRun

LotFold(f, base, book) == FoldLeft(LAMBDA acc, lot : CloseLot(f, acc, lot), base, book)

(* The recursion that folds CloseLot over the lots of a book.               *)
LotRecursion(base, fs, g, n, f) ==
    g = [S \in SUBSET (1 .. n) |->
           IF S = {} THEN base ELSE CloseLot(f, g[S \ {Max(S)}], fs[Max(S)])]

LEMMA LotNextRecursion ==
    ASSUME NEW base, NEW fs, NEW f, NEW n \in Nat, NEW g, LotRecursion(base, fs, g, n, f)
    PROVE  \E h : LotRecursion(base, fs, h, n + 1, f)
<1> DEFINE h == [S \in SUBSET (1 .. n + 1) |->
                   IF n + 1 \in S THEN CloseLot(f, g[S \ {n + 1}], fs[n + 1]) ELSE g[S]]
<1>1. ASSUME NEW S \in SUBSET (1 .. n + 1)
      PROVE  h[S] = IF S = {} THEN base ELSE CloseLot(f, h[S \ {Max(S)}], fs[Max(S)])
  <2>1. CASE n + 1 \in S
    <3>1. Max(S) = n + 1
      BY <2>1, MaxOfPrefix
    <3>2. S \ {n + 1} \in SUBSET (1 .. n) /\ S \ {n + 1} \in SUBSET (1 .. n + 1)
      OBVIOUS
    <3>3. h[S \ {n + 1}] = g[S \ {n + 1}]
      BY <3>2
    <3>4. h[S] = CloseLot(f, g[S \ {n + 1}], fs[n + 1])
      BY <2>1
    <3> HIDE DEF h
    <3> QED BY <3>1, <3>3, <3>4, <2>1
  <2>2. CASE n + 1 \notin S
    <3>1. S \in SUBSET (1 .. n)
      BY <2>2
    <3>2. g[S] = IF S = {} THEN base ELSE CloseLot(f, g[S \ {Max(S)}], fs[Max(S)])
      BY <3>1 DEF LotRecursion
    <3>3. S \ {Max(S)} \in SUBSET (1 .. n + 1) /\ n + 1 \notin S \ {Max(S)}
      BY <2>2
    <3>4. h[S \ {Max(S)}] = g[S \ {Max(S)}] /\ h[S] = g[S]
      BY <3>3, <2>2
    <3> HIDE DEF h
    <3> QED BY <3>2, <3>4
  <2> QED BY <2>1, <2>2
<1>2. h = [S \in SUBSET (1 .. n + 1) |-> h[S]]
  OBVIOUS
<1> HIDE DEF h
<1>3. LotRecursion(base, fs, h, n + 1, f)
  BY <1>1, <1>2 DEF LotRecursion
<1> QED BY <1>3

LEMMA LotRecursionExists ==
    ASSUME NEW base, NEW fs, NEW f, NEW n \in Nat
    PROVE  \E g : LotRecursion(base, fs, g, n, f)
<1> DEFINE without == {k \in Nat : ~ \E g : LotRecursion(base, fs, g, k, f)}
<1>1. ASSUME without # {} PROVE FALSE
  <2>1. PICK k \in without : \A m \in without : k <= m
    <3>1. without \in SUBSET Nat
      OBVIOUS
    <3> HIDE DEF without
    <3> QED BY <1>1, <3>1, Smallest
  <2>2. CASE k = 0
    <3> DEFINE g == [S \in SUBSET (1 .. 0) |-> base]
    <3>1. \A S \in SUBSET (1 .. 0) : S = {}
      OBVIOUS
    <3>2. LotRecursion(base, fs, g, 0, f)
      BY <3>1 DEF LotRecursion
    <3> HIDE DEF g
    <3> QED BY <2>2, <3>2
  <2>3. CASE k # 0
    <3>1. k - 1 \in Nat /\ k - 1 \notin without /\ (k - 1) + 1 = k
      <4>1. k - 1 \in Nat /\ ~(k <= k - 1) /\ (k - 1) + 1 = k
        BY <2>3
      <4> QED BY <2>1, <4>1
    <3>2. PICK g : LotRecursion(base, fs, g, k - 1, f)
      BY <3>1
    <3>3. \E h : LotRecursion(base, fs, h, (k - 1) + 1, f)
      BY <3>1, <3>2, LotNextRecursion
    <3> QED BY <3>1, <3>3
  <2> QED BY <2>2, <2>3
<1> QED BY <1>1

LotRun(acc, f, base, fs, n) ==
    /\ acc[0] = base
    /\ \A k \in 1 .. n : acc[k] = CloseLot(f, acc[k - 1], fs[k])
    /\ LotFold(f, base, fs) = acc[n]

LEMMA LotRuns ==
    ASSUME NEW base, NEW fs, NEW f, NEW n \in Nat, DOMAIN fs = 1 .. n
    PROVE  \E acc : LotRun(acc, f, base, fs, n)
<1> DEFINE g == CHOOSE g : LotRecursion(base, fs, g, n, f)
           acc == [k \in 0 .. n |-> g[1 .. k]]
<1>1. LotRecursion(base, fs, g, n, f)
  BY LotRecursionExists
<1>2. LotFold(f, base, fs) = g[1 .. n]
  BY DEF FoldLeft, MapThenFoldSet, LotRecursion, LotFold
<1> HIDE DEF g
<1>3. acc[0] = base
  <2>1. 1 .. 0 = {} /\ {} \in SUBSET (1 .. n) /\ 0 \in 0 .. n
    OBVIOUS
  <2>2. g[{}] = base
    BY <1>1, <2>1 DEF LotRecursion
  <2> QED BY <2>1, <2>2
<1>4. ASSUME NEW k \in 1 .. n PROVE acc[k] = CloseLot(f, acc[k - 1], fs[k])
  <2>1. /\ 1 .. k \in SUBSET (1 .. n) /\ k \in 1 .. k /\ k \in Nat /\ (1 .. k) \ {k} = 1 .. (k - 1)
        /\ k \in 0 .. n /\ k - 1 \in 0 .. n
    OBVIOUS
  <2>2. Max(1 .. k) = k
    BY <2>1, MaxOfPrefix
  <2>3. g[1 .. k] = CloseLot(f, g[1 .. (k - 1)], fs[k])
    BY <1>1, <2>1, <2>2 DEF LotRecursion
  <2> QED BY <2>1, <2>3
<1>5. acc[n] = g[1 .. n]
  OBVIOUS
<1> HIDE DEF acc
<1> QED BY <1>2, <1>3, <1>4, <1>5 DEF LotRun

LEMMA LargerSeq == ASSUME NEW A, NEW B, A \subseteq B, NEW list \in Seq(A) PROVE list \in Seq(B)
  OBVIOUS

(* What the sale of a fill makes of a book.                                 *)
ClosesOf(ids) == [fill : ids, order : Orders, qty : Nat]
SoldUpTo(f) == [need : Nat, lots : Seq(Lot), closes : Seq(ClosesOf({f.id}))]

LEMMA CloseLotTyped ==
    ASSUME NEW f \in FillRecord, NEW acc \in SoldUpTo(f), NEW lot \in Lot
    PROVE  CloseLot(f, acc, lot) \in SoldUpTo(f)
<1> DEFINE q == Smaller(acc.need, lot.qty)
<1>1. acc.need \in Nat /\ lot.qty \in Nat /\ lot.order \in Orders
      /\ acc.lots \in Seq(Lot) /\ acc.closes \in Seq(ClosesOf({f.id}))
  BY DEF SoldUpTo, Lot
<1>2. q \in Nat /\ q <= acc.need /\ q <= lot.qty
  BY <1>1 DEF Smaller
<1> HIDE DEF q
<1>3. acc.need - q \in Nat
  BY <1>1, <1>2
<1>4. [lot EXCEPT !.qty = @ - q] \in Lot
  <2>1. lot.qty - q \in Nat
    BY <1>1, <1>2
  <2> QED BY <2>1 DEF Lot
<1>5. (IF q < lot.qty THEN Append(acc.lots, [lot EXCEPT !.qty = @ - q]) ELSE acc.lots) \in Seq(Lot)
  BY <1>1, <1>4
<1>6. [fill |-> f.id, order |-> lot.order, qty |-> q] \in ClosesOf({f.id})
  BY <1>1, <1>2 DEF ClosesOf
<1>7. (IF q > 0 THEN Append(acc.closes, [fill |-> f.id, order |-> lot.order, qty |-> q])
       ELSE acc.closes) \in Seq(ClosesOf({f.id}))
  BY <1>1, <1>6
<1> QED BY <1>3, <1>5, <1>7 DEF CloseLot, SoldUpTo, q

LEMMA CloseLotsTyped ==
    ASSUME NEW f \in FillRecord, NEW book \in Seq(Lot)
    PROVE  CloseLots(book, f) \in SoldUpTo(f)
<1> DEFINE base == [need |-> f.qty, lots |-> <<>>, closes |-> <<>>]
           n == Len(book)
<1>1. base \in SoldUpTo(f)
  BY DEF SoldUpTo, FillRecord
<1>2. n \in Nat /\ DOMAIN book = 1 .. n /\ \A k \in 1 .. n : book[k] \in Lot
  OBVIOUS
<1>3. CloseLots(book, f) = LotFold(f, base, book)
  BY DEF CloseLots, LotFold
<1> HIDE DEF base, n
<1>4. PICK acc : LotRun(acc, f, base, book, n)
  BY <1>2, LotRuns
<1> USE DEF LotRun
<1> DEFINE good == {k \in 0 .. n : acc[k] \in SoldUpTo(f)}
<1>5. ASSUME NEW k \in 1 .. n, k - 1 \in good PROVE k \in good
  BY <1>2, <1>4, <1>5, CloseLotTyped
<1>6. acc[n] \in SoldUpTo(f)
  <2>1. 0 \in good /\ n \in 0 .. n
    BY <1>1, <1>2, <1>4
  <2>2. n \in good
    <3> HIDE DEF good
    <3> QED BY <1>2, <1>5, <2>1, AlongPrefix
  <2> QED BY <2>2
<1> QED BY <1>3, <1>4, <1>6

(* What ApplyFill works on, with closes by the fills named in ids.          *)
Work(ids) ==
    [books : [Symbols -> Seq(Lot)], issues : SUBSET Nat, invalid : SUBSET Symbols,
     last : Nat, closes : Seq(ClosesOf(ids))]

LEMMA OpenLotsTyped ==
    ASSUME NEW f \in FillRecord, NEW book \in Seq(Lot)
    PROVE  OpenLots(book, f) \in Seq(Lot)
<1>1. f.order \in Orders /\ f.qty \in Nat
  BY DEF FillRecord
<1>2. Append(book, [order |-> f.order, qty |-> f.qty]) \in Seq(Lot)
  BY <1>1 DEF Lot
<1>3. CASE book # <<>>
  <2>1. Len(book) \in DOMAIN book /\ book[Len(book)] \in Lot
    BY <1>3
  <2>2. book[Len(book)].qty + f.qty \in Nat
    BY <1>1, <2>1 DEF Lot
  <2>3. [book[Len(book)] EXCEPT !.qty = @ + f.qty] \in Lot
    BY <2>1, <2>2 DEF Lot
  <2> DEFINE top == [book[Len(book)] EXCEPT !.qty = @ + f.qty]
             grown == [book EXCEPT ![Len(book)] = top]
  <2>4. grown \in Seq(Lot)
    <3>1. top \in Lot
      BY <2>3
    <3> HIDE DEF top
    <3>2. DOMAIN grown = 1 .. Len(book) /\ Len(book) \in Nat /\ \A i \in 1 .. Len(book) : grown[i] \in Lot
      BY <3>1
    <3>3. grown = [i \in 1 .. Len(book) |-> grown[i]]
      BY <3>2
    <3> HIDE DEF grown
    <3> QED BY <3>2, <3>3
  <2>5. [book EXCEPT ![Len(book)].qty = @ + f.qty] = grown
    BY <2>1
  <2> HIDE DEF grown
  <2> QED BY <1>2, <2>4, <2>5 DEF OpenLots
<1> QED BY <1>2, <1>3 DEF OpenLots

LEMMA FaultedTyped ==
    ASSUME NEW ids, NEW acc \in Work(ids), NEW f \in FillRecord
    PROVE  Faulted(acc, f) \in Work(ids)
<1>1. f.id \in Nat /\ SymbolOf[f.order] \in Symbols
  BY OwnedLotsAssumption DEF FillRecord
<1> QED BY <1>1 DEF Faulted, Work

LEMMA ApplyFillTyped ==
    ASSUME NEW ids \in SUBSET Nat, NEW acc \in Work(ids), NEW f \in FillRecord, f.id \in ids
    PROVE  ApplyFill(acc, f) \in Work(ids)
<1> DEFINE s == SymbolOf[f.order]
           book == acc.books[s]
           seen == [acc EXCEPT !.last = f.key]
           sold == CloseLots(book, f)
<1>1. f.id \in Nat /\ f.key \in Nat /\ s \in Symbols
  BY OwnedLotsAssumption DEF FillRecord
<1>2. /\ acc.books \in [Symbols -> Seq(Lot)] /\ book \in Seq(Lot)
      /\ acc.closes \in Seq(ClosesOf(ids))
  BY <1>1 DEF Work
<1>3. seen \in Work(ids)
  BY <1>1 DEF Work
<1>4. sold.lots \in Seq(Lot) /\ sold.closes \in Seq(ClosesOf(ids))
  <2>1. sold.lots \in Seq(Lot) /\ sold.closes \in Seq(ClosesOf({f.id}))
    BY <1>2, CloseLotsTyped DEF SoldUpTo
  <2>2. ClosesOf({f.id}) \subseteq ClosesOf(ids)
    BY DEF ClosesOf
  <2> HIDE DEF sold
  <2> QED BY <2>1, <2>2, LargerSeq
<1>5. OpenLots(book, f) \in Seq(Lot)
  BY <1>2, OpenLotsTyped
<1> HIDE DEF sold, book
<1>6. [seen EXCEPT !.books[s] = OpenLots(book, f)] \in Work(ids)
  <2>1. [acc.books EXCEPT ![s] = OpenLots(book, f)] \in [Symbols -> Seq(Lot)]
    BY <1>1, <1>2, <1>5
  <2> QED BY <1>1, <1>2, <1>3, <2>1 DEF Work
<1>7. [seen EXCEPT !.books[s] = sold.lots, !.closes = @ \o sold.closes] \in Work(ids)
  <2>1. [acc.books EXCEPT ![s] = sold.lots] \in [Symbols -> Seq(Lot)]
    BY <1>1, <1>2, <1>4
  <2> HIDE DEF s
  <2>2. acc.closes \o sold.closes \in Seq(ClosesOf(ids))
    BY <1>2, <1>4
  <2> QED BY <1>1, <1>2, <1>3, <2>1, <2>2 DEF Work
<1>8. Faulted(acc, f) \in Work(ids) /\ Faulted(seen, f) \in Work(ids)
  BY <1>3, FaultedTyped
<1>9. ApplyFill(acc, f) =
        IF Late(acc, f) THEN Faulted(acc, f)
        ELSE IF s \in acc.invalid THEN acc
        ELSE IF f.synthetic THEN seen
        ELSE IF Unattributable(book, f) THEN Faulted(seen, f)
        ELSE IF f.order \in Opening THEN [seen EXCEPT !.books[s] = OpenLots(book, f)]
        ELSE [seen EXCEPT !.books[s] = sold.lots, !.closes = @ \o sold.closes]
  BY DEF ApplyFill, book, sold
<1> HIDE DEF seen, s
<1> QED BY <1>3, <1>6, <1>7, <1>8, <1>9

(* The place of each fill when they are sorted.                             *)
Rank(fs) == [i \in DOMAIN fs |-> Cardinality(Ahead(fs, i))]

LEMMA KeysOfFills ==
    ASSUME NEW fs \in Seq(FillRecord)
    PROVE  /\ DOMAIN fs = 1 .. Len(fs) /\ Len(fs) \in Nat
           /\ \A k \in DOMAIN fs : fs[k] \in FillRecord /\ fs[k].key \in Nat
<1>1. \A k \in DOMAIN fs : fs[k] \in FillRecord
  OBVIOUS
<1>2. \A f \in FillRecord : f.key \in Nat
  BY DEF FillRecord
<1> QED BY <1>1, <1>2

(* The fills between two cursors.                                           *)
LEMMA FillsBetween ==
    ASSUME NEW fs \in Seq(FillRecord), NEW a \in Nat, NEW b \in Nat, a <= b, b <= Len(fs)
    PROVE  /\ SubSeq(fs, a + 1, b) \in Seq(FillRecord)
           /\ DOMAIN SubSeq(fs, a + 1, b) = 1 .. b - a
           /\ \A i \in 1 .. b - a : SubSeq(fs, a + 1, b)[i] = fs[a + i] /\ a + i \in a + 1 .. b
<1>1. \A i \in a + 1 .. b : fs[i] \in FillRecord
  BY KeysOfFills
<1>2. a + 1 \in Int /\ b \in Int
  OBVIOUS
<1>3. /\ SubSeq(fs, a + 1, b) \in Seq(FillRecord)
      /\ Len(SubSeq(fs, a + 1, b)) = IF a + 1 <= b THEN b - (a + 1) + 1 ELSE 0
      /\ \A i \in 1 .. b - (a + 1) + 1 : SubSeq(fs, a + 1, b)[i] = fs[(a + 1) + i - 1]
  BY <1>1, <1>2, SubSeqProperties
<1>4. Len(SubSeq(fs, a + 1, b)) = b - a
  BY <1>3
<1>5. b - (a + 1) + 1 = b - a /\ \A i \in 1 .. b - a : (a + 1) + i - 1 = a + i /\ a + i \in a + 1 .. b
  OBVIOUS
<1> QED BY <1>3, <1>4, <1>5

LEMMA RankDiffers ==
    ASSUME NEW fs \in Seq(FillRecord), NEW i \in DOMAIN fs, NEW j \in DOMAIN fs, j \in Ahead(fs, i)
    PROVE  Rank(fs)[j] < Rank(fs)[i]
<1>1. DOMAIN fs = 1 .. Len(fs) /\ Len(fs) \in Nat /\ \A k \in DOMAIN fs : fs[k].key \in Nat
  BY KeysOfFills
<1>2. IsFiniteSet(DOMAIN fs)
  <2>1. 1 \in Int /\ Len(fs) \in Int
    BY <1>1
  <2> QED BY <1>1, <2>1, FS_Interval
<1>3. Ahead(fs, i) \in SUBSET (DOMAIN fs) /\ Ahead(fs, j) \in SUBSET (DOMAIN fs)
  BY DEF Ahead
<1>4. IsFiniteSet(Ahead(fs, i)) /\ IsFiniteSet(Ahead(fs, j))
  BY <1>2, <1>3, FS_Subset
<1>5. Ahead(fs, j) \cup {j} \in SUBSET Ahead(fs, i) /\ j \notin Ahead(fs, j)
  BY <1>1 DEF Ahead
<1>6. Cardinality(Ahead(fs, j) \cup {j}) = Cardinality(Ahead(fs, j)) + 1
  BY <1>4, <1>5, FS_AddElement
<1>7. Cardinality(Ahead(fs, j) \cup {j}) <= Cardinality(Ahead(fs, i))
  BY <1>4, <1>5, FS_Subset
<1>8. Cardinality(Ahead(fs, j)) \in Nat /\ Cardinality(Ahead(fs, i)) \in Nat
  BY <1>4, FS_CardinalityType
<1> QED BY <1>6, <1>7, <1>8 DEF Rank

LEMMA RankPermutes ==
    ASSUME NEW fs \in Seq(FillRecord)
    PROVE  Rank(fs) \in Bijection(DOMAIN fs, 0 .. Len(fs) - 1)
<1> DEFINE S == DOMAIN fs
           T == 0 .. Len(fs) - 1
<1>1. S = 1 .. Len(fs) /\ Len(fs) \in Nat /\ \A k \in S : fs[k].key \in Nat
  BY KeysOfFills
<1>2. IsFiniteSet(S) /\ IsFiniteSet(T) /\ Cardinality(S) = Len(fs) /\ Cardinality(T) = Len(fs)
  <2>1. IsFiniteSet(1 .. Len(fs)) /\ Cardinality(1 .. Len(fs)) = Len(fs)
    BY <1>1, FS_Interval
  <2>2. IsFiniteSet(T) /\ Cardinality(T) = Len(fs)
    <3>1. 0 \in Int /\ Len(fs) - 1 \in Int
      BY <1>1
    <3>2. IsFiniteSet(T) /\ Cardinality(T) = IF 0 > Len(fs) - 1 THEN 0 ELSE Len(fs) - 1 - 0 + 1
      BY <3>1, FS_Interval
    <3> QED BY <1>1, <3>2
  <2> QED BY <1>1, <2>1, <2>2
<1>3. ASSUME NEW i \in S PROVE Rank(fs)[i] \in T
  <2>1. Ahead(fs, i) \in SUBSET (S \ {i})
    BY <1>1 DEF Ahead
  <2>2. IsFiniteSet(S \ {i}) /\ Cardinality(S \ {i}) = Len(fs) - 1
    BY <1>2, FS_RemoveElement
  <2> HIDE DEF S
  <2>3. IsFiniteSet(Ahead(fs, i)) /\ Cardinality(Ahead(fs, i)) <= Len(fs) - 1
    BY <2>1, <2>2, FS_Subset
  <2>4. Cardinality(Ahead(fs, i)) \in Nat
    BY <2>3, FS_CardinalityType
  <2> QED BY <1>1, <2>3, <2>4 DEF Rank, S
<1>4. Rank(fs) \in [S -> T]
  BY <1>3 DEF Rank
<1>5. ASSUME NEW i \in S, NEW j \in S, i # j PROVE Rank(fs)[i] # Rank(fs)[j]
  <2>1. j \in Ahead(fs, i) \/ i \in Ahead(fs, j)
    BY <1>1, <1>5 DEF Ahead
  <2>2. Rank(fs)[i] \in Int /\ Rank(fs)[j] \in Int
    BY <1>3
  <2> QED BY <2>1, <2>2, RankDiffers
<1> HIDE DEF S, T
<1>6. Rank(fs) \in Injection(S, T)
  BY <1>4, <1>5 DEF Injection, IsInjective
<1>7. Rank(fs) \in Surjection(S, T)
  BY <1>2, <1>6, FS_Injection
<1> QED BY <1>6, <1>7 DEF Bijection, S, T

(* Sorting keeps the fills.                                                 *)
LEMMA ByKeyKeeps ==
    ASSUME NEW fs \in Seq(FillRecord)
    PROVE  /\ Len(fs) \in Nat /\ DOMAIN ByKey(fs) = 1 .. Len(fs)
           /\ \A n \in 1 .. Len(fs) : \E i \in DOMAIN fs : ByKey(fs)[n] = fs[i]
           /\ \A i \in DOMAIN fs : \E n \in 1 .. Len(fs) : ByKey(fs)[n] = fs[i]
<1> DEFINE at(n) == CHOOSE i \in DOMAIN fs : Cardinality(Ahead(fs, i)) = n - 1
<1>1. ByKey(fs) = [n \in 1 .. Len(fs) |-> fs[at(n)]]
  BY DEF ByKey
<1>2. Rank(fs) \in Bijection(DOMAIN fs, 0 .. Len(fs) - 1)
  BY RankPermutes
<1>3. Len(fs) \in Nat
  OBVIOUS
<1>4. ASSUME NEW n \in 1 .. Len(fs) PROVE at(n) \in DOMAIN fs /\ Rank(fs)[at(n)] = n - 1
  <2>1. n - 1 \in 0 .. Len(fs) - 1
    BY <1>3
  <2>2. \E i \in DOMAIN fs : Rank(fs)[i] = n - 1
    BY <1>2, <2>1 DEF Bijection, Surjection
  <2>3. \E i \in DOMAIN fs : Cardinality(Ahead(fs, i)) = n - 1
    BY <2>2 DEF Rank
  <2> QED BY <2>3 DEF Rank
<1>5. ASSUME NEW i \in DOMAIN fs PROVE \E n \in 1 .. Len(fs) : at(n) = i
  <2> DEFINE n == Rank(fs)[i] + 1
  <2>1. Rank(fs)[i] \in 0 .. Len(fs) - 1
    BY <1>2 DEF Bijection, Injection
  <2>2. n \in 1 .. Len(fs) /\ n - 1 = Rank(fs)[i]
    BY <1>3, <2>1
  <2>3. at(n) \in DOMAIN fs /\ Rank(fs)[at(n)] = Rank(fs)[i]
    BY <1>4, <2>2
  <2>4. at(n) = i
    BY <1>2, <2>3 DEF Bijection, Injection, IsInjective
  <2> QED BY <2>2, <2>4
<1> HIDE DEF at
<1> QED BY <1>1, <1>3, <1>4, <1>5

-----------------------------------------------------------------------------
(* What an update makes of a checkpoint.                                    *)
Books(cp) ==
    /\ cp.books \in [Symbols -> Seq(Lot)] /\ cp.issues \in SUBSET Nat
    /\ cp.invalid \in SUBSET Symbols /\ cp.last \in Nat
Idle(cp) == [books |-> cp.books, issues |-> cp.issues, invalid |-> cp.invalid,
             last |-> cp.last, closes |-> <<>>]
IdsOf(fs) == {fs[i].id : i \in DOMAIN fs}

LEMMA AppliedRuns ==
    ASSUME NEW cp, Books(cp), NEW fs \in Seq(FillRecord)
    PROVE  \E acc : /\ acc[0] = Idle(cp) /\ Applied(cp, fs) = acc[Len(fs)]
                    /\ \A k \in 1 .. Len(fs) : acc[k] = ApplyFill(acc[k - 1], ByKey(fs)[k])
                    /\ \A k \in 0 .. Len(fs) : acc[k] \in Work(IdsOf(fs))
<1> DEFINE n == Len(fs)
           sorted == ByKey(fs)
<1>1. n \in Nat /\ DOMAIN sorted = 1 .. n
  BY ByKeyKeeps
<1>2. ASSUME NEW k \in 1 .. n PROVE sorted[k] \in FillRecord /\ sorted[k].id \in IdsOf(fs)
  <2>1. PICK i \in DOMAIN fs : sorted[k] = fs[i]
    BY ByKeyKeeps
  <2> QED BY <2>1, KeysOfFills DEF IdsOf
<1>3. Applied(cp, fs) = FillFold(Idle(cp), sorted)
  BY DEF Applied, FillFold, Idle
<1>4. IdsOf(fs) \in SUBSET Nat
  <2>1. \A f \in FillRecord : f.id \in Nat
    BY DEF FillRecord
  <2> QED BY <2>1, KeysOfFills DEF IdsOf
<1>5. Idle(cp) \in Work(IdsOf(fs))
  BY DEF Idle, Work, Books
<1> HIDE DEF n, sorted
<1>6. PICK acc : FillRun(acc, Idle(cp), sorted, n)
  BY <1>1, FillRuns
<1> DEFINE good == {k \in 0 .. n : acc[k] \in Work(IdsOf(fs))}
<1>7. ASSUME NEW k \in 1 .. n, k - 1 \in good PROVE k \in good
  <2>1. acc[k] = ApplyFill(acc[k - 1], sorted[k])
    BY <1>6 DEF FillRun
  <2>2. acc[k - 1] \in Work(IdsOf(fs))
    BY <1>7
  <2>3. acc[k] \in Work(IdsOf(fs))
    BY <1>2, <1>4, <2>1, <2>2, ApplyFillTyped
  <2> QED BY <1>1, <2>3
<1>8. \A k \in 0 .. n : k \in good
  <2>1. 0 \in good
    BY <1>1, <1>5, <1>6 DEF FillRun
  <2> HIDE DEF good
  <2> QED BY <1>1, <1>7, <2>1, AlongPrefix
<1>9. \A k \in 0 .. n : acc[k] \in Work(IdsOf(fs))
  BY <1>8
<1>10. acc[0] = Idle(cp) /\ Applied(cp, fs) = acc[n] /\ \A k \in 1 .. n : acc[k] = ApplyFill(acc[k - 1], sorted[k])
  BY <1>3, <1>6 DEF FillRun
<1> QED BY <1>9, <1>10 DEF n, sorted

LEMMA AppliedTyped ==
    ASSUME NEW cp, Books(cp), NEW fs \in Seq(FillRecord)
    PROVE  Applied(cp, fs) \in Work(IdsOf(fs))
<1>1. Len(fs) \in 0 .. Len(fs)
  OBVIOUS
<1> QED BY <1>1, AppliedRuns

(* A fill that leaves no issue is applied, and none after it is older.      *)
LEMMA ApplyFillInOrder ==
    ASSUME NEW ids \in SUBSET Nat, NEW acc \in Work(ids), NEW f \in FillRecord,
           acc.issues = {} => acc.invalid = {}
    PROVE  LET out == ApplyFill(acc, f) IN
           /\ out.issues = {} => /\ acc.issues = {} /\ out.invalid = {}
                                 /\ acc.last <= f.key /\ out.last = f.key
<1> DEFINE s == SymbolOf[f.order]
           book == acc.books[s]
           seen == [acc EXCEPT !.last = f.key]
           opened == [seen EXCEPT !.books[s] = OpenLots(book, f)]
           closed == [seen EXCEPT !.books[s] = CloseLots(book, f).lots,
                                  !.closes = @ \o CloseLots(book, f).closes]
<1>1. f.key \in Nat /\ acc.last \in Nat
  BY DEF FillRecord, Work
<1>2. /\ seen.last = f.key /\ opened.last = f.key /\ closed.last = f.key
      /\ seen.issues = acc.issues /\ opened.issues = acc.issues /\ closed.issues = acc.issues
      /\ seen.invalid = acc.invalid /\ opened.invalid = acc.invalid /\ closed.invalid = acc.invalid
  BY DEF Work
<1>3. Faulted(acc, f).issues # {} /\ Faulted(seen, f).issues # {}
  BY DEF Work, Faulted
<1>4. ApplyFill(acc, f) =
        IF Late(acc, f) THEN Faulted(acc, f)
        ELSE IF s \in acc.invalid THEN acc
        ELSE IF f.synthetic THEN seen
        ELSE IF Unattributable(book, f) THEN Faulted(seen, f)
        ELSE IF f.order \in Opening THEN opened ELSE closed
  BY DEF ApplyFill
<1> HIDE DEF seen, opened, closed, s, book
<1>5. CASE Late(acc, f)
  BY <1>3, <1>4, <1>5
<1>6. CASE ~Late(acc, f) /\ s \in acc.invalid
  BY <1>4, <1>6
<1>7. CASE ~Late(acc, f) /\ s \notin acc.invalid
  <2>1. acc.last <= f.key
    BY <1>1, <1>7 DEF Late
  <2> QED BY <1>2, <1>3, <1>4, <1>7, <2>1
<1> QED BY <1>5, <1>6, <1>7

(* An update that leaves no issue had none before, and what it applied came *)
(* in the order of the venue after all that was applied before.             *)
LEMMA AppliedInOrder ==
    ASSUME NEW cp, Books(cp), cp.issues = {} => cp.invalid = {},
           NEW fs \in Seq(FillRecord)
    PROVE  LET out == Applied(cp, fs) IN
           out.issues = {} =>
             /\ cp.issues = {} /\ out.invalid = {} /\ cp.last <= out.last
             /\ \A i \in DOMAIN fs : cp.last <= fs[i].key /\ fs[i].key <= out.last
<1> DEFINE n == Len(fs)
           sorted == ByKey(fs)
           Tidy(k, acc) ==
             acc[k].issues = {} =>
               /\ cp.issues = {} /\ acc[k].invalid = {} /\ cp.last <= acc[k].last
               /\ \A m \in 1 .. k : cp.last <= sorted[m].key /\ sorted[m].key <= acc[k].last
<1>1. n \in Nat /\ \A k \in 1 .. n : sorted[k] \in FillRecord /\ sorted[k].key \in Nat
  BY ByKeyKeeps, KeysOfFills
<1>2. PICK acc : /\ acc[0] = Idle(cp) /\ Applied(cp, fs) = acc[n]
                 /\ \A k \in 1 .. n : acc[k] = ApplyFill(acc[k - 1], sorted[k])
                 /\ \A k \in 0 .. n : acc[k] \in Work(IdsOf(fs))
  BY AppliedRuns
<1>3. IdsOf(fs) \in SUBSET Nat
  <2>1. \A f \in FillRecord : f.id \in Nat
    BY DEF FillRecord
  <2> QED BY <2>1, KeysOfFills DEF IdsOf
<1>4. \A k \in 0 .. n : acc[k].last \in Nat
  BY <1>2 DEF Work
<1>5. cp.last \in Nat
  BY DEF Books
<1> HIDE DEF n, sorted
<1> DEFINE good == {k \in 0 .. n : Tidy(k, acc)}
<1>6. 0 \in good
  <2>1. Tidy(0, acc)
    BY <1>2, <1>5 DEF Idle
  <2> QED BY <1>1, <2>1
<1>7. ASSUME NEW k \in 1 .. n, k - 1 \in good PROVE k \in good
  <2>1. k - 1 \in 0 .. n /\ k \in 0 .. n /\ k \in Nat
    BY <1>1
  <2>2. Tidy(k - 1, acc)
    BY <1>7
  <2>3. acc[k - 1] \in Work(IdsOf(fs)) /\ acc[k - 1].last \in Nat /\ sorted[k] \in FillRecord
    BY <1>1, <1>2, <1>4, <2>1
  <2>4. acc[k] = ApplyFill(acc[k - 1], sorted[k])
    BY <1>2
  <2>5. ASSUME acc[k].issues = {}
        PROVE  /\ acc[k - 1].issues = {} /\ acc[k].invalid = {}
               /\ acc[k - 1].last <= sorted[k].key /\ acc[k].last = sorted[k].key
    BY <1>3, <2>2, <2>3, <2>4, <2>5, ApplyFillInOrder
  <2>6. ASSUME acc[k].issues = {} PROVE Tidy(k, acc)
    <3>1. /\ cp.issues = {} /\ cp.last <= acc[k - 1].last
          /\ \A m \in 1 .. k - 1 : cp.last <= sorted[m].key /\ sorted[m].key <= acc[k - 1].last
      BY <2>2, <2>5, <2>6
    <3>2. cp.last <= acc[k].last
      BY <1>1, <1>4, <1>5, <2>1, <2>5, <2>6, <3>1
    <3>3. ASSUME NEW m \in 1 .. k PROVE cp.last <= sorted[m].key /\ sorted[m].key <= acc[k].last
      <4>1. CASE m = k
        BY <1>1, <1>4, <2>1, <2>5, <2>6, <3>2, <4>1
      <4>2. CASE m # k
        <5>1. m \in 1 .. k - 1 /\ m \in 1 .. n
          BY <1>1, <4>2
        <5> QED BY <1>1, <1>4, <2>1, <2>5, <2>6, <3>1, <5>1
      <4> QED BY <4>1, <4>2
    <3> QED BY <2>5, <2>6, <3>1, <3>2, <3>3
  <2> QED BY <2>1, <2>6
<1>8. \A k \in 0 .. n : k \in good
  <2> HIDE DEF good
  <2> QED BY <1>1, <1>6, <1>7, AlongPrefix
<1>9. Tidy(n, acc)
  BY <1>1, <1>8
<1>10. ASSUME acc[n].issues = {}, NEW i \in DOMAIN fs
       PROVE  cp.last <= fs[i].key /\ fs[i].key <= acc[n].last
  <2>1. PICK m \in 1 .. n : sorted[m] = fs[i]
    BY ByKeyKeeps DEF n, sorted
  <2> QED BY <1>9, <1>10, <2>1
<1> QED BY <1>2, <1>9, <1>10

-----------------------------------------------------------------------------
(* The units that trades account for.                                       *)
Traded(fs, o) == {j \in DOMAIN fs : fs[j].order = o /\ ~fs[j].synthetic}
UnitsOf(fs, S) == UNION {{i} \X (1 .. fs[i].qty) : i \in S}

LEMMA UnitsFinite ==
    ASSUME NEW fs \in Seq(FillRecord), NEW S \in SUBSET (DOMAIN fs)
    PROVE  IsFiniteSet(UnitsOf(fs, S)) /\ Cardinality(UnitsOf(fs, S)) \in Nat
<1> DEFINE without == {k \in 0 .. Len(fs) : ~IsFiniteSet(UnitsOf(fs, S \cap (1 .. k)))}
           good == {k \in 0 .. Len(fs) : IsFiniteSet(UnitsOf(fs, S \cap (1 .. k)))}
<1>1. DOMAIN fs = 1 .. Len(fs) /\ Len(fs) \in Nat
  BY KeysOfFills
<1>2. 0 \in good
  <2>1. S \cap (1 .. 0) = {}
    OBVIOUS
  <2>2. UnitsOf(fs, {}) = {}
    BY DEF UnitsOf
  <2>3. IsFiniteSet(UnitsOf(fs, S \cap (1 .. 0)))
    BY <2>1, <2>2, FS_EmptySet, Zenon
  <2> QED BY <1>1, <2>3
<1>3. ASSUME NEW k \in 1 .. Len(fs), k - 1 \in good PROVE k \in good
  <2>1. fs[k].qty \in Nat
    BY <1>1, KeysOfFills DEF FillRecord
  <2>2. IsFiniteSet({k} \X (1 .. fs[k].qty))
    <3>1. IsFiniteSet(1 .. fs[k].qty)
      <4>1. 1 \in Int /\ fs[k].qty \in Int
        BY <2>1
      <4> QED BY <4>1, FS_Interval
    <3> QED BY <3>1, FS_Singleton, FS_Product
  <2>3. IsFiniteSet(UnitsOf(fs, S \cap (1 .. k - 1)))
    BY <1>3
  <2>4. IsFiniteSet(UnitsOf(fs, S \cap (1 .. k - 1)) \cup ({k} \X (1 .. fs[k].qty)))
    BY <2>2, <2>3, FS_Union
  <2>5. UnitsOf(fs, S \cap (1 .. k)) \in
          SUBSET (UnitsOf(fs, S \cap (1 .. k - 1)) \cup ({k} \X (1 .. fs[k].qty)))
    <3>1. ASSUME NEW i \in S \cap (1 .. k) PROVE i = k \/ i \in S \cap (1 .. k - 1)
      BY <1>1
    <3> QED BY <3>1 DEF UnitsOf
  <2>6. IsFiniteSet(UnitsOf(fs, S \cap (1 .. k)))
    BY <2>4, <2>5, FS_Subset
  <2> QED BY <1>1, <2>6
<1>4. Len(fs) \in good
  <2> HIDE DEF good
  <2>1. Len(fs) \in 0 .. Len(fs)
    BY <1>1
  <2> QED BY <1>1, <1>2, <1>3, <2>1, AlongPrefix
<1>5. S \cap (1 .. Len(fs)) = S
  BY <1>1
<1> QED BY <1>4, <1>5, FS_CardinalityType

LEMMA DocumentedUnits == ASSUME NEW fs, NEW o
                         PROVE  Documented(fs, o) = Cardinality(UnitsOf(fs, Traded(fs, o)))
  BY DEF Documented, UnitsOf, Traded

LEMMA DocumentedTyped == ASSUME NEW fs \in Seq(FillRecord), NEW o PROVE Documented(fs, o) \in Nat
<1>1. Traded(fs, o) \in SUBSET (DOMAIN fs)
  BY DEF Traded
<1> QED BY <1>1, UnitsFinite, DocumentedUnits

(* More positions, more units: those of one position are its quantity.      *)
LEMMA UnitsMonotone ==
    ASSUME NEW fs \in Seq(FillRecord), NEW T \in SUBSET (DOMAIN fs), NEW S \in SUBSET T
    PROVE  Cardinality(UnitsOf(fs, S)) <= Cardinality(UnitsOf(fs, T))
<1>1. UnitsOf(fs, S) \in SUBSET UnitsOf(fs, T)
  BY DEF UnitsOf
<1> QED BY <1>1, UnitsFinite, FS_Subset

LEMMA UnitsAdded ==
    ASSUME NEW fs \in Seq(FillRecord), NEW S \in SUBSET (DOMAIN fs), NEW k \in (DOMAIN fs) \ S
    PROVE  Cardinality(UnitsOf(fs, S \cup {k})) = Cardinality(UnitsOf(fs, S)) + fs[k].qty
<1> DEFINE q == fs[k].qty
           new == {k} \X (1 .. q)
<1>1. q \in Nat
  BY KeysOfFills DEF FillRecord
<1>2. UnitsOf(fs, S \cup {k}) = UnitsOf(fs, S) \cup new
  BY DEF UnitsOf
<1>3. UnitsOf(fs, S) \cap new = {}
  BY DEF UnitsOf
<1> HIDE DEF q
<1>4. IsFiniteSet(new) /\ Cardinality(new) = q
  <2>1. IsFiniteSet(1 .. q) /\ Cardinality(1 .. q) = q
    <3>1. 1 \in Int /\ q \in Int
      BY <1>1
    <3>2. IsFiniteSet(1 .. q) /\ Cardinality(1 .. q) = IF 1 > q THEN 0 ELSE q - 1 + 1
      BY <3>1, FS_Interval
    <3> QED BY <1>1, <3>2
  <2>2. IsFiniteSet({k}) /\ Cardinality({k}) = 1
    BY FS_Singleton
  <2>3. IsFiniteSet(new) /\ Cardinality(new) = 1 * q
    BY <2>1, <2>2, FS_Product
  <2> QED BY <1>1, <2>3
<1>5. Cardinality(UnitsOf(fs, S) \cup new)
        = Cardinality(UnitsOf(fs, S)) + q - Cardinality(UnitsOf(fs, S) \cap new)
  BY <1>4, UnitsFinite, FS_Union
<1>6. Cardinality(UnitsOf(fs, S)) \in Nat /\ Cardinality({}) = 0
  BY UnitsFinite, FS_EmptySet
<1>7. Cardinality(UnitsOf(fs, S) \cap new) = 0
  BY <1>3, <1>6, Zenon
<1> HIDE DEF new
<1>8. Cardinality(UnitsOf(fs, S) \cup new) = Cardinality(UnitsOf(fs, S)) + q
  BY <1>1, <1>5, <1>6, <1>7
<1> QED BY <1>2, <1>8 DEF q

(* A new fill adds its units to the positions it is one of.                 *)
LEMMA UnitsGrow ==
    ASSUME NEW fs \in Seq(FillRecord), NEW f \in FillRecord,
           NEW S \in SUBSET (DOMAIN fs)
    PROVE  LET more == Append(fs, f) IN
           /\ UnitsOf(more, S) = UnitsOf(fs, S)
           /\ Cardinality(UnitsOf(more, S \cup {Len(fs) + 1})) = Cardinality(UnitsOf(fs, S)) + f.qty
<1> DEFINE more == Append(fs, f)
           n == Len(fs) + 1
<1>1. /\ DOMAIN fs = 1 .. Len(fs) /\ Len(fs) \in Nat
      /\ more \in Seq(FillRecord) /\ DOMAIN more = 1 .. n
      /\ \A i \in S : more[i] = fs[i]
      /\ more[n] = f
  BY KeysOfFills
<1>2. S \in SUBSET (DOMAIN more) /\ n \in (DOMAIN more) \ S
  BY <1>1
<1> HIDE DEF more, n
<1>3. UnitsOf(more, S) = UnitsOf(fs, S)
  BY <1>1 DEF UnitsOf
<1>4. Cardinality(UnitsOf(more, S \cup {n})) = Cardinality(UnitsOf(more, S)) + more[n].qty
  BY <1>1, <1>2, UnitsAdded
<1> QED BY <1>1, <1>3, <1>4 DEF more, n

LEMMA DocumentedGrows ==
    ASSUME NEW fs \in Seq(FillRecord), NEW f \in FillRecord, NEW o
    PROVE  Documented(Append(fs, f), o) =
             Documented(fs, o) + (IF f.order = o /\ ~f.synthetic THEN f.qty ELSE 0)
<1> DEFINE more == Append(fs, f)
           n == Len(fs) + 1
<1>1. /\ DOMAIN fs = 1 .. Len(fs) /\ Len(fs) \in Nat
      /\ DOMAIN more = (DOMAIN fs) \cup {n} /\ n \notin DOMAIN fs /\ more[n] = f
      /\ \A i \in DOMAIN fs : more[i] = fs[i]
  BY KeysOfFills
<1>2. Traded(fs, o) \in SUBSET (DOMAIN fs)
  BY DEF Traded
<1> HIDE DEF more, n
<1>3. CASE f.order = o /\ ~f.synthetic
  <2>1. Traded(more, o) = Traded(fs, o) \cup {n}
    BY <1>1, <1>3 DEF Traded
  <2>2. Cardinality(UnitsOf(more, Traded(fs, o) \cup {n})) = Cardinality(UnitsOf(fs, Traded(fs, o))) + f.qty
    BY <1>2, UnitsGrow DEF more, n
  <2> QED BY <1>3, <2>1, <2>2, DocumentedUnits DEF more
<1>4. CASE ~(f.order = o /\ ~f.synthetic)
  <2>1. Traded(more, o) = Traded(fs, o)
    BY <1>1, <1>4 DEF Traded
  <2>2. UnitsOf(more, Traded(fs, o)) = UnitsOf(fs, Traded(fs, o))
    BY <1>2, UnitsGrow DEF more, n
  <2>3. Documented(fs, o) \in Nat
    BY DocumentedTyped
  <2> QED BY <1>4, <2>1, <2>2, <2>3, DocumentedUnits DEF more
<1> QED BY <1>3, <1>4
=============================================================================
