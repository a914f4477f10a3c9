------------------------------ MODULE OwnedLots ------------------------------
(***************************************************************************)
(* Who owns what was filled: the lots of core/trading/lots.py and the      *)
(* application of fill records to them in                                  *)
(* core/live_broker/fill_projection.py.  Pure operators, no state.         *)
(*                                                                         *)
(* Quantities count the smallest unit traded; prices, fees, risk shares    *)
(* and timestamps are data.  Positions are long: the short half of the     *)
(* code (short, cover) is its mirror image.                                *)
(***************************************************************************)
EXTENDS Integers, SequencesExt

CONSTANTS
    Orders,     \* client_order_id of every order in the ledger
    Symbols,    \* symbols traded
    SymbolOf,   \* the symbol of each order
    Opening     \* orders that buy; the others sell

ASSUME OwnedLotsAssumption ==
    SymbolOf \in [Orders -> Symbols] /\ Opening \subseteq Orders

(* A row of the fills table.  `key` is the pair _ordering compares, venue   *)
(* time and trade id; `sound` says that entry attribution, stop, approved   *)
(* risk, fee evidence and conversion of the fill are all on record;         *)
(* `synthetic` marks a fill inferred from an average price.                 *)
FillRecord ==
    [id : Nat, order : Orders, qty : Nat \ {0}, key : Nat,
     synthetic : BOOLEAN, sound : BOOLEAN]

(* An open lot, named for the order that opened it: lot ids are derived     *)
(* from the order id (_StableIds).                                          *)
Lot == [order : Orders, qty : Nat]
Close == [fill : Nat, order : Orders, qty : Nat]

Smaller(m, n) == IF m < n THEN m ELSE n
Total(quantity(_), s) == FoldLeft(LAMBDA n, e : n + quantity(e), 0, s)

NetQty(book) == Total(LAMBDA lot : lot.qty, book)

(* LotBook.apply_fill, buying side: a fill of the order that opened the     *)
(* last lot joins it.                                                       *)
OpenLots(book, f) ==
    IF book # <<>> /\ Last(book).order = f.order
      THEN [book EXCEPT ![Len(book)].qty = @ + f.qty]
      ELSE Append(book, [order |-> f.order, qty |-> f.qty])

(* LotBook.apply_fill, selling side: the oldest lots are closed first.      *)
CloseLot(f, acc, lot) ==
    LET q == Smaller(acc.need, lot.qty) IN
    [need |-> acc.need - q,
     lots |-> IF q < lot.qty
                THEN Append(acc.lots, [lot EXCEPT !.qty = @ - q]) ELSE acc.lots,
     closes |-> IF q > 0
                  THEN Append(acc.closes, [fill |-> f.id, order |-> lot.order, qty |-> q])
                  ELSE acc.closes]
CloseLots(book, f) ==
    FoldLeft(LAMBDA acc, lot : CloseLot(f, acc, lot),
             [need |-> f.qty, lots |-> <<>>, closes |-> <<>>], book)

(* What an update works on: the checkpoint's books, issues, invalid symbols *)
(* and last ordering, and the closes it produces.                           *)
EmptyBooks == [s \in Symbols |-> <<>>]

Unattributable(book, f) ==
    ~f.sound \/ (f.order \notin Opening /\ f.qty > NetQty(book))

Late_NotChecked(acc, f) == FALSE
(* The fill is older than one already applied, of whatever symbol. *)
Late(acc, f) == f.key < acc.last

Faulted(acc, f) ==
    [acc EXCEPT !.issues = @ \cup {f.id}, !.invalid = @ \cup {SymbolOf[f.order]}]

(* The body of update's loop with _apply_fill.  A late fill, one that       *)
(* cannot be attributed and an exit of more than is owned are issues that   *)
(* make their symbol invalid: its later fills are skipped.  A synthetic     *)
(* fill changes no lot.                                                     *)
ApplyFill(acc, f) ==
    LET s == SymbolOf[f.order]
        book == acc.books[s]
        seen == [acc EXCEPT !.last = f.key]
        sold == CloseLots(book, f)
    IN IF Late(acc, f) THEN Faulted(acc, f)
       ELSE IF s \in acc.invalid THEN acc
       ELSE IF f.synthetic THEN seen
       ELSE IF Unattributable(book, f) THEN Faulted(seen, f)
       ELSE IF f.order \in Opening
              THEN [seen EXCEPT !.books[s] = OpenLots(book, f)]
              ELSE [seen EXCEPT !.books[s] = sold.lots, !.closes = @ \o sold.closes]

(* Sorted by key; fills of one key stay in the order of the ledger.         *)
Ahead(fs, i) == {j \in DOMAIN fs : fs[j].key < fs[i].key \/ (fs[j].key = fs[i].key /\ j < i)}
ByKey(fs) ==
    [n \in 1 .. Len(fs) |->
       fs[CHOOSE i \in DOMAIN fs : Cardinality(Ahead(fs, i)) = n - 1]]

(* What update computes from a checkpoint and the fills behind its cursor.  *)
Applied(checkpoint, fs) ==
    FoldLeft(ApplyFill,
             [books |-> checkpoint.books, issues |-> checkpoint.issues,
              invalid |-> checkpoint.invalid, last |-> checkpoint.last, closes |-> <<>>],
             ByKey(fs))

(* The quantity of an order that trades account for: SUM(qty) over its      *)
(* fills that are not synthetic, counted in units.                          *)
Documented(fs, o) ==
    Cardinality(UNION {{i} \X (1 .. fs[i].qty) :
                         i \in {j \in DOMAIN fs : fs[j].order = o /\ ~fs[j].synthetic}})

-----------------------------------------------------------------------------
(* The reference the books are compared with: the units bought of a symbol  *)
(* in the order of their trades, of which each sale takes the next ones.    *)

TradesOf(fs, s) == SelectSeq(ByKey(fs), LAMBDA f : SymbolOf[f.order] = s /\ ~f.synthetic)
Bought(fs) ==
    FoldLeft(LAMBDA units, f : units \o [i \in 1 .. f.qty |-> f.order], <<>>,
             SelectSeq(fs, LAMBDA f : f.order \in Opening))
Sold(fs) == Total(LAMBDA f : IF f.order \in Opening THEN 0 ELSE f.qty, fs)

UnitsOpen(book) == FoldLeft(LAMBDA units, lot : units \o [i \in 1 .. lot.qty |-> lot.order],
                            <<>>, book)

(* The units of order o that the k-th of the trades fs sells.               *)
UnitsClosed(fs, k, o) ==
    LET before == Sold(SubSeq(fs, 1, k - 1))
        units == Bought(fs)
    IN Cardinality({i \in before + 1 .. before + fs[k].qty :
                      i <= Len(units) /\ units[i] = o})
==============================================================================
