----------------------- MODULE ProtectiveStops_proofs -----------------------
(* Stops and exits never oversell, and stops only move up, for any entries,  *)
(* levels and bounds.                                                        *)
(* What a working order may come to sell is set aside in full until the      *)
(* order has ended and its row is settled: quantities are counted in units,  *)
(* so that sums are sizes of sets.                                           *)
EXTENDS ProtectiveStops, FiniteSetTheorems, NaturalsInduction, WellFoundedInduction, TLAPS

-----------------------------------------------------------------------------
(* What counting in units gives.                                            *)

(* The least of some naturals.                                              *)
LEMMA Smallest ==
    ASSUME NEW S \in SUBSET Nat, S # {}
    PROVE  \E m \in S : \A n \in S : m <= n
<1> DEFINE less == {ss \in Nat \X Nat : ss[1] < ss[2]}
<1>1. IsWellFoundedOn(less, Nat)
  BY NatLessThanWellFounded, Zenon DEF OpToRel
<1> HIDE DEF less
<1>2. \E m \in S : \A n \in S : ~(<<n, m>> \in less)
  BY <1>1, WFMin
<1>3. ASSUME NEW m \in S, NEW n \in S, ~(<<n, m>> \in less) PROVE m <= n
  BY <1>3 DEF less
<1> QED BY <1>2, <1>3

(* Finitely many naturals are bounded.                                      *)
LEMMA Bounded ==
    ASSUME NEW S \in SUBSET Nat, IsFiniteSet(S)
    PROVE  \E b \in Nat : \A n \in S : n <= b
<1> DEFINE size == Cardinality(S)
<1>1. size \in Nat /\ ExistsBijection(1 .. size, S)
  BY FS_CardinalityType
<1>2. PICK f \in [1 .. size -> S] : \A s \in S : \E i \in 1 .. size : f[i] = s
  BY <1>1 DEF ExistsBijection, Bijection, Injection, Surjection
<1> HIDE DEF size
<1> DEFINE Unbounded == {k \in 0 .. size : ~ \E b \in Nat : \A i \in 1 .. k : f[i] <= b}
<1>3. ASSUME Unbounded # {} PROVE FALSE
  <2>1. Unbounded \in SUBSET Nat
    BY <1>1
  <2>2. PICK k \in Unbounded : \A n \in Unbounded : k <= n
    <3> HIDE DEF Unbounded
    <3> QED BY <1>3, <2>1, Smallest
  <2>3. k # 0
    <3>1. \A i \in 1 .. 0 : f[i] <= 0
      OBVIOUS
    <3> QED BY <3>1
  <2>4. k \in 1 .. size /\ k - 1 \in 0 .. size /\ k - 1 \notin Unbounded
    <3>1. k \in 1 .. size /\ k - 1 \in 0 .. size /\ ~(k <= k - 1)
      BY <1>1, <2>3
    <3> QED BY <2>2, <3>1
  <2>5. PICK b \in Nat : \A i \in 1 .. (k - 1) : f[i] <= b
    BY <2>4
  <2>6. f[k] \in Nat
    BY <1>2, <2>4
  <2>7. PICK c \in Nat : b <= c /\ f[k] <= c
    <3>1. ASSUME NEW x \in Nat PROVE \E c \in Nat : b <= c /\ x <= c
      <4> DEFINE c == IF b <= x THEN x ELSE b
      <4>1. c \in Nat /\ b <= c /\ x <= c
        BY <2>5, <3>1
      <4> HIDE DEF c
      <4> QED BY <4>1, Zenon
    <3> QED BY <2>6, <3>1, Zenon
  <2>8. ASSUME NEW i \in 1 .. k PROVE f[i] <= c
    <3>1. i = k \/ i \in 1 .. (k - 1)
      BY <2>4
    <3>2. f[i] \in Nat
      <4>1. i \in 1 .. size
        BY <1>1, <2>4
      <4> QED BY <1>2, <4>1
    <3>3. CASE i = k
      BY <2>7, <3>3
    <3>4. CASE i \in 1 .. (k - 1)
      <4>1. f[i] <= b
        BY <2>5, <3>4
      <4>2. \A x \in Nat : x <= b => x <= c
        BY <2>5, <2>7
      <4> QED BY <3>2, <4>1, <4>2, Zenon
    <3> QED BY <3>1, <3>3, <3>4
  <2> QED BY <2>2, <2>7, <2>8
<1>4. PICK b \in Nat : \A i \in 1 .. size : f[i] <= b
  <2>1. size \in 0 .. size
    BY <1>1
  <2> QED BY <1>3, <2>1
<1> QED BY <1>2, <1>4

(* What Max returns.                                                        *)
LEMMA Largest ==
    ASSUME NEW S \in SUBSET Nat, IsFiniteSet(S), S # {}
    PROVE  Max(S) \in S /\ \A n \in S : n <= Max(S)
<1>1. PICK b \in Nat : \A n \in S : n <= b
  BY Bounded
<1> DEFINE Gaps == {b - n : n \in S}
<1>2. Gaps \in SUBSET Nat /\ Gaps # {}
  <2>1. ASSUME NEW n \in S PROVE b - n \in Nat
    <3>1. n \in Nat /\ n <= b
      BY <1>1
    <3> QED BY <3>1
  <2> QED BY <2>1
<1>3. PICK g \in Gaps : \A h \in Gaps : g <= h
  <2> HIDE DEF Gaps
  <2> QED BY <1>2, Smallest
<1>4. PICK m \in S : g = b - m
  BY <1>3
<1>5. ASSUME NEW n \in S PROVE m >= n
  <2>1. b - m <= b - n
    BY <1>3, <1>4
  <2> QED BY <2>1
<1>6. Max(S) \in S /\ \A n \in S : Max(S) >= n
  BY <1>4, <1>5 DEF Max
<1> QED BY <1>6

(* Finitely many orders have finitely many units.                           *)
LEMMA UnitsFinite ==
    ASSUME NEW S, IsFiniteSet(S), NEW q, \A o \in S : q[o] \in Nat
    PROVE  IsFiniteSet(Units(q, S))
<1> DEFINE Of == [o \in S |-> {o} \X (1 .. q[o])]
           All == {{o} \X (1 .. q[o]) : o \in S}
<1>1. Of \in Surjection(S, All)
  BY DEF Surjection
<1>2. IsFiniteSet(All)
  BY <1>1, FS_Surjection, Zenon
<1>3. ASSUME NEW o \in S PROVE IsFiniteSet({o} \X (1 .. q[o]))
  <2>1. IsFiniteSet({o})
    BY FS_Singleton
  <2>2. IsFiniteSet(1 .. q[o])
    BY FS_Interval
  <2> QED BY <2>1, <2>2, FS_Product
<1>4. \A T \in All : IsFiniteSet(T)
  BY <1>3
<1>5. IsFiniteSet(UNION All)
  BY <1>2, <1>4, FS_UNION, Zenon
<1> QED BY <1>5 DEF Units

(* A unit is an order's, and numbered within its quantity.                  *)
LEMMA UnitsOf ==
    ASSUME NEW S, NEW q
    PROVE  \A u : u \in Units(q, S) <=> \E o \in S : \E i \in 1 .. q[o] : u = <<o, i>>
BY DEF Units

LEMMA CardinalityNat == \A S : IsFiniteSet(S) => Cardinality(S) \in Nat
<1>1. ASSUME NEW S, IsFiniteSet(S) PROVE Cardinality(S) \in Nat
  BY <1>1, FS_CardinalityType
<1> QED BY <1>1

(* A part is not larger than the whole.                                     *)
LEMMA NoMoreUnits ==
    ASSUME NEW S, NEW T, IsFiniteSet(T), S \subseteq T
    PROVE  IsFiniteSet(S) /\ Cardinality(S) \in Nat /\ Cardinality(T) \in Nat
           /\ Cardinality(S) <= Cardinality(T)
BY FS_Subset, FS_CardinalityType

(* Two sets together: no more than both sizes, and just those if disjoint.  *)
LEMMA Together ==
    ASSUME NEW S, IsFiniteSet(S), NEW T, IsFiniteSet(T)
    PROVE  /\ IsFiniteSet(S \cup T)
           /\ Cardinality(S) \in Nat /\ Cardinality(T) \in Nat /\ Cardinality(S \cup T) \in Nat
           /\ Cardinality(S \cup T) <= Cardinality(S) + Cardinality(T)
           /\ S \cap T = {} => Cardinality(S \cup T) = Cardinality(S) + Cardinality(T)
<1>1. Cardinality(S \cup T) = Cardinality(S) + Cardinality(T) - Cardinality(S \cap T)
  BY FS_Union
<1>2. IsFiniteSet(S \cup T) /\ IsFiniteSet(S \cap T)
  BY FS_Union, FS_Intersection
<1>3. Cardinality({}) = 0
  BY FS_EmptySet
<1>4. /\ Cardinality(S) \in Nat /\ Cardinality(T) \in Nat
      /\ Cardinality(S \cup T) \in Nat /\ Cardinality(S \cap T) \in Nat
  BY <1>2, CardinalityNat, Zenon
<1>5. Cardinality(S \cup T) <= Cardinality(S) + Cardinality(T)
  BY <1>1, <1>4
<1>6. S \cap T = {} => Cardinality(S \cup T) = Cardinality(S) + Cardinality(T)
  <2>1. S \cap T = {} => Cardinality(S \cap T) = 0
    BY <1>3, Zenon
  <2> QED BY <1>1, <1>4, <2>1
<1> QED BY <1>2, <1>4, <1>5, <1>6

-----------------------------------------------------------------------------
(* The invariant, and what the venue and the book hold in units.            *)

(* What an order may come to have sold: all of it while the venue works on  *)
(* it, and what it has traded before and after.                             *)
Committed == [o \in Orders |-> IF venue[o] = "working" THEN order[o].qty ELSE traded[o]]

(* An order is worked on only after its row is written, and a row that has  *)
(* ended has everything the order traded on record.                         *)
Rows ==
    \A o \in Orders :
      /\ row[o] = "none" => venue[o] = "none" /\ recorded[o] = 0
      /\ row[o] \in {"intent", "rejected"} => venue[o] = "none"
      /\ row[o] \in {"live", "canceled"} => venue[o] # "none"
      /\ venue[o] = "none" => traded[o] = 0
      /\ venue[o] = "working" => traded[o] < order[o].qty
      /\ ~Live(o) => venue[o] # "working" /\ recorded[o] = traded[o]

(* Inventory backs whatever the venue may still sell.                       *)
Backed == Cardinality(Units(Committed, Orders)) <= Bought

(* What is about to be sent is on record, not yet at the venue, and backed; *)
(* what a clearance has left to sell is backed too.                         *)
Sending ==
    /\ pc \in {"send", "answer"} => current \in Orders /\ row[current] = "unknown"
    /\ pc = "send" => /\ venue[current] = "none" /\ order[current].qty > 0
                      /\ Cardinality(Units(Committed, Orders)) + order[current].qty <= Bought
    /\ pc = "sell" => held - OutstandingExits + Cardinality(Units(Committed, Orders)) <= Bought

(* Intents are only worked on while there are some.                         *)
Planned ==
    /\ pc \in {"resync", "place", "send", "answer", "exit", "clear", "sell"} => intents # <<>>
    /\ pc \in {"resync", "place"} => Head(intents).action # "external"
    /\ opened <= entered

(* NeverOversold alone is not inductive: it forgets the order about to be   *)
(* sent and the orders whose answers were lost.                             *)
IInv == TypeOK /\ Rows /\ Backed /\ Sending /\ Planned

LEMMA OrdersFinite == IsFiniteSet(Orders) /\ IsFiniteSet(Stops) /\ IsFiniteSet(Exits)
<1>1. IsFiniteSet(1 .. MaxStops) /\ IsFiniteSet(1 .. MaxExits)
  BY FS_Interval, ProtectiveStopsAssumption
<1>2. IsFiniteSet({"stop"}) /\ IsFiniteSet({"exit"})
  BY FS_Singleton
<1>3. IsFiniteSet(Stops) /\ IsFiniteSet(Exits)
  BY <1>1, <1>2, FS_Product DEF Stops, Exits
<1> QED BY <1>3, FS_Union DEF Orders

LEMMA QuantityFinite ==
    ASSUME NEW q, \A o \in Orders : q[o] \in Nat, NEW S \in SUBSET Orders
    PROVE  IsFiniteSet(Units(q, S)) /\ Cardinality(Units(q, S)) \in Nat
<1>1. IsFiniteSet(S)
  BY OrdersFinite, FS_Subset
<1>2. IsFiniteSet(Units(q, S))
  BY <1>1, UnitsFinite
<1> QED BY <1>2, CardinalityNat

(* A unit more or less.                                                     *)
LEMMA MoreUnits ==
    ASSUME NEW q, NEW r, NEW S \in SUBSET Orders, NEW T \in SUBSET Orders, S \subseteq T,
           \A o \in S : q[o] \in Nat /\ r[o] \in Nat /\ q[o] <= r[o]
    PROVE  Units(q, S) \subseteq Units(r, T)
<1>1. ASSUME NEW o \in S, NEW i \in 1 .. q[o] PROVE i \in 1 .. r[o]
  BY <1>1
<1> QED BY <1>1 DEF Units

(* What was recorded, traded, committed and asked of each order, in order.  *)
LEMMA QuantityTypes ==
    ASSUME TypeOK
    PROVE  /\ \A o \in Orders : /\ order[o].qty \in Nat /\ Asked[o] = order[o].qty
                                /\ traded[o] \in Nat /\ recorded[o] \in Nat /\ Committed[o] \in Nat
                                /\ traded[o] <= Committed[o] /\ Committed[o] <= order[o].qty
                                /\ recorded[o] <= traded[o] /\ traded[o] <= order[o].qty
           /\ Cardinality(Units(traded, Orders)) \in Nat
           /\ Cardinality(Units(recorded, Orders)) \in Nat
           /\ Cardinality(Units(Committed, Orders)) \in Nat
<1>1. ASSUME NEW o \in Orders
      PROVE /\ order[o].qty \in Nat /\ Asked[o] = order[o].qty
            /\ traded[o] \in Nat /\ recorded[o] \in Nat /\ Committed[o] \in Nat
            /\ traded[o] <= Committed[o] /\ Committed[o] <= order[o].qty
            /\ recorded[o] <= traded[o] /\ traded[o] <= order[o].qty
  <2>1. order[o].qty \in Nat
    BY DEF TypeOK
  <2>2. /\ traded[o] \in Nat /\ recorded[o] \in Nat
        /\ traded[o] <= order[o].qty /\ recorded[o] <= traded[o]
    BY DEF TypeOK
  <2>3. Committed[o] = IF venue[o] = "working" THEN order[o].qty ELSE traded[o]
    BY DEF Committed
  <2> QED BY <2>1, <2>2, <2>3 DEF Asked
<1> QED BY <1>1, QuantityFinite

LEMMA BoughtNat ==
    ASSUME NEW n \in 0 .. Len(Entries)
    PROVE  IsFiniteSet(Units(Entries, 1 .. n))
<1>1. Entries \in Seq(Nat \ {0})
  BY ProtectiveStopsAssumption
<1>2. \A i \in 1 .. n : Entries[i] \in Nat
  BY <1>1
<1>3. IsFiniteSet(1 .. n)
  BY <1>1, FS_Interval
<1> QED BY <1>2, <1>3, UnitsFinite

(* The venue's position and the book's are never short.                     *)
LEMMA Positions ==
    ASSUME TypeOK, Backed
    PROVE  /\ Bought \in Nat
           /\ VenuePosition \in Nat /\ Owned \in Nat
           /\ VenuePosition = Bought - Cardinality(Units(traded, Orders))
           /\ Owned = Bought - Cardinality(Units(recorded, Orders))
<1>1. Bought \in Nat
  BY BoughtNat, CardinalityNat DEF TypeOK, Bought
<1>2. Units(traded, Orders) \subseteq Units(Committed, Orders)
  BY QuantityTypes, MoreUnits
<1>3. Units(recorded, Orders) \subseteq Units(Committed, Orders)
  <2>1. \A o \in Orders : recorded[o] \in Nat /\ Committed[o] \in Nat /\ recorded[o] <= Committed[o]
    <3>1. ASSUME NEW o \in Orders
          PROVE recorded[o] \in Nat /\ Committed[o] \in Nat /\ recorded[o] <= Committed[o]
      <4>1. /\ traded[o] \in Nat /\ recorded[o] \in Nat /\ Committed[o] \in Nat
            /\ traded[o] <= Committed[o] /\ recorded[o] <= traded[o]
        BY QuantityTypes
      <4> QED BY <4>1
    <3> QED BY <3>1
  <2> QED BY <2>1, MoreUnits
<1>4. IsFiniteSet(Units(Committed, Orders))
  BY QuantityTypes, QuantityFinite
<1>5. /\ Cardinality(Units(traded, Orders)) <= Cardinality(Units(Committed, Orders))
      /\ Cardinality(Units(recorded, Orders)) <= Cardinality(Units(Committed, Orders))
  BY <1>2, <1>3, <1>4, NoMoreUnits
<1> QED BY <1>1, <1>5, QuantityTypes DEF VenuePosition, Owned, Backed

(* What is on order beyond what is on record, with what has been sold,      *)
(* holds all that is committed.                                             *)
LEMMA OnOrder ==
    ASSUME TypeOK, Rows
    PROVE  /\ OutstandingExits \in Nat
           /\ Cardinality(Units(Committed, Orders))
                <= Cardinality(Units(traded, Orders)) + OutstandingExits
           /\ Cardinality(Units(Committed, Orders))
                <= Cardinality(Units(recorded, Orders)) + OutstandingExits
<1> DEFINE live == {o \in Orders : Live(o)}
           rest == Units(Asked, live) \ Units(recorded, live)
<1>1. IsFiniteSet(Units(Asked, live)) /\ IsFiniteSet(rest)
  <2>1. IsFiniteSet(Units(Asked, live))
    BY QuantityTypes, QuantityFinite
  <2> QED BY <2>1, FS_Subset
<1>2. OutstandingExits = Cardinality(rest)
  BY DEF OutstandingExits, Outstanding
<1>3. Units(Committed, Orders) \subseteq Units(recorded, Orders) \cup rest
  <2>1. ASSUME NEW o \in Orders, NEW i \in 1 .. Committed[o]
        PROVE  <<o, i>> \in Units(recorded, Orders) \cup rest
    <3>0. recorded[o] \in Nat /\ Committed[o] \in Nat /\ order[o].qty \in Nat
          /\ Committed[o] <= order[o].qty /\ Asked[o] = order[o].qty
      BY QuantityTypes
    <3>1. CASE ~Live(o)
      <4>1. Committed[o] = recorded[o]
        BY <3>1 DEF Committed, Rows
      <4> QED BY <2>1, <4>1, UnitsOf
    <3>2. CASE Live(o) /\ i \in 1 .. recorded[o]
      BY <3>2, UnitsOf
    <3>3. CASE Live(o) /\ i \notin 1 .. recorded[o]
      <4>1. i \in 1 .. Asked[o]
        BY <2>1, <3>0
      <4>2. <<o, i>> \in Units(Asked, live)
        BY <3>3, <4>1, UnitsOf
      <4>3. <<o, i>> \notin Units(recorded, live)
        BY <3>3, UnitsOf
      <4> QED BY <4>2, <4>3
    <3> QED BY <3>1, <3>2, <3>3
  <2> HIDE DEF rest
  <2> QED BY <2>1, UnitsOf
<1>4. Units(recorded, Orders) \subseteq Units(traded, Orders)
  BY QuantityTypes, MoreUnits
<1>5. /\ IsFiniteSet(Units(recorded, Orders)) /\ IsFiniteSet(Units(traded, Orders))
      /\ IsFiniteSet(Units(Committed, Orders))
  BY QuantityTypes, QuantityFinite
<1> HIDE DEF rest
<1>6. /\ Cardinality(Units(recorded, Orders) \cup rest)
           <= Cardinality(Units(recorded, Orders)) + Cardinality(rest)
      /\ Cardinality(Units(recorded, Orders)) <= Cardinality(Units(traded, Orders))
      /\ Cardinality(rest) \in Nat /\ Cardinality(Units(recorded, Orders) \cup rest) \in Nat
  BY <1>1, <1>4, <1>5, Together, NoMoreUnits
<1>7. Cardinality(Units(Committed, Orders)) <= Cardinality(Units(recorded, Orders) \cup rest)
  BY <1>1, <1>3, <1>5, NoMoreUnits, Together
<1> QED BY <1>2, <1>6, <1>7, QuantityTypes

(* Inventory covers what working orders may still sell.                    *)
LEMMA Oversold == TypeOK /\ Backed => NeverOversold
<1> SUFFICES ASSUME TypeOK, Backed PROVE NeverOversold
  OBVIOUS
<1> DEFINE open == Units(Asked, Working) \ Units(traded, Working)
           sold == Units(traded, Orders)
<1>1. open \cup sold \subseteq Units(Committed, Orders)
  <2>1. ASSUME NEW u \in open PROVE u \in Units(Committed, Orders)
    <3>1. PICK o \in Working : \E i \in 1 .. Asked[o] : u = <<o, i>>
      BY UnitsOf
    <3>2. o \in Orders /\ Asked[o] = Committed[o]
      BY DEF Working, Asked, Committed
    <3> QED BY <3>1, <3>2, UnitsOf
  <2>2. sold \subseteq Units(Committed, Orders)
    BY QuantityTypes, MoreUnits
  <2> QED BY <2>1, <2>2
<1>2. open \cap sold = {}
  <2>1. ASSUME NEW u \in open, u \in sold PROVE FALSE
    <3>1. PICK o \in Working : \E i \in 1 .. Asked[o] : u = <<o, i>>
      BY UnitsOf
    <3>2. PICK p \in Orders : \E i \in 1 .. traded[p] : u = <<p, i>>
      BY <2>1, UnitsOf
    <3>3. o = p
      BY <3>1, <3>2
    <3> QED BY <3>1, <3>2, <3>3, UnitsOf
  <2> QED BY <2>1
<1>3. Working \in SUBSET Orders
  BY DEF Working
<1>4. IsFiniteSet(Units(Asked, Working)) /\ IsFiniteSet(sold) /\ IsFiniteSet(Units(Committed, Orders))
  BY <1>3, QuantityTypes, QuantityFinite
<1>5. IsFiniteSet(open)
  BY <1>4, FS_Subset
<1> HIDE DEF open, sold
<1>6. Cardinality(open \cup sold) = Cardinality(open) + Cardinality(sold)
      /\ Cardinality(open) \in Nat /\ Cardinality(sold) \in Nat
  BY <1>2, <1>4, <1>5, Together
<1>7. Cardinality(open \cup sold) <= Cardinality(Units(Committed, Orders))
  BY <1>1, <1>4, NoMoreUnits
<1>8. VenuePosition = Bought - Cardinality(sold) /\ Bought \in Nat
  BY Positions DEF sold
<1>9. Cardinality(open) <= VenuePosition
  BY <1>6, <1>7, <1>8, QuantityTypes DEF Backed
<1> QED BY <1>9 DEF open, NeverOversold

-----------------------------------------------------------------------------
(* What may happen to the orders on record.                                 *)

(* What a read, a cancellation, a reconciliation or an operator may do to   *)
(* orders: only live ones change, and one that ends is fully on record.     *)
SettlesOne(o) ==
    /\ venue'[o] = venue[o] \/ (venue[o] = "working" /\ venue'[o] = "ended")
    /\ \/ row'[o] = row[o] /\ recorded'[o] = recorded[o] /\ (Live(o) \/ venue'[o] = venue[o])
       \/ Live(o) /\ row'[o] = "unknown" /\ recorded'[o] \in {recorded[o], traded[o]}
       \/ /\ Live(o) /\ row'[o] = "live" /\ venue'[o] # "none"
          /\ recorded'[o] \in {recorded[o], traded[o]}
       \/ Live(o) /\ row'[o] = "intent" /\ venue'[o] = "none" /\ recorded'[o] = recorded[o]
       \/ Live(o) /\ row'[o] = "canceled" /\ venue'[o] = "ended" /\ recorded'[o] = traded[o]
       \/ Live(o) /\ row'[o] = "rejected" /\ venue'[o] = "none" /\ recorded'[o] = traded[o]

Settles ==
    /\ UNCHANGED <<entered, traded, order>>
    /\ venue' \in [Orders -> {"none", "working", "ended"}]
    /\ row' \in [Orders -> {"none", "intent", "live", "unknown", "rejected", "canceled"}]
    /\ recorded' = [o \in Orders |-> recorded'[o]]
    /\ external' \subseteq Exits
    /\ \A o \in Orders : SettlesOne(o)

LedgerTyped ==
    /\ venue \in [Orders -> {"none", "working", "ended"}]
    /\ row \in [Orders -> {"none", "intent", "live", "unknown", "rejected", "canceled"}]
    /\ order \in [Orders -> [qty : Nat, level : Level, position : Nat]]
    /\ traded \in [Orders -> Nat] /\ recorded \in [Orders -> Nat] /\ external \subseteq Exits
    /\ \A o \in Orders : recorded[o] <= traded[o] /\ traded[o] <= order[o].qty

(* Settling orders commits no more and loses nothing.                       *)
LEMMA SettledKeeps ==
    ASSUME TypeOK, Rows, Backed, Settles
    PROVE  LedgerTyped' /\ Rows' /\ Backed'
<1>1. ASSUME NEW o \in Orders
      PROVE  /\ recorded'[o] \in Nat /\ recorded'[o] <= traded'[o] /\ traded'[o] <= order'[o].qty
             /\ row'[o] = "none" => venue'[o] = "none" /\ recorded'[o] = 0
             /\ row'[o] \in {"intent", "rejected"} => venue'[o] = "none"
             /\ row'[o] \in {"live", "canceled"} => venue'[o] # "none"
             /\ venue'[o] = "none" => traded'[o] = 0
             /\ venue'[o] = "working" => traded'[o] < order'[o].qty
             /\ ~(row'[o] \in {"intent", "live", "unknown"}) => venue'[o] # "working" /\ recorded'[o] = traded'[o]
             /\ Committed'[o] \in Nat /\ Committed'[o] <= Committed[o]
  <2>1. traded'[o] = traded[o] /\ order'[o] = order[o]
    BY DEF Settles
  <2>2. /\ traded[o] \in Nat /\ recorded[o] \in Nat
        /\ traded[o] <= order[o].qty /\ recorded[o] <= traded[o]
        /\ order[o].qty \in Nat
    BY DEF TypeOK
  <2>0. SettlesOne(o) /\ venue[o] \in {"none", "working", "ended"}
    BY DEF Settles, TypeOK
  <2>3. recorded'[o] \in {recorded[o], traded[o]}
    BY <2>0 DEF SettlesOne
  <2>4. recorded'[o] \in Nat /\ recorded'[o] <= traded[o]
    BY <2>2, <2>3
  <2>5. /\ row'[o] = "none" => venue'[o] = "none" /\ recorded'[o] = 0
        /\ row'[o] \in {"intent", "rejected"} => venue'[o] = "none"
        /\ row'[o] \in {"live", "canceled"} => venue'[o] # "none"
        /\ venue'[o] = "none" => traded[o] = 0
        /\ venue'[o] = "working" => traded[o] < order[o].qty
        /\ ~(row'[o] \in {"intent", "live", "unknown"}) => venue'[o] # "working" /\ recorded'[o] = traded[o]
    <3>1. /\ row[o] = "none" => venue[o] = "none" /\ recorded[o] = 0
          /\ row[o] \in {"intent", "rejected"} => venue[o] = "none"
          /\ row[o] \in {"live", "canceled"} => venue[o] # "none"
          /\ venue[o] = "none" => traded[o] = 0
          /\ venue[o] = "working" => traded[o] < order[o].qty
          /\ ~Live(o) => venue[o] # "working" /\ recorded[o] = traded[o]
      BY DEF Rows
    <3> QED BY <2>0, <3>1 DEF SettlesOne, Live
  <2>6. Committed'[o] \in Nat /\ Committed'[o] <= Committed[o]
    <3>1. /\ Committed'[o] = IF venue'[o] = "working" THEN order[o].qty ELSE traded[o]
          /\ Committed[o] = IF venue[o] = "working" THEN order[o].qty ELSE traded[o]
      BY <2>1 DEF Committed
    <3>2. venue'[o] = "working" => venue[o] = "working"
      BY <2>0 DEF SettlesOne
    <3> QED BY <3>1, <3>2, <2>2
  <2> QED BY <2>1, <2>2, <2>4, <2>5, <2>6
<1>2. LedgerTyped'
  <2>1. order' = order /\ traded' = traded
    BY DEF Settles
  <2>2. recorded' \in [Orders -> Nat]
    <3>1. recorded' = [o \in Orders |-> recorded'[o]]
      BY DEF Settles
    <3> QED BY <1>1, <3>1
  <2> QED BY <1>1, <2>1, <2>2 DEF LedgerTyped, Settles, TypeOK
<1>3. Rows'
  BY <1>1 DEF Rows, Live
<1>4. Backed'
  <2>1. \A o \in Orders : Committed[o] \in Nat
    BY QuantityTypes
  <2> DEFINE c == Committed'
  <2>2. \A o \in Orders : c[o] \in Nat /\ c[o] <= Committed[o]
    BY <1>1
  <2> HIDE DEF c
  <2>3. Units(c, Orders) \subseteq Units(Committed, Orders)
    BY <2>1, <2>2, MoreUnits
  <2>4. IsFiniteSet(Units(Committed, Orders))
    BY <2>1, QuantityFinite
  <2>5. Cardinality(Units(c, Orders)) <= Cardinality(Units(Committed, Orders))
        /\ Cardinality(Units(c, Orders)) \in Nat
    BY <2>3, <2>4, NoMoreUnits
  <2>6. Bought \in Nat
    BY Positions
  <2>7. Bought' = Bought
    BY DEF Settles, Bought, Units
  <2>8. Cardinality(Units(c, Orders)) <= Bought
    BY <2>5, <2>6, QuantityTypes DEF Backed
  <2>9. Units(Committed, Orders)' = Units(c, Orders)
    BY DEF c, Units, Orders, Stops, Exits
  <2> QED BY <2>7, <2>8, <2>9 DEF Backed
<1> QED BY <1>2, <1>3, <1>4

(* Reading orders back settles them.                                        *)
LEMMA ReadSettles ==
    ASSUME TypeOK, NEW known, NEW lost, Read(known, lost),
           \A o \in Orders : o \in known \cup lost => Live(o),
           UNCHANGED <<entered, traded>>,
           venue' \in [Orders -> {"none", "working", "ended"}],
           \A o \in Orders :
             /\ venue'[o] = venue[o] \/ (venue[o] = "working" /\ venue'[o] = "ended")
             /\ Live(o) \/ venue'[o] = venue[o]
    PROVE  Settles
<1>1. ASSUME NEW o \in Orders
      PROVE  /\ row'[o] \in {"none", "intent", "live", "unknown", "rejected", "canceled"}
             /\ SettlesOne(o)
  <2>1. /\ row'[o] = IF o \in lost THEN "unknown" ELSE IF o \in known THEN Found(o) ELSE row[o]
        /\ recorded'[o] = IF o \in known \ lost THEN traded[o] ELSE recorded[o]
    BY DEF Read
  <2>2. row[o] \in {"none", "intent", "live", "unknown", "rejected", "canceled"}
    BY DEF TypeOK
  <2>6. /\ venue'[o] \in {"none", "working", "ended"}
        /\ venue'[o] = venue[o] \/ (venue[o] = "working" /\ venue'[o] = "ended")
        /\ Live(o) \/ venue'[o] = venue[o]
        /\ o \in known \cup lost => Live(o)
    OBVIOUS
  <2>3. CASE o \in lost
    <3>1. row'[o] = "unknown" /\ recorded'[o] = recorded[o] /\ Live(o)
      BY <2>1, <2>3
    <3> QED BY <2>6, <3>1 DEF SettlesOne
  <2>4. CASE o \in known \ lost
    <3>1. \/ venue'[o] = "none" /\ Found(o) = "unknown"
          \/ venue'[o] = "working" /\ Found(o) = "live"
          \/ venue'[o] = "ended" /\ Found(o) = "canceled"
      BY DEF Found
    <3>2. row'[o] = Found(o) /\ recorded'[o] = traded[o] /\ Live(o)
      BY <2>1, <2>4
    <3> QED BY <2>6, <3>1, <3>2 DEF SettlesOne
  <2>5. CASE o \notin known \cup lost
    <3>1. row'[o] = row[o] /\ recorded'[o] = recorded[o]
      BY <2>1, <2>5
    <3> QED BY <2>2, <2>6, <3>1 DEF SettlesOne
  <2> QED BY <2>3, <2>4, <2>5
<1>2. row' \in [Orders -> {"none", "intent", "live", "unknown", "rejected", "canceled"}]
  <2>1. row' = [o \in Orders |-> row'[o]]
    BY DEF Read
  <2> QED BY <1>1, <2>1
<1>3. /\ order' = order /\ recorded' = [o \in Orders |-> recorded'[o]]
      /\ external' \subseteq Exits
  BY DEF Read, TypeOK, Exits
<1> QED BY <1>1, <1>2, <1>3 DEF Settles

(* So does leaving them alone.                                              *)
LEMMA NothingReadSettles ==
    ASSUME TypeOK, UNCHANGED <<entered, market, row, recorded, order>>, external' \subseteq Exits
    PROVE  Settles
BY DEF TypeOK, Settles, SettlesOne, market

(* And cancelling one, whatever comes back.                                 *)
LEMMA CancelSettles ==
    ASSUME TypeOK, NEW o, CancelAndRead(o), UNCHANGED entered
    PROVE  Settles
<1>1. traded' = traded
  BY DEF CancelAndRead
<1>2. CASE ~(Live(o) /\ o \notin Unsent)
  <2>1. UNCHANGED <<venue, ledger>>
    BY <1>2 DEF CancelAndRead
  <2>2. external' \subseteq Exits
    BY <2>1 DEF ledger, TypeOK, Exits
  <2> QED BY <1>1, <2>1, <2>2, NothingReadSettles DEF market, ledger
<1>3. CASE Live(o) /\ o \notin Unsent
  <2>1. venue' \in [Orders -> {"none", "working", "ended"}]
    BY DEF CancelAndRead, TypeOK
  <2>2. ASSUME NEW p \in Orders
        PROVE  /\ venue'[p] = venue[p] \/ (venue[p] = "working" /\ venue'[p] = "ended")
               /\ Live(p) \/ venue'[p] = venue[p]
    <3>1. CASE p = o
      BY <1>3, <3>1 DEF CancelAndRead, TypeOK
    <3>2. CASE p # o
      BY <3>2 DEF CancelAndRead, TypeOK
    <3> QED BY <3>1, <3>2
  <2>3. \/ Read({o}, {})
        \/ Read({o}, {o})
    BY <1>3 DEF CancelAndRead
  <2>4. \A p \in Orders : p \in {o} => Live(p)
    BY <1>3
  <2>5. CASE Read({o}, {})
    <3>1. \A p \in Orders : p \in {o} \cup {} => Live(p)
      BY <2>4
    <3> QED BY <1>1, <2>1, <2>2, <2>5, <3>1, ReadSettles
  <2>6. CASE Read({o}, {o})
    <3>1. \A p \in Orders : p \in {o} \cup {o} => Live(p)
      BY <2>4
    <3> QED BY <1>1, <2>1, <2>2, <2>6, <3>1, ReadSettles
  <2> QED BY <2>3, <2>5, <2>6
<1> QED BY <1>2, <1>3

-----------------------------------------------------------------------------
(* What the manager reads and plans is typed.                               *)

Managers == [known : BOOLEAN, accepted : Level, requested : Level, position : Nat]

LEMMA LevelFinite == Level \in SUBSET Nat /\ IsFiniteSet(Level)
<1>1. IsFiniteSet(Levels) /\ Levels \subseteq Nat
  BY ProtectiveStopsAssumption
<1>2. IsFiniteSet({0})
  BY FS_Singleton
<1>3. IsFiniteSet(Levels \cup {0})
  BY <1>1, <1>2, FS_Union
<1> QED BY <1>1, <1>3 DEF Level

(* The tightest of levels is one of them, or none.                          *)
LEMMA TopTyped ==
    ASSUME NEW S \in SUBSET Level
    PROVE  Top(S) \in Level
<1>1. Level \in SUBSET Nat /\ IsFiniteSet(Level)
  BY LevelFinite
<1>2. S \cup {0} \in SUBSET Nat /\ S \cup {0} \in SUBSET Level /\ S \cup {0} # {}
  BY <1>1 DEF Level
<1>3. IsFiniteSet(S \cup {0})
  BY <1>1, <1>2, FS_Subset
<1> QED BY <1>2, <1>3, Largest DEF Top

LEMMA LevelsTyped ==
    ASSUME TypeOK, NEW S \in SUBSET Orders
    PROVE  LevelsOf(S) \in SUBSET Level
BY DEF TypeOK, LevelsOf

(* What is left to protect is not negative.                                 *)
LEMMA AvailableNat ==
    ASSUME TypeOK
    PROVE  Available \in Nat
<1> DEFINE under == {o \in Exits : Live(o)}
<1>1. IsFiniteSet(Units(Asked, under))
  <2>1. under \in SUBSET Orders
    BY DEF Orders
  <2> QED BY <2>1, QuantityTypes, QuantityFinite
<1>2. Outstanding(under) \in Nat
  BY <1>1, FS_Subset, CardinalityNat DEF Outstanding
<1> QED BY <1>2 DEF Available, TypeOK

(* The first of some stops, or of some exits, is one of them.               *)
LEMMA FirstOf ==
    ASSUME NEW S, S \subseteq Stops \/ S \subseteq Exits, S # {}
    PROVE  First(S) \in S
<1> DEFINE numbers == {o[2] : o \in S}
<1>1. numbers \in SUBSET Nat /\ numbers # {}
  <2>1. ASSUME NEW o \in S PROVE o[2] \in Nat
    <3>1. o \in Stops \/ o \in Exits
      BY <2>1
    <3>2. o[2] \in 1 .. MaxStops \/ o[2] \in 1 .. MaxExits
      BY <3>1 DEF Stops, Exits
    <3> QED BY <3>2
  <2> QED BY <2>1
<1>2. PICK m \in numbers : \A n \in numbers : m <= n
  <2> HIDE DEF numbers
  <2> QED BY <1>1, Smallest
<1>3. PICK o \in S : m = o[2]
  BY <1>2
<1>4. \A p \in S : o[2] <= p[2]
  BY <1>2, <1>3
<1> QED BY <1>4 DEF First

(* One stop is the tightest, the first placed of those.                     *)
LEMMA TightestOf ==
    ASSUME TypeOK, LiveStops # {}
    PROVE  \E o \in LiveStops : \A p \in LiveStops :
             order[p].level < order[o].level \/ (order[p].level = order[o].level /\ o[2] <= p[2])
<1>1. LiveStops \in SUBSET Orders /\ LiveStops \in SUBSET Stops
  BY DEF LiveStops, Orders
<1>2. Level \in SUBSET Nat /\ IsFiniteSet(Level)
  BY LevelFinite
<1>3. LevelsOf(LiveStops) \in SUBSET Level
  BY <1>1, LevelsTyped
<1> DEFINE levels == LevelsOf(LiveStops)
<1>4. levels \in SUBSET Nat /\ IsFiniteSet(levels) /\ levels # {}
  <2>1. levels # {}
    BY DEF LevelsOf
  <2>2. IsFiniteSet(levels)
    BY <1>2, <1>3, FS_Subset
  <2> QED BY <1>2, <1>3, <2>1, <2>2
<1>5. Max(levels) \in levels /\ \A n \in levels : n <= Max(levels)
  <2> HIDE DEF levels
  <2> QED BY <1>4, Largest
<1> DEFINE best == {o \in LiveStops : order[o].level = Max(levels)}
<1>6. best \in SUBSET Stops /\ best # {}
  BY <1>1, <1>5 DEF LevelsOf
<1>7. First(best) \in best
  <2> HIDE DEF best
  <2> QED BY <1>6, FirstOf
<1>8. \A p \in best : First(best)[2] <= p[2]
  <2> DEFINE numbers == {o[2] : o \in best}
  <2>1. numbers \in SUBSET Nat /\ numbers # {}
    <3>1. ASSUME NEW o \in best PROVE o[2] \in Nat
      BY <1>6, ProtectiveStopsAssumption DEF Stops
    <3> QED BY <1>6, <3>1
  <2>2. PICK m \in numbers : \A n \in numbers : m <= n
    <3> HIDE DEF numbers
    <3> QED BY <2>1, Smallest
  <2>3. PICK o \in best : m = o[2]
    BY <2>2
  <2>4. \A p \in best : o[2] <= p[2]
    BY <2>2, <2>3
  <2> HIDE DEF best
  <2> QED BY <2>4 DEF First
<1>9. ASSUME NEW p \in LiveStops
      PROVE  \/ order[p].level < order[First(best)].level
             \/ order[p].level = order[First(best)].level /\ First(best)[2] <= p[2]
  <2>1. order[p].level \in levels /\ order[First(best)].level = Max(levels)
    BY <1>7 DEF LevelsOf
  <2>2. order[p].level <= Max(levels) /\ order[p].level \in Nat /\ Max(levels) \in Nat
    BY <1>4, <1>5, <2>1
  <2>3. CASE order[p].level = Max(levels)
    BY <1>8, <2>1, <2>3
  <2>4. CASE order[p].level # Max(levels)
    BY <2>1, <2>2, <2>4
  <2> QED BY <2>3, <2>4
<1> QED BY <1>7, <1>9

(* As many cancellations as there are orders, each of one of them.          *)
LEMMA CancelsTyped ==
    ASSUME NEW S \in SUBSET Stops
    PROVE  Cancels(S) \in Seq(Intent)
<1> DEFINE size == Cardinality(S)
           Before(o) == {p \in S : p[2] < o[2]}
           place == [o \in S |-> Cardinality(Before(o))]
<1>1. IsFiniteSet(S) /\ size \in Nat
  BY OrdersFinite, FS_Subset, CardinalityNat
<1>2. ASSUME NEW o \in S PROVE o[2] \in Nat /\ o = <<"stop", o[2]>>
  BY ProtectiveStopsAssumption DEF Stops
<1>3. ASSUME NEW o \in S
      PROVE  /\ IsFiniteSet(Before(o)) /\ Cardinality(Before(o)) \in 0 .. size - 1
  <2>1. IsFiniteSet(Before(o)) /\ Cardinality(Before(o)) \in Nat
    BY <1>1, FS_Subset, CardinalityNat
  <2>2. o \notin Before(o)
    BY <1>2
  <2>3. Before(o) \cup {o} \subseteq S
    BY <1>3
  <2>4. Cardinality(Before(o) \cup {o}) = Cardinality(Before(o)) + 1
    <3> HIDE DEF Before
    <3> QED BY <2>1, <2>2, FS_AddElement
  <2>5. Cardinality(Before(o) \cup {o}) <= size
    BY <1>1, <2>3, FS_Subset
  <2> QED BY <1>1, <2>1, <2>4, <2>5
<1>4. ASSUME NEW o \in S, NEW p \in S, o[2] < p[2]
      PROVE  Cardinality(Before(o)) < Cardinality(Before(p))
  <2>1. Before(o) \cup {o} \subseteq Before(p)
    <3>1. ASSUME NEW r \in Before(o) PROVE r \in Before(p)
      <4>1. r \in S /\ r[2] < o[2] /\ r[2] \in Nat /\ o[2] \in Nat /\ p[2] \in Nat
        BY <1>2, <1>4
      <4> QED BY <1>4, <4>1
    <3> QED BY <1>4, <3>1
  <2>2. o \notin Before(o)
    BY <1>2, <1>4
  <2>3. IsFiniteSet(Before(o)) /\ IsFiniteSet(Before(p))
        /\ Cardinality(Before(o)) \in Nat /\ Cardinality(Before(p)) \in Nat
    BY <1>3, CardinalityNat
  <2> HIDE DEF Before
  <2>4. Cardinality(Before(o) \cup {o}) = Cardinality(Before(o)) + 1
    BY <2>2, <2>3, FS_AddElement
  <2>5. Cardinality(Before(o) \cup {o}) <= Cardinality(Before(p))
    BY <2>1, <2>3, FS_Subset
  <2> QED BY <2>3, <2>4, <2>5
<1>5. ASSUME NEW n \in 1 .. size
      PROVE  \E o \in S : Cardinality(Before(o)) = n - 1
  <2>1. SUFFICES ASSUME \A o \in S : Cardinality(Before(o)) # n - 1 PROVE FALSE
    OBVIOUS
  <2> DEFINE others == (0 .. size - 1) \ {n - 1}
  <2>2. place \in [S -> others]
    BY <1>3, <2>1
  <2>3. IsFiniteSet(others) /\ Cardinality(others) < size
    <3>1. IsFiniteSet(0 .. size - 1) /\ Cardinality(0 .. size - 1) = size
      <4> HIDE DEF size
      <4>1. size - 1 \in Int /\ ~(0 > size - 1) /\ size - 1 - 0 + 1 = size
        BY <1>1, <1>5
      <4> QED BY <4>1, FS_Interval
    <3>2. n - 1 \in 0 .. size - 1
      BY <1>1, <1>5
    <3>3. IsFiniteSet(others) /\ Cardinality(others) = size - 1
      <4> DEFINE whole == 0 .. size - 1
      <4>1. IsFiniteSet(whole) /\ Cardinality(whole) = size /\ n - 1 \in whole
        BY <3>1, <3>2
      <4> HIDE DEF whole
      <4>2. IsFiniteSet(whole \ {n - 1}) /\ Cardinality(whole \ {n - 1}) = Cardinality(whole) - 1
        BY <4>1, FS_RemoveElement
      <4> QED BY <4>1, <4>2 DEF whole
    <3> QED BY <1>1, <3>3
  <2>4. PICK o \in S, p \in S : o # p /\ place[o] = place[p]
    <3> HIDE DEF others, place
    <3>1. Cardinality(others) < Cardinality(S)
      BY <2>3
    <3> QED BY <1>1, <2>2, <2>3, <3>1, FS_PigeonHole, Zenon
  <2>5. Cardinality(Before(o)) = Cardinality(Before(p))
        /\ Cardinality(Before(o)) \in Int
    <3> HIDE DEF Before
    <3>1. Cardinality(Before(o)) = Cardinality(Before(p))
      BY <2>4
    <3>2. Cardinality(Before(o)) \in 0 .. size - 1
      BY <1>3
    <3> QED BY <1>1, <3>1, <3>2
  <2>6. o[2] < p[2] \/ p[2] < o[2]
    <3>1. o[2] \in Nat /\ p[2] \in Nat
      BY <1>2
    <3>2. o[2] # p[2]
      BY <1>2, <2>4
    <3> QED BY <3>1, <3>2
  <2> HIDE DEF Before
  <2> QED BY <1>4, <2>5, <2>6
<1>6. ASSUME NEW n \in 1 .. size
      PROVE  Cancel(CHOOSE o \in S : Cardinality(Before(o)) = n - 1) \in Intent
  <2>1. (CHOOSE o \in S : Cardinality(Before(o)) = n - 1) \in S
    BY <1>5
  <2> DEFINE o == CHOOSE o \in S : Cardinality(Before(o)) = n - 1
  <2>2. o \in Stops
    BY <2>1
  <2> HIDE DEF o
  <2>3. Cancel(o) \in Intent
    BY <2>2 DEF Cancel, Intent, Level
  <2> QED BY <2>3 DEF o
<1>7. Cancels(S) = [n \in 1 .. size |-> Cancel(CHOOSE o \in S : Cardinality(Before(o)) = n - 1)]
  BY DEF Cancels
<1> HIDE DEF size, Before
<1>8. Cancels(S) \in [1 .. size -> Intent]
  BY <1>6, <1>7
<1> QED BY <1>1, <1>8

LEMMA SeqIntent ==
    ASSUME NEW s \in Seq(Intent), NEW i \in Intent
    PROVE  <<i>> \in Seq(Intent) /\ s \o <<i>> \in Seq(Intent)
OBVIOUS

(* An evaluation plans proper intents and leaves a proper manager.          *)
LEMMA EvaluateTyped ==
    ASSUME TypeOK, NEW m \in Managers
    PROVE  Evaluate(m).plan \in Seq(Intent) /\ Evaluate(m).manager \in Managers
<1> DEFINE stale == {o \in LiveStops : order[o].position # opened}
           surviving == LiveStops \ stale
           target == Ratchet(m, IF stale # {} THEN surviving ELSE LiveStops)
           tightest == CHOOSE o \in LiveStops :
                         \A p \in LiveStops : order[p].level < order[o].level
                                              \/ (order[p].level = order[o].level /\ o[2] <= p[2])
           duplicates == Cancels(LiveStops \ {tightest})
           ask(plan) == [plan |-> plan, manager |-> [m EXCEPT !.requested = target]]
           only(plan) == [plan |-> plan, manager |-> m]
           lone == CHOOSE o \in stale : TRUE
           all == Cancels(LiveStops \cup Indeterminate)
           held0 == [plan |-> all, manager |-> [NoManager EXCEPT !.known = TRUE]]
           kept == [plan |-> duplicates, manager |-> [m EXCEPT !.accepted = order[tightest].level]]
<1>1. LiveStops \in SUBSET Stops /\ stale \in SUBSET Stops /\ surviving \in SUBSET Stops
      /\ Indeterminate \in SUBSET Stops /\ Stops \subseteq Orders
  BY DEF LiveStops, Indeterminate, Orders
<1>2. target \in Level
  <2> DEFINE T == IF stale # {} THEN surviving ELSE LiveStops
  <2>1. T \in SUBSET Orders
    BY <1>1
  <2> HIDE DEF T
  <2>2. LevelsOf(T) \in SUBSET Level
    BY <2>1, LevelsTyped
  <2>3. {desired, m.accepted, m.requested} \cup LevelsOf(T) \in SUBSET Level
    BY <2>2 DEF TypeOK, Managers
  <2>4. Ratchet(m, T) \in Level
    BY <2>3, TopTyped DEF Ratchet
  <2> QED BY <2>4 DEF T
<1>3. LiveStops # {} => tightest \in LiveStops
  BY TightestOf
<1>4. stale # {} => lone \in stale
  OBVIOUS
<1>5. all \in Seq(Intent) /\ duplicates \in Seq(Intent) /\ Cancels(stale) \in Seq(Intent)
  <2>1. LiveStops \cup Indeterminate \in SUBSET Stops /\ LiveStops \ {tightest} \in SUBSET Stops
    BY <1>1
  <2> HIDE DEF tightest, stale
  <2> QED BY <1>1, <2>1, CancelsTyped
<1>6. Flatten \in Intent
  BY AvailableNat DEF Flatten, Intent, Level, TypeOK
<1>7. ASSUME NEW a \in {"place", "replace"}, NEW o \in Stops \cup {NoOrder}
      PROVE  Stop(a, o, target) \in Intent
  <2> HIDE DEF target
  <2> QED BY <1>2, AvailableNat DEF Stop, Intent, TypeOK
<1>8. [m EXCEPT !.requested = target] \in Managers
  <2> HIDE DEF target
  <2> QED BY <1>2 DEF Managers
<1>9. tightest \in LiveStops => [m EXCEPT !.accepted = order[tightest].level] \in Managers
  <2> HIDE DEF tightest
  <2> QED BY <1>1 DEF Managers, TypeOK
<1>10. [NoManager EXCEPT !.known = TRUE] \in Managers
  BY DEF Managers, NoManager, Level
<1>11. \/ Evaluate(m) = held0
       \/ Evaluate(m) = only(all)
       \/ Evaluate(m) = only(<<Flatten>>)
       \/ stale # {} /\ Evaluate(m) = ask(<<Stop("replace", lone, target)>>)
       \/ Evaluate(m) = only(Cancels(stale))
       \/ Evaluate(m) = ask(<<Stop("place", NoOrder, target)>>)
       \/ LiveStops # {} /\ Evaluate(m) = ask(duplicates \o <<Stop("replace", tightest, target)>>)
       \/ LiveStops # {} /\ Evaluate(m) = kept
  <2>1. CASE held = 0
    BY <2>1 DEF Evaluate
  <2>2. CASE held > 0 /\ Available = 0
    <3>1. held # 0
      BY <2>2
    <3> QED BY <2>2, <3>1 DEF Evaluate
  <2>3. CASE ~(held = 0) /\ ~(held > 0 /\ Available = 0)
    BY <2>3 DEF Evaluate
  <2> QED BY <2>1, <2>2, <2>3
<1> DEFINE place == Stop("place", NoOrder, target)
           move == Stop("replace", tightest, target)
           swap == Stop("replace", lone, target)
           asked == [m EXCEPT !.requested = target]
           taken == [m EXCEPT !.accepted = order[tightest].level]
           fresh == [NoManager EXCEPT !.known = TRUE]
<1>12. place \in Intent /\ (LiveStops # {} => move \in Intent) /\ (stale # {} => swap \in Intent)
  <2>1. NoOrder \in Stops \cup {NoOrder}
    OBVIOUS
  <2> HIDE DEF stale, tightest, lone, target
  <2> QED BY <1>1, <1>3, <1>4, <1>7, <2>1
<1>13. LiveStops # {} => duplicates \o <<move>> \in Seq(Intent)
  <2> HIDE DEF duplicates, move
  <2> QED BY <1>5, <1>12, SeqIntent
<1>14. <<Flatten>> \in Seq(Intent) /\ <<place>> \in Seq(Intent)
       /\ (stale # {} => <<swap>> \in Seq(Intent))
  <2> HIDE DEF place, swap, stale
  <2> QED BY <1>6, <1>12
<1>15. /\ held0 = [plan |-> all, manager |-> fresh]
       /\ kept = [plan |-> duplicates, manager |-> taken]
       /\ \A plan : /\ ask(plan) = [plan |-> plan, manager |-> asked]
                    /\ only(plan) = [plan |-> plan, manager |-> m]
  OBVIOUS
<1>16. asked \in Managers /\ fresh \in Managers /\ (LiveStops # {} => taken \in Managers)
  <2> HIDE DEF tightest, target
  <2> QED BY <1>3, <1>8, <1>9, <1>10
<1> HIDE DEF stale, held0, kept, ask, only, all, duplicates, asked, taken, fresh, place, move, swap
<1>17. \E p \in Seq(Intent), n \in Managers : Evaluate(m) = [plan |-> p, manager |-> n]
  BY <1>5, <1>11, <1>13, <1>14, <1>15, <1>16 DEF place, move, swap
<1> QED BY <1>17

-----------------------------------------------------------------------------
(* Each step keeps the invariant.                                           *)

(* TypeOK in two halves: what the tick keeps, and LedgerTyped.              *)
ControlTyped ==
    /\ entered \in 0 .. Len(Entries)
    /\ held \in Nat /\ opened \in 0 .. Len(Entries) /\ late \in BOOLEAN
    /\ manager \in Managers
    /\ desired \in Level
    /\ pc \in {"idle", "recover", "external", "protect", "apply", "resync", "place", "send",
               "answer", "exit", "clear", "sell", "after"}
    /\ intents \in Seq(Intent)
    /\ current \in Orders \cup {NoOrder} /\ own \subseteq Orders /\ todo \subseteq Orders
    /\ degraded \in BOOLEAN /\ faults \in 0 .. MaxFaults

LEMMA Parts == TypeOK <=> LedgerTyped /\ ControlTyped
BY DEF TypeOK, LedgerTyped, ControlTyped, Managers

LEMMA PartsNext ==
    ASSUME LedgerTyped', ControlTyped', Rows', Backed', Sending', Planned'
    PROVE  IInv'
<1>1. TypeOK'
  BY DEF TypeOK, LedgerTyped, ControlTyped, Managers
<1> QED BY <1>1 DEF IInv

LEMMA FaultTyped ==
    ASSUME ControlTyped, Fault \/ UNCHANGED faults
    PROVE  faults' \in 0 .. MaxFaults
BY ProtectiveStopsAssumption DEF ControlTyped, Fault

LEMMA SyncedTyped ==
    ASSUME IInv, Synced \/ UNCHANGED held
    PROVE  held' \in Nat
BY Positions DEF IInv, TypeOK, Synced

(* Dropping an intent goes back to the plan.                                *)
LEMMA DropEnds ==
    ASSUME ControlTyped, NEW trouble \in BOOLEAN, Drop(trouble), intents # <<>>
    PROVE  /\ pc' = "apply" /\ intents' \in Seq(Intent)
           /\ current' \in Orders \cup {NoOrder} /\ own' \subseteq Orders /\ todo' \subseteq Orders
           /\ degraded' \in BOOLEAN
           /\ Sending'
BY DEF ControlTyped, Drop, Sending

(* Nothing but the engine's own state moves.                                *)
LEMMA StillKeeps ==
    ASSUME IInv, UNCHANGED <<account, market, row, recorded, order>>, external' \subseteq Exits
    PROVE  /\ LedgerTyped' /\ Rows' /\ Backed' /\ Settles
           /\ entered' \in 0 .. Len(Entries) /\ opened' \in 0 .. Len(Entries)
           /\ opened' <= entered'
<1>1. Settles
  BY NothingReadSettles DEF IInv, account
<1>2. LedgerTyped' /\ Rows' /\ Backed'
  BY <1>1, SettledKeeps DEF IInv
<1> QED BY <1>1, <1>2 DEF IInv, TypeOK, Planned, account

LEMMA LedgerStays ==
    ASSUME IInv, UNCHANGED ledger
    PROVE  UNCHANGED <<row, recorded, order>> /\ external' \subseteq Exits
BY DEF IInv, TypeOK, ledger, Exits

LEMMA SameCommitted ==
    ASSUME Committed' = Committed, UNCHANGED entered
    PROVE  /\ Cardinality(Units(Committed, Orders))' = Cardinality(Units(Committed, Orders))
           /\ Bought' = Bought
BY DEF Units, Orders, Stops, Exits, Bought

LEMMA SameOutstanding ==
    ASSUME UNCHANGED ledger
    PROVE  OutstandingExits' = OutstandingExits
BY DEF ledger, OutstandingExits, Outstanding, Units, Asked, Live, Orders, Stops, Exits

(* A unit the venue sells was committed.                                    *)
LEMMA VenueTradesKeeps ==
    ASSUME IInv, NEW o \in Orders, VenueTrades(o)
    PROVE  IInv'
<1>1. ControlTyped' /\ Planned'
  BY Parts DEF IInv, ControlTyped, VenueTrades, account, control, Planned, Managers
<1>2. order' = order /\ row' = row /\ recorded' = recorded /\ UNCHANGED ledger
  BY DEF VenueTrades, ledger
<1>3. traded[o] \in Nat /\ traded[o] < order[o].qty /\ order[o].qty \in Nat /\ venue[o] = "working"
  BY QuantityTypes DEF IInv, Rows, VenueTrades
<1>4. ASSUME NEW p \in Orders
      PROVE  /\ recorded'[p] <= traded'[p] /\ traded'[p] <= order'[p].qty /\ traded'[p] \in Nat
             /\ venue'[p] \in {"none", "working", "ended"}
             /\ Committed'[p] = Committed[p]
             /\ row'[p] = "none" => venue'[p] = "none" /\ recorded'[p] = 0
             /\ row'[p] \in {"intent", "rejected"} => venue'[p] = "none"
             /\ row'[p] \in {"live", "canceled"} => venue'[p] # "none"
             /\ venue'[p] = "none" => traded'[p] = 0
             /\ venue'[p] = "working" => traded'[p] < order'[p].qty
             /\ ~(row'[p] \in {"intent", "live", "unknown"}) => venue'[p] # "working" /\ recorded'[p] = traded'[p]
             /\ venue[p] = "none" => venue'[p] = "none"
  <2>0. /\ traded[p] \in Nat /\ recorded[p] \in Nat /\ order[p].qty \in Nat
        /\ recorded[p] <= traded[p] /\ traded[p] <= order[p].qty
    BY DEF IInv, TypeOK
  <2>1. CASE p # o
    <3>1. traded'[p] = traded[p] /\ venue'[p] = venue[p]
      BY <2>1 DEF VenueTrades, IInv, TypeOK
    <3>2. Committed'[p] = Committed[p]
      BY <1>2, <3>1 DEF Committed
    <3>3. /\ row[p] = "none" => venue[p] = "none" /\ recorded[p] = 0
          /\ row[p] \in {"intent", "rejected"} => venue[p] = "none"
          /\ row[p] \in {"live", "canceled"} => venue[p] # "none"
          /\ venue[p] = "none" => traded[p] = 0
          /\ venue[p] = "working" => traded[p] < order[p].qty
          /\ ~(row[p] \in {"intent", "live", "unknown"}) => venue[p] # "working" /\ recorded[p] = traded[p]
          /\ venue[p] \in {"none", "working", "ended"}
      BY DEF IInv, TypeOK, Rows, Live
    <3> QED BY <1>2, <2>0, <3>1, <3>2, <3>3
  <2>2. CASE p = o
    <3>1. traded'[p] = traded[p] + 1
          /\ venue'[p] = IF traded[p] + 1 = order[p].qty THEN "ended" ELSE "working"
      BY <1>3, <2>2 DEF VenueTrades, IInv, TypeOK
    <3>2. Committed'[p] = IF traded[p] + 1 = order[p].qty THEN traded[p] + 1 ELSE order[p].qty
      BY <1>2, <3>1 DEF Committed
    <3>3. Committed[p] = order[p].qty
      BY <1>3, <2>2 DEF Committed
    <3>4. row[p] \in {"live", "unknown"}
      BY <1>3, <2>2 DEF IInv, Rows, Live
    <3>5. /\ recorded'[p] = recorded[p] /\ order'[p] = order[p] /\ row'[p] = row[p]
          /\ traded[p] < order[p].qty /\ venue[p] = "working"
      BY <1>2, <1>3, <2>2
    <3>6. Committed'[p] = Committed[p]
      BY <2>0, <3>2, <3>3
    <3>7. /\ recorded'[p] <= traded'[p] /\ traded'[p] <= order'[p].qty /\ traded'[p] \in Nat
          /\ venue'[p] = "working" => traded'[p] < order'[p].qty
      BY <2>0, <3>1, <3>5
    <3>8. venue'[p] \in {"working", "ended"}
      BY <3>1
    <3> QED BY <3>4, <3>5, <3>6, <3>7, <3>8
  <2> QED BY <2>1, <2>2
<1>5. LedgerTyped'
  <2>1. traded' = [p \in Orders |-> traded'[p]] /\ venue' = [p \in Orders |-> venue'[p]]
    BY DEF VenueTrades, IInv, TypeOK
  <2>2. external' \subseteq Exits
    BY <1>2 DEF ledger, IInv, TypeOK, Exits
  <2> QED BY <1>2, <1>4, <2>1, <2>2 DEF LedgerTyped, IInv, TypeOK
<1>6. Rows'
  BY <1>4 DEF Rows, Live
<1>7. Committed' = Committed /\ entered' = entered
  BY <1>4 DEF Committed, VenueTrades, account
<1>8. Backed'
  BY <1>7, SameCommitted DEF IInv, Backed
<1>9. Sending'
  <2>1. pc' = pc /\ current' = current /\ held' = held
    BY DEF VenueTrades, control
  <2>2. OutstandingExits' = OutstandingExits
    BY <1>2, SameOutstanding
  <2> QED BY <1>2, <1>4, <1>7, <2>1, <2>2, SameCommitted DEF IInv, Sending
<1> QED BY <1>1, <1>5, <1>6, <1>8, <1>9, PartsNext

LEMMA StrategyMovesKeeps ==
    ASSUME IInv, StrategyMoves
    PROVE  IInv'
<1>1. LedgerTyped' /\ Rows' /\ Backed'
  BY LedgerStays, StillKeeps DEF StrategyMoves
<1>2. ControlTyped' /\ Planned' /\ Sending'
  BY Parts DEF IInv, ControlTyped, StrategyMoves, account, control, Planned, Sending
<1> QED BY <1>1, <1>2, PartsNext

LEMMA EnterKeeps ==
    ASSUME IInv, Enter
    PROVE  IInv'
<1>2. UNCHANGED <<market, ledger, manager, desired, control>> /\ pc = "after"
  BY DEF Enter
<1>3. LedgerTyped' /\ Rows'
  BY <1>2 DEF IInv, TypeOK, LedgerTyped, Rows, Live, market, ledger, Exits, Orders, Stops
<1>4. Entries[entered + 1] \in Nat /\ entered' \in 0 .. Len(Entries) /\ entered \in Nat
      /\ entered' = entered + 1
  <2>1. Entries \in Seq(Nat \ {0}) /\ entered \in 0 .. Len(Entries) /\ entered < Len(Entries)
    BY ProtectiveStopsAssumption DEF Enter, IInv, TypeOK
  <2> QED BY <2>1 DEF Enter
<1>5. Bought \in Nat /\ Bought' \in Nat /\ Bought <= Bought'
  <2>1. Units(Entries, 1 .. entered) \subseteq Units(Entries, 1 .. entered')
    BY <1>4 DEF Units
  <2>2. IsFiniteSet(Units(Entries, 1 .. entered'))
    BY <1>4, BoughtNat
  <2>3. Bought' = Cardinality(Units(Entries, 1 .. entered'))
    BY DEF Bought, Units
  <2> QED BY <2>1, <2>2, <2>3, NoMoreUnits DEF Bought
<1>6. Backed'
  <2>1. Committed' = Committed
    BY <1>2 DEF Committed, market, ledger
  <2>2. Cardinality(Units(Committed, Orders))' = Cardinality(Units(Committed, Orders))
    BY <2>1 DEF Units, Orders, Stops, Exits
  <2> QED BY <1>5, <2>2, QuantityTypes DEF IInv, Backed
<1>7. held' \in Nat /\ faults' \in 0 .. MaxFaults
  <2>1. VenuePosition' \in Nat
    <3>1. VenuePosition' = Bought' - Cardinality(Units(traded, Orders))
      BY <1>2 DEF VenuePosition, market, Units, Orders, Stops, Exits
    <3>2. VenuePosition \in Nat /\ VenuePosition = Bought - Cardinality(Units(traded, Orders))
      BY Positions DEF IInv
    <3>3. Cardinality(Units(traded, Orders)) \in Nat
      BY QuantityTypes DEF IInv
    <3> QED BY <1>5, <3>1, <3>2, <3>3
  <2>2. held' = VenuePosition' \/ held' = held
    BY DEF Enter
  <2>3. held' \in Nat
    BY <2>1, <2>2 DEF IInv, TypeOK
  <2>4. Fault \/ UNCHANGED faults
    BY DEF Enter
  <2> QED BY <2>3, <2>4, FaultTyped, Parts DEF IInv
<1>8. late' \in BOOLEAN
  BY Zenon DEF Enter
<1>9. opened' \in 0 .. Len(Entries) /\ opened' <= entered'
  <2>1. opened' \in {opened, opened + 1} /\ opened \in Nat /\ opened <= entered
    BY DEF IInv, TypeOK, Planned, Enter
  <2>2. opened' \in Nat /\ opened' <= entered'
    BY <1>4, <2>1
  <2> QED BY <1>4, <2>2
<1>10. ControlTyped' /\ Planned' /\ Sending'
  BY <1>2, <1>4, <1>7, <1>8, <1>9, Parts DEF IInv, ControlTyped, control, Planned, Sending
<1> QED BY <1>3, <1>6, <1>10, PartsNext

(* What a tick finds unowned decides where it goes on.                      *)
LEMMA SecureTyped ==
    ASSUME IInv, NEW unowned, Secure(unowned)
    PROVE  /\ pc' \in {"external", "protect"} /\ UNCHANGED <<intents, current, own, todo, degraded>>
           /\ external' \subseteq Exits
<1>1. external' \in {external, {}}
  BY DEF Secure
<1>2. external \subseteq Exits
  BY DEF IInv, TypeOK
<1>3. external' \subseteq Exits
  BY <1>1, <1>2 DEF Exits
<1>4. pc' \in {"external", "protect"} /\ UNCHANGED <<intents, current, own, todo, degraded>>
  BY DEF Secure, Goto
<1> QED BY <1>3, <1>4

LEMMA StartTickKeeps ==
    ASSUME IInv, NEW due \in BOOLEAN, StartTick(due)
    PROVE  IInv'
<1>1. /\ UNCHANGED <<account, market, row, recorded, order, manager, desired>>
      /\ Synced \/ UNCHANGED held
      /\ Fault \/ UNCHANGED faults
      /\ pc = "idle"
  BY DEF StartTick
<1>2. /\ pc' \in {"idle", "recover", "external", "protect"}
      /\ UNCHANGED <<intents, current, own, todo, degraded>>
      /\ external' \subseteq Exits
  <2>1. CASE Goto("recover") /\ UNCHANGED external
    BY <2>1 DEF Goto, IInv, TypeOK, Exits
  <2>2. CASE Secure(Unowned')
    BY <2>2, SecureTyped
  <2>3. CASE UNCHANGED <<external, control>>
    BY <1>1, <2>3 DEF control, IInv, TypeOK, Exits
  <2>4. \/ Goto("recover") /\ UNCHANGED external
        \/ Secure(Unowned')
        \/ UNCHANGED <<external, control>>
    BY DEF StartTick
  <2> QED BY <2>1, <2>2, <2>3, <2>4
<1>3. LedgerTyped' /\ Rows' /\ Backed'
  BY <1>1, <1>2, StillKeeps
<1>4. held' \in Nat /\ faults' \in 0 .. MaxFaults
  BY <1>1, SyncedTyped, FaultTyped, Parts DEF IInv
<1>5. ControlTyped' /\ Planned' /\ Sending'
  BY <1>1, <1>2, <1>4, Parts DEF IInv, ControlTyped, account, Planned, Sending
<1> QED BY <1>3, <1>5, PartsNext

LEMMA RecoverSettles ==
    ASSUME IInv, NEW expired \in SUBSET Unsent, Recover(expired)
    PROVE  /\ Settles /\ UNCHANGED <<account, manager, desired, intents, current, own, todo, degraded>>
           /\ pc' \in {"external", "protect"}
           /\ Synced \/ UNCHANGED held
           /\ Fault \/ UNCHANGED faults
<1> DEFINE read == {o \in Orders : Live(o)} \ Unsent
<1>1. PICK lost \in {{}} \cup {{o} : o \in read} :
         /\ IF lost = {} THEN UNCHANGED faults ELSE Fault
         /\ row' = [o \in Orders |->
                      IF o \in expired THEN "rejected"
                      ELSE IF o \in lost THEN "unknown"
                      ELSE IF o \in read THEN Found(o) ELSE row[o]]
         /\ recorded' = [o \in Orders |-> IF o \in read \ lost THEN traded[o] ELSE recorded[o]]
         /\ UNCHANGED order
  BY DEF Recover
<1>2. UNCHANGED <<account, venue, traded, manager, desired>>
      /\ (Synced \/ UNCHANGED held)
      /\ (Secure(Unowned) \/ Secure(Unowned'))
  BY DEF Recover, market
<1>3. /\ pc' \in {"external", "protect"} /\ UNCHANGED <<intents, current, own, todo, degraded>>
      /\ external' \subseteq Exits
  BY <1>2, SecureTyped
<1>4. ASSUME NEW o \in Orders
      PROVE  /\ row'[o] \in {"none", "intent", "live", "unknown", "rejected", "canceled"}
             /\ SettlesOne(o)
  <2>1. /\ venue'[o] = venue[o] /\ venue[o] \in {"none", "working", "ended"}
        /\ row[o] \in {"none", "intent", "live", "unknown", "rejected", "canceled"}
        /\ row[o] = "intent" => venue[o] = "none" /\ traded[o] = 0
        /\ recorded[o] \in Nat /\ traded[o] \in Nat /\ recorded[o] <= traded[o]
    BY <1>2 DEF IInv, TypeOK, Rows
  <2>2. CASE o \in expired
    <3>1. row[o] = "intent" /\ o \notin read
      BY <2>2 DEF Unsent
    <3>2. row'[o] = "rejected" /\ recorded'[o] = recorded[o] /\ Live(o)
      BY <1>1, <2>2, <3>1 DEF Live
    <3>3. recorded[o] = traded[o]
      BY <2>1, <3>1
    <3> QED BY <2>1, <3>1, <3>2, <3>3 DEF SettlesOne
  <2>3. CASE o \notin expired /\ o \in lost
    <3>1. o \in read /\ Live(o)
      BY <2>3
    <3>2. row'[o] = "unknown" /\ recorded'[o] = recorded[o]
      BY <1>1, <2>3
    <3> QED BY <2>1, <3>1, <3>2 DEF SettlesOne
  <2>4. CASE o \notin expired /\ o \notin lost /\ o \in read
    <3>1. row'[o] = Found(o) /\ recorded'[o] = traded[o] /\ Live(o)
      BY <1>1, <2>4
    <3>2. \/ venue'[o] = "none" /\ Found(o) = "unknown"
          \/ venue'[o] = "working" /\ Found(o) = "live"
          \/ venue'[o] = "ended" /\ Found(o) = "canceled"
      BY <2>1 DEF Found
    <3> QED BY <2>1, <3>1, <3>2 DEF SettlesOne
  <2>5. CASE o \notin expired /\ o \notin lost /\ o \notin read
    <3>1. row'[o] = row[o] /\ recorded'[o] = recorded[o]
      BY <1>1, <2>5
    <3> QED BY <2>1, <3>1 DEF SettlesOne
  <2> QED BY <2>2, <2>3, <2>4, <2>5
<1>5. Settles
  <2>1. row' = [o \in Orders |-> row'[o]] /\ recorded' = [o \in Orders |-> recorded'[o]]
    BY <1>1
  <2>2. row' \in [Orders -> {"none", "intent", "live", "unknown", "rejected", "canceled"}]
    BY <1>4, <2>1
  <2>3. UNCHANGED <<entered, traded, order, venue>>
    BY <1>1, <1>2 DEF account
  <2> QED BY <1>3, <1>4, <2>1, <2>2, <2>3 DEF Settles, IInv, TypeOK
<1>6. Fault \/ UNCHANGED faults
  BY <1>1
<1> QED BY <1>2, <1>3, <1>5, <1>6

LEMMA RecoverKeeps ==
    ASSUME IInv, NEW expired \in SUBSET Unsent, Recover(expired)
    PROVE  IInv'
<1>1. LedgerTyped' /\ Rows' /\ Backed'
  BY RecoverSettles, SettledKeeps DEF IInv
<1>2. held' \in Nat /\ faults' \in 0 .. MaxFaults
  BY RecoverSettles, SyncedTyped, FaultTyped, Parts DEF IInv
<1>3. UNCHANGED <<account, manager, desired, intents, current, own, todo, degraded>>
      /\ pc' \in {"external", "protect"}
  BY RecoverSettles
<1>4. ControlTyped' /\ Planned' /\ Sending'
  BY <1>2, <1>3, Parts DEF IInv, ControlTyped, account, Planned, Sending
<1> QED BY <1>1, <1>4, PartsNext

(* What an operator writes off is neither at the venue nor about to be.     *)
LEMMA ConfirmSettles ==
    ASSUME IInv, NEW o \in Orders, Confirm(o)
    PROVE  Settles
<1>1. /\ row[o] = "unknown" /\ venue[o] = "none" /\ row' = [row EXCEPT ![o] = "rejected"]
      /\ UNCHANGED <<entered, venue, traded, recorded, order, external>>
  BY DEF Confirm, account, market
<1>2. ASSUME NEW p \in Orders PROVE SettlesOne(p)
  <2>1. /\ venue'[p] = venue[p] /\ recorded'[p] = recorded[p]
        /\ row'[p] = IF p = o THEN "rejected" ELSE row[p]
    BY <1>1 DEF IInv, TypeOK
  <2>2. CASE p = o
    <3>1. recorded[p] \in Nat /\ recorded[p] <= traded[p] /\ traded[p] = 0
      BY <1>1, <2>2 DEF IInv, TypeOK, Rows
    <3>2. recorded[p] = traded[p]
      BY <3>1
    <3> QED BY <1>1, <2>1, <2>2, <3>2 DEF SettlesOne, Live
  <2>3. CASE p # o
    BY <2>1, <2>3 DEF SettlesOne
  <2> QED BY <2>2, <2>3
<1>3. /\ row' \in [Orders -> {"none", "intent", "live", "unknown", "rejected", "canceled"}]
      /\ external' \subseteq Exits
  BY <1>1 DEF IInv, TypeOK, Exits
<1> QED BY <1>1, <1>2, <1>3 DEF Settles, IInv, TypeOK

LEMMA ConfirmKeeps ==
    ASSUME IInv, NEW o \in Orders, Confirm(o)
    PROVE  IInv'
<1>1. LedgerTyped' /\ Rows' /\ Backed'
  BY ConfirmSettles, SettledKeeps DEF IInv
<1>2. UNCHANGED <<account, held, manager, desired, control, faults>> /\ pc = "idle"
  BY DEF Confirm
<1>3. ControlTyped' /\ Planned' /\ Sending'
  BY <1>2, Parts DEF IInv, ControlTyped, account, control, Planned, Sending
<1> QED BY <1>1, <1>3, PartsNext

LEMMA ProtectKeeps ==
    ASSUME IInv, Protect
    PROVE  IInv'
<1>1. LedgerTyped' /\ Rows' /\ Backed'
  BY LedgerStays, StillKeeps DEF Protect
<1>2. manager \in Managers /\ opened \in Nat
  BY Parts DEF IInv, ControlTyped
<1>3. Restored \in Managers
  <2>1. {o \in Stops : Confirmed(o) /\ order[o].position = opened} \in SUBSET Orders
    BY DEF Orders
  <2>2. Top(LevelsOf({o \in Stops : Confirmed(o) /\ order[o].position = opened})) \in Level
    BY <2>1, LevelsTyped, TopTyped DEF IInv
  <2> QED BY <1>2, <2>2 DEF Restored, Managers, Level
<1> DEFINE m == IF manager.known THEN manager ELSE Restored
           known == IF held > 0 THEN Remembered(m) ELSE m
           out == Evaluate(known)
<1>4. m \in Managers
  BY <1>2, <1>3
<1>5. known \in Managers
  <2> HIDE DEF m
  <2> QED BY <1>2, <1>4 DEF Remembered, Managers, NoManager, Level
<1>6. out.plan \in Seq(Intent) /\ out.manager \in Managers
  <2> HIDE DEF known
  <2> QED BY <1>5, EvaluateTyped DEF IInv
<1>7. \/ pc' = "after" /\ degraded' = TRUE /\ UNCHANGED <<manager, intents, current, own, todo>>
      \/ /\ manager' = out.manager /\ intents' = out.plan
         /\ pc' = "apply" /\ UNCHANGED <<current, own, todo, degraded>>
  BY DEF Protect
<1> HIDE DEF out
<1>8. ControlTyped' /\ Planned' /\ Sending'
  BY <1>6, <1>7, Parts DEF IInv, ControlTyped, Protect, account, Planned, Sending
<1> QED BY <1>1, <1>8, PartsNext

(* The smaller and the larger of two numbers.                               *)
LEMMA MinMaxOf ==
    ASSUME NEW a \in Int, NEW b \in Int
    PROVE  /\ Min({a, b}) = IF a <= b THEN a ELSE b
           /\ Max({a, b}) = IF a <= b THEN b ELSE a
<1> DEFINE lo == IF a <= b THEN a ELSE b
           hi == IF a <= b THEN b ELSE a
<1>1. lo \in {a, b} /\ \A y \in {a, b} : lo =< y
  OBVIOUS
<1>2. \A x \in {a, b} : (\A y \in {a, b} : x =< y) => x = lo
  OBVIOUS
<1>3. hi \in {a, b} /\ \A y \in {a, b} : hi >= y
  OBVIOUS
<1>4. \A x \in {a, b} : (\A y \in {a, b} : x >= y) => x = hi
  OBVIOUS
<1> HIDE DEF lo, hi
<1>5. Min({a, b}) = lo
  BY <1>1, <1>2 DEF Min
<1>6. Max({a, b}) = hi
  BY <1>3, <1>4 DEF Max
<1> QED BY <1>5, <1>6 DEF lo, hi

(* What a placement may sell is backed with what is committed.              *)
LEMMA SellableFits ==
    ASSUME IInv, NEW q \in Nat
    PROVE  /\ Sellable(q) \in Nat
           /\ Sellable(q) # 0 => Sellable(q) <= held - OutstandingExits
<1> DEFINE h == held - OutstandingExits
<1>1. h \in Int
  BY OnOrder DEF IInv, TypeOK
<1> HIDE DEF h
<1>2. Min({q, h}) = IF q <= h THEN q ELSE h
  BY <1>1, MinMaxOf
<1>3. Min({q, h}) \in Int
  BY <1>1, <1>2
<1>4. Max({0, Min({q, h})}) = IF 0 <= Min({q, h}) THEN Min({q, h}) ELSE 0
  BY <1>3, MinMaxOf
<1>5. Sellable(q) = Max({0, Min({q, h})})
  BY DEF Sellable, h
<1>6. /\ Sellable(q) \in Nat
      /\ Sellable(q) # 0 => Sellable(q) <= h
  BY <1>1, <1>2, <1>3, <1>4, <1>5
<1> QED BY <1>6 DEF h

LEMMA HeadTyped ==
    ASSUME IInv, intents # <<>>
    PROVE  Head(intents) \in Intent
BY DEF IInv, TypeOK

(* A new row commits nothing yet.                                           *)
LEMMA CreateKeeps ==
    ASSUME IInv, NEW o \in Orders, row[o] = "none", NEW qty \in Nat \ {0}, NEW level \in Level,
           Create(o, qty, level), UNCHANGED <<account, market>>,
           Head(intents).action = "external" => o \in Exits
    PROVE  /\ LedgerTyped' /\ Rows' /\ Backed'
           /\ current' \in Orders /\ row'[current'] = "unknown" /\ venue'[current'] = "none"
           /\ order'[current'].qty = qty
           /\ Cardinality(Units(Committed, Orders))' = Cardinality(Units(Committed, Orders))
           /\ Bought' = Bought
<1>1. /\ row' = [row EXCEPT ![o] = "unknown"]
      /\ order' = [order EXCEPT ![o] = [qty |-> qty, level |-> level, position |-> opened]]
      /\ current' = o /\ recorded' = recorded
      /\ venue' = venue /\ traded' = traded /\ entered' = entered
  BY DEF Create, account, market
<1>2. venue[o] = "none" /\ recorded[o] = 0 /\ traded[o] = 0
  BY DEF IInv, Rows
<1>3. opened \in Nat
  BY DEF IInv, TypeOK
<1>4. LedgerTyped'
  <2>1. /\ order' \in [Orders -> [qty : Nat, level : Level, position : Nat]]
        /\ row' \in [Orders -> {"none", "intent", "live", "unknown", "rejected", "canceled"}]
    BY <1>1, <1>3 DEF IInv, TypeOK
  <2>2. ASSUME NEW p \in Orders
        PROVE  recorded'[p] <= traded'[p] /\ traded'[p] <= order'[p].qty
    <3>1. CASE p = o
      <4>1. order'[p].qty = qty /\ traded'[p] = 0 /\ recorded'[p] = 0
        BY <1>1, <1>2, <3>1 DEF IInv, TypeOK
      <4> QED BY <4>1
    <3>2. CASE p # o
      BY <1>1, <3>2 DEF IInv, TypeOK
    <3> QED BY <3>1, <3>2
  <2>3. external' \subseteq Exits
    BY DEF Create, IInv, TypeOK, Exits
  <2> QED BY <1>1, <2>1, <2>2, <2>3 DEF LedgerTyped, IInv, TypeOK
<1>5. Rows'
  <2>1. ASSUME NEW p \in Orders
        PROVE  /\ row'[p] = "none" => venue'[p] = "none" /\ recorded'[p] = 0
               /\ row'[p] \in {"intent", "rejected"} => venue'[p] = "none"
               /\ row'[p] \in {"live", "canceled"} => venue'[p] # "none"
               /\ venue'[p] = "none" => traded'[p] = 0
               /\ venue'[p] = "working" => traded'[p] < order'[p].qty
               /\ ~(row'[p] \in {"intent", "live", "unknown"}) => venue'[p] # "working" /\ recorded'[p] = traded'[p]
    <3>1. CASE p = o
      BY <1>1, <1>2, <3>1 DEF IInv, TypeOK
    <3>2. CASE p # o
      BY <1>1, <3>2 DEF IInv, TypeOK, Rows, Live
    <3> QED BY <3>1, <3>2
  <2> QED BY <2>1 DEF Rows, Live
<1>6. Committed' = Committed
  <2>1. ASSUME NEW p \in Orders PROVE Committed'[p] = Committed[p]
    <3>1. CASE p = o
      BY <1>1, <1>2, <3>1 DEF Committed
    <3>2. CASE p # o
      BY <1>1, <3>2 DEF Committed, IInv, TypeOK
    <3> QED BY <3>1, <3>2
  <2> QED BY <2>1 DEF Committed
<1>7. /\ Cardinality(Units(Committed, Orders))' = Cardinality(Units(Committed, Orders))
      /\ Bought' = Bought
  BY <1>1, <1>6, SameCommitted
<1>8. Backed'
  BY <1>7 DEF IInv, Backed
<1>9. order'[current'].qty = qty /\ row'[current'] = "unknown"
  BY <1>1 DEF IInv, TypeOK
<1> QED BY <1>1, <1>2, <1>4, <1>5, <1>7, <1>8, <1>9

LEMMA FreeOf ==
    ASSUME NEW S, S = Stops \/ S = Exits, Free(S) # {}
    PROVE  First(Free(S)) \in Orders /\ row[First(Free(S))] = "none"
<1>1. Free(S) \subseteq Stops \/ Free(S) \subseteq Exits
  BY DEF Free
<1>2. First(Free(S)) \in Free(S)
  BY <1>1, FirstOf
<1> QED BY <1>2 DEF Free, Orders

LEMMA ApplyCancelKeeps ==
    ASSUME IInv, ApplyCancel
    PROVE  IInv'
<1> DEFINE o == Head(intents).order
<1>1. intents # <<>> /\ CancelAndRead(o) /\ UNCHANGED <<account, held, manager, desired>>
  BY DEF ApplyCancel
<1>2. LedgerTyped' /\ Rows' /\ Backed'
  BY <1>1, CancelSettles, SettledKeeps DEF IInv, account
<1>3. Fault \/ UNCHANGED faults
  BY <1>1 DEF CancelAndRead
<1>4. faults' \in 0 .. MaxFaults
  BY <1>3, FaultTyped, Parts DEF IInv
<1>5. CASE Step("resync") /\ UNCHANGED current /\ Head(intents).action = "replace"
  <2>1. ControlTyped' /\ Planned' /\ Sending'
    BY <1>1, <1>4, <1>5, Parts DEF IInv, ControlTyped, Step, account, Planned, Sending
  <2> QED BY <1>2, <2>1, PartsNext
<1>6. CASE Drop(~Ended(o))
  <2>1. (~Ended(o)) \in BOOLEAN
    BY DEF Ended
  <2>2. ControlTyped' /\ Planned' /\ Sending'
    BY <1>1, <1>4, <1>6, <2>1, DropEnds, Parts DEF IInv, ControlTyped, account, Planned
  <2> QED BY <1>2, <2>2, PartsNext
<1> QED BY <1>5, <1>6 DEF ApplyCancel

LEMMA ResyncKeeps ==
    ASSUME IInv, Resync
    PROVE  IInv'
<1>1. LedgerTyped' /\ Rows' /\ Backed'
  BY LedgerStays, StillKeeps DEF Resync
<1>2. intents # <<>> /\ UNCHANGED <<account, manager, desired>> /\ Head(intents).action # "external"
  BY DEF Resync, IInv, Planned
<1>3. held' \in Nat /\ faults' \in 0 .. MaxFaults
  BY SyncedTyped, FaultTyped, Parts DEF Resync, IInv
<1>4. CASE Drop(FALSE) \/ Drop(TRUE)
  <2>1. ControlTyped' /\ Planned' /\ Sending'
    BY <1>2, <1>3, <1>4, DropEnds, Parts DEF IInv, ControlTyped, account, Planned
  <2> QED BY <1>1, <2>1, PartsNext
<1>5. CASE Step("place") /\ UNCHANGED current
  <2>1. ControlTyped' /\ Planned' /\ Sending'
    BY <1>2, <1>3, <1>5, Parts DEF IInv, ControlTyped, Step, account, Planned, Sending
  <2> QED BY <1>1, <2>1, PartsNext
<1> QED BY <1>4, <1>5 DEF Resync

LEMMA StartPlaceKeeps ==
    ASSUME IInv, StartPlace
    PROVE  IInv'
<1>1. LedgerTyped' /\ Rows' /\ Backed'
  BY LedgerStays, StillKeeps DEF StartPlace
<1>2. ControlTyped' /\ Planned' /\ Sending'
  BY Parts DEF IInv, ControlTyped, StartPlace, Step, account, Planned, Sending
<1> QED BY <1>1, <1>2, PartsNext

LEMMA PlaceKeeps ==
    ASSUME IInv, Place
    PROVE  IInv'
<1> DEFINE intent == Head(intents)
           ask == Min({intent.qty, held})
           qty == Sellable(ask)
           o == First(Free(Stops))
<1>1. /\ intents # <<>> /\ UNCHANGED <<account, market, held, manager, desired, faults>>
  BY DEF Place, IInv, Planned
<1>2. intent \in Intent /\ intent.qty \in Nat /\ intent.level \in Level
  BY <1>1, HeadTyped DEF Intent
<1>3. ask \in Nat
  <2>1. intent.qty \in Int /\ held \in Int /\ held \in Nat
    BY <1>2 DEF IInv, TypeOK
  <2> HIDE DEF intent
  <2> QED BY <1>2, <2>1, MinMaxOf
<1>4. qty \in Nat /\ (qty # 0 => qty <= held - OutstandingExits)
  <2> HIDE DEF ask
  <2> QED BY <1>3, SellableFits
<1>5. \/ Drop(TRUE) /\ UNCHANGED ledger
      \/ /\ pc' = "exit" /\ degraded' = TRUE
         /\ UNCHANGED <<ledger, current, intents, own, todo>>
      \/ /\ Attributed /\ qty # 0 /\ Free(Stops) # {}
         /\ Create(o, qty, intent.level) /\ Step("send")
  BY DEF Place
<1>6. CASE Drop(TRUE) /\ UNCHANGED ledger
  <2>1. LedgerTyped' /\ Rows' /\ Backed'
    BY <1>1, <1>6, LedgerStays, StillKeeps
  <2>2. ControlTyped' /\ Planned' /\ Sending'
    BY <1>1, <1>6, DropEnds, Parts DEF IInv, ControlTyped, account, Planned
  <2> QED BY <2>1, <2>2, PartsNext
<1>7. CASE /\ pc' = "exit" /\ degraded' = TRUE
           /\ UNCHANGED <<ledger, current, intents, own, todo>>
  <2>1. LedgerTyped' /\ Rows' /\ Backed'
    BY <1>1, <1>7, LedgerStays, StillKeeps
  <2>2. ControlTyped' /\ Planned' /\ Sending'
    BY <1>1, <1>7, Parts DEF IInv, ControlTyped, account, Planned, Sending
  <2> QED BY <2>1, <2>2, PartsNext
<1>8. CASE /\ Attributed /\ qty # 0 /\ Free(Stops) # {}
           /\ Create(o, qty, intent.level) /\ Step("send")
  <2>1. o \in Orders /\ row[o] = "none"
    BY <1>8, FreeOf
  <2>2. qty \in Nat \ {0}
    BY <1>4, <1>8
  <2>7. Head(intents).action # "external"
    BY DEF Place, IInv, Planned
  <2> HIDE DEF o, qty, intent
  <2>3. /\ LedgerTyped' /\ Rows' /\ Backed'
        /\ current' \in Orders /\ row'[current'] = "unknown" /\ venue'[current'] = "none"
        /\ order'[current'].qty = qty
        /\ Cardinality(Units(Committed, Orders))' = Cardinality(Units(Committed, Orders))
        /\ Bought' = Bought
    BY <1>1, <1>2, <1>8, <2>1, <2>2, <2>7, CreateKeeps
  <2>4. Cardinality(Units(Committed, Orders)) + qty <= Bought
    <3>1. held = Bought - Cardinality(Units(recorded, Orders)) /\ Bought \in Nat
      BY <1>8, Positions DEF IInv, Attributed
    <3>2. /\ OutstandingExits \in Nat
          /\ Cardinality(Units(Committed, Orders))
               <= Cardinality(Units(recorded, Orders)) + OutstandingExits
      BY OnOrder DEF IInv
    <3>3. /\ Cardinality(Units(recorded, Orders)) \in Nat
          /\ Cardinality(Units(Committed, Orders)) \in Nat
      BY QuantityTypes DEF IInv
    <3>4. qty <= held - OutstandingExits /\ qty \in Nat
      BY <1>4, <2>2
    <3> QED BY <3>1, <3>2, <3>3, <3>4
  <2>5. Sending'
    BY <1>8, <2>2, <2>3, <2>4 DEF Sending, Step
  <2>6. ControlTyped' /\ Planned'
    BY <1>1, <1>8, <2>3, Parts DEF IInv, ControlTyped, Step, account, Planned
  <2> QED BY <2>3, <2>5, <2>6, PartsNext
<1> QED BY <1>5, <1>6, <1>7, <1>8

LEMMA NotAcceptedEnds ==
    ASSUME IInv, pc \in {"send", "answer"}, NotAccepted
    PROVE  /\ pc' \in {"apply", "exit"} /\ intents' \in Seq(Intent)
           /\ pc' = "exit" => intents' # <<>>
           /\ current' \in Orders \cup {NoOrder} /\ own' \subseteq Orders /\ todo' \subseteq Orders
           /\ degraded' \in BOOLEAN
           /\ Sending'
<1>1. intents # <<>> /\ current \in Orders
  BY DEF IInv, Planned, Sending
<1>2. CASE current \in Stops
  BY <1>1, <1>2, Parts DEF NotAccepted, IInv, ControlTyped, Sending
<1>3. CASE current \notin Stops
  <2>1. Drop(TRUE)
    BY <1>3 DEF NotAccepted
  <2> QED BY <1>1, <2>1, DropEnds, Parts DEF IInv
<1> QED BY <1>2, <1>3

(* An order the venue takes commits what Sending had set aside for it.      *)
LEMMA SendKeeps ==
    ASSUME IInv, Send
    PROVE  IInv'
<1>1. /\ UNCHANGED <<account, traded, recorded, order, external, held, manager, desired>>
      /\ pc = "send"
  BY DEF Send
<1>2. /\ current \in Orders /\ row[current] = "unknown" /\ venue[current] = "none"
      /\ order[current].qty > 0 /\ traded[current] = 0 /\ recorded[current] = 0
      /\ order[current].qty \in Nat
      /\ Cardinality(Units(Committed, Orders)) + order[current].qty <= Bought
      /\ intents # <<>>
  BY <1>1, QuantityTypes DEF IInv, Sending, Rows, Planned
<1>3. CASE /\ venue' = [venue EXCEPT ![current] = "working"]
           /\ Step("answer") /\ UNCHANGED <<current, row, faults>>
  <2> DEFINE c == Committed'
  <2>1. ASSUME NEW p \in Orders
        PROVE  /\ venue'[p] \in {"none", "working", "ended"}
               /\ row'[p] = "none" => venue'[p] = "none" /\ recorded'[p] = 0
               /\ row'[p] \in {"intent", "rejected"} => venue'[p] = "none"
               /\ row'[p] \in {"live", "canceled"} => venue'[p] # "none"
               /\ venue'[p] = "none" => traded'[p] = 0
               /\ venue'[p] = "working" => traded'[p] < order'[p].qty
               /\ ~(row'[p] \in {"intent", "live", "unknown"}) => venue'[p] # "working" /\ recorded'[p] = traded'[p]
               /\ c[p] \in Nat /\ c[p] = IF p = current THEN order[current].qty ELSE Committed[p]
    <3>1. CASE p = current
      BY <1>1, <1>2, <1>3, <3>1 DEF IInv, TypeOK, Committed
    <3>2. CASE p # current
      <4>1. venue'[p] = venue[p]
        BY <1>3, <3>2 DEF IInv, TypeOK
      <4>2. c[p] = Committed[p] /\ Committed[p] \in Nat
        BY <1>1, <4>1, QuantityTypes DEF Committed, IInv
      <4>3. /\ row[p] = "none" => venue[p] = "none" /\ recorded[p] = 0
            /\ row[p] \in {"intent", "rejected"} => venue[p] = "none"
            /\ row[p] \in {"live", "canceled"} => venue[p] # "none"
            /\ venue[p] = "none" => traded[p] = 0
            /\ venue[p] = "working" => traded[p] < order[p].qty
            /\ ~(row[p] \in {"intent", "live", "unknown"}) => venue[p] # "working" /\ recorded[p] = traded[p]
            /\ venue[p] \in {"none", "working", "ended"}
        BY DEF IInv, TypeOK, Rows, Live
      <4> HIDE DEF c
      <4> QED BY <1>1, <1>3, <3>2, <4>1, <4>2, <4>3
    <3> QED BY <3>1, <3>2
  <2>2. LedgerTyped' /\ Rows'
    <3>1. venue' \in [Orders -> {"none", "working", "ended"}]
      BY <1>3 DEF IInv, TypeOK
    <3>2. LedgerTyped'
      BY <1>1, <1>3, <3>1 DEF LedgerTyped, IInv, TypeOK, Exits
    <3> QED BY <2>1, <3>2 DEF Rows, Live
  <2>3. Backed'
    <3> DEFINE new == {current} \X (1 .. order[current].qty)
    <3>1. IsFiniteSet(new) /\ Cardinality(new) = order[current].qty
      <4>1. IsFiniteSet({current}) /\ Cardinality({current}) = 1
        BY FS_Singleton
      <4>2. /\ IsFiniteSet(1 .. order[current].qty)
            /\ Cardinality(1 .. order[current].qty) = order[current].qty
        <5> DEFINE n == order[current].qty
        <5>1. n \in Nat /\ n > 0
          BY <1>2
        <5> HIDE DEF n
        <5> 1 \in Int /\ n \in Int
          BY <5>1
        <5>2. Cardinality(1 .. n) = IF 1 > n THEN 0 ELSE n - 1 + 1
          BY FS_Interval
        <5>3. IsFiniteSet(1 .. n)
          BY <5>1, FS_Interval
        <5>4. Cardinality(1 .. n) = n
          BY <5>1, <5>2
        <5> QED BY <5>3, <5>4 DEF n
      <4>3. /\ Cardinality(new) = Cardinality({current}) * Cardinality(1 .. order[current].qty)
            /\ IsFiniteSet(new)
        <5> DEFINE S == {current}
                   T == 1 .. order[current].qty
        <5>1. IsFiniteSet(S) /\ IsFiniteSet(T)
          BY <4>1, <4>2
        <5> HIDE DEF S, T
        <5>2. Cardinality(S \X T) = Cardinality(S) * Cardinality(T) /\ IsFiniteSet(S \X T)
          BY <5>1, FS_Product, Zenon
        <5> QED BY <5>2 DEF S, T
      <4>4. Cardinality(new) = 1 * order[current].qty
        BY <4>1, <4>2, <4>3, Zenon
      <4> QED BY <1>2, <4>3, <4>4
    <3> HIDE DEF c
    <3>2. Units(c, Orders) \subseteq Units(Committed, Orders) \cup new
      <4>1. ASSUME NEW p \in Orders, NEW i \in 1 .. c[p]
            PROVE  <<p, i>> \in Units(Committed, Orders) \cup new
        <5>1. CASE p = current
          BY <2>1, <4>1, <5>1
        <5>2. CASE p # current
          BY <2>1, <4>1, <5>2, UnitsOf
        <5> QED BY <5>1, <5>2
      <4> HIDE DEF new
      <4> QED BY <4>1, UnitsOf
    <3>3. IsFiniteSet(Units(Committed, Orders)) /\ Cardinality(Units(Committed, Orders)) \in Nat
      BY QuantityTypes, QuantityFinite DEF IInv
    <3> HIDE DEF new
    <3>4. /\ Cardinality(Units(Committed, Orders) \cup new)
                <= Cardinality(Units(Committed, Orders)) + order[current].qty
          /\ IsFiniteSet(Units(Committed, Orders) \cup new)
      BY <3>1, <3>3, Together
    <3>5. /\ Cardinality(Units(c, Orders)) <= Cardinality(Units(Committed, Orders) \cup new)
          /\ Cardinality(Units(c, Orders)) \in Nat
          /\ Cardinality(Units(Committed, Orders) \cup new) \in Nat
      BY <3>2, <3>4, NoMoreUnits
    <3>6. Bought \in Nat /\ Bought' = Bought
      BY <1>1, Positions DEF IInv, Bought, account, Units
    <3>7. Cardinality(Units(c, Orders)) <= Bought
      BY <1>2, <3>3, <3>4, <3>5, <3>6
    <3>8. Units(Committed, Orders)' = Units(c, Orders)
      BY DEF c, Units, Orders, Stops, Exits
    <3> QED BY <3>6, <3>7, <3>8 DEF Backed
  <2>4. ControlTyped' /\ Planned' /\ Sending'
    BY <1>1, <1>2, <1>3, Parts DEF IInv, ControlTyped, Step, account, Planned, Sending
  <2> QED BY <2>2, <2>3, <2>4, PartsNext
<1>4. CASE /\ Fault /\ UNCHANGED venue
           /\ row' \in {row, [row EXCEPT ![current] = "rejected"]} /\ NotAccepted
  <2>1. LedgerTyped' /\ Rows'
    <3>1. row' \in [Orders -> {"none", "intent", "live", "unknown", "rejected", "canceled"}]
      BY <1>4 DEF IInv, TypeOK
    <3>2. LedgerTyped'
      BY <1>1, <1>4, <3>1 DEF LedgerTyped, IInv, TypeOK, Exits
    <3>3. ASSUME NEW p \in Orders
          PROVE  /\ row'[p] = "none" => venue'[p] = "none" /\ recorded'[p] = 0
                 /\ row'[p] \in {"intent", "rejected"} => venue'[p] = "none"
                 /\ row'[p] \in {"live", "canceled"} => venue'[p] # "none"
                 /\ venue'[p] = "none" => traded'[p] = 0
                 /\ venue'[p] = "working" => traded'[p] < order'[p].qty
                 /\ ~(row'[p] \in {"intent", "live", "unknown"}) => venue'[p] # "working" /\ recorded'[p] = traded'[p]
      <4>1. CASE p = current
        BY <1>1, <1>2, <1>4, <4>1 DEF IInv, TypeOK
      <4>2. CASE p # current
        BY <1>1, <1>4, <4>2 DEF IInv, TypeOK, Rows, Live
      <4> QED BY <4>1, <4>2
    <3> QED BY <3>2, <3>3 DEF Rows, Live
  <2>2. Backed'
    <3>1. Committed' = Committed
      BY <1>1, <1>4 DEF Committed
    <3> QED BY <1>1, <3>1, SameCommitted DEF account, IInv, Backed
  <2>3. faults' \in 0 .. MaxFaults
    BY <1>4, FaultTyped, Parts DEF IInv
  <2>4. ControlTyped' /\ Planned' /\ Sending'
    BY <1>1, <1>4, <2>3, NotAcceptedEnds, Parts DEF IInv, ControlTyped, account, Planned
  <2> QED BY <2>1, <2>2, <2>4, PartsNext
<1> QED BY <1>3, <1>4 DEF Send

LEMMA AnswerKeeps ==
    ASSUME IInv, Answer
    PROVE  IInv'
<1>1. UNCHANGED <<account, market, held, manager, desired>> /\ pc = "answer"
      /\ current \in Orders /\ Live(current) /\ intents # <<>>
  BY DEF Answer, IInv, Sending, Live, Planned
<1>2. CASE Read({current}, {}) /\ Drop(FALSE) /\ UNCHANGED faults
  <2>1. Settles
    <3>1. \A p \in Orders : p \in {current} \cup {} => Live(p)
      BY <1>1
    <3>2. UNCHANGED <<entered, venue, traded>>
      BY <1>1 DEF account, market
    <3> QED BY <1>2, <3>1, <3>2, ReadSettles DEF IInv, TypeOK
  <2>2. LedgerTyped' /\ Rows' /\ Backed'
    BY <2>1, SettledKeeps DEF IInv
  <2>3. ControlTyped' /\ Planned' /\ Sending'
    BY <1>1, <1>2, DropEnds, Parts DEF IInv, ControlTyped, account, Planned
  <2> QED BY <2>2, <2>3, PartsNext
<1>3. CASE Fault /\ UNCHANGED ledger /\ NotAccepted
  <2>1. LedgerTyped' /\ Rows' /\ Backed'
    BY <1>1, <1>3, LedgerStays, StillKeeps
  <2>2. faults' \in 0 .. MaxFaults
    BY <1>3, FaultTyped, Parts DEF IInv
  <2>3. ControlTyped' /\ Planned' /\ Sending'
    BY <1>1, <1>3, <2>2, NotAcceptedEnds, Parts DEF IInv, ControlTyped, account, Planned
  <2> QED BY <2>1, <2>3, PartsNext
<1> QED BY <1>2, <1>3 DEF Answer

LEMMA StartFlattenKeeps ==
    ASSUME IInv, StartFlatten
    PROVE  IInv'
<1>1. LedgerTyped' /\ Rows' /\ Backed'
  BY LedgerStays, StillKeeps DEF StartFlatten
<1>2. own' \subseteq Orders
  BY DEF StartFlatten, Orders
<1>3. ControlTyped' /\ Planned' /\ Sending'
  BY <1>2, Parts DEF IInv, ControlTyped, StartFlatten, account, Planned, Sending
<1> QED BY <1>1, <1>3, PartsNext

LEMMA ExitKeeps ==
    ASSUME IInv, Exit
    PROVE  IInv'
<1>1. UNCHANGED <<account, market, manager, desired>> /\ intents # <<>> /\ own \subseteq Orders
  BY DEF Exit, IInv, Planned, TypeOK
<1>2. UNCHANGED <<entered, venue, traded>> /\ venue \in [Orders -> {"none", "working", "ended"}]
  BY <1>1 DEF account, market, IInv, TypeOK
<1>3. CASE /\ Read({o \in own \ Unsent : Live(o)}, {}) /\ Synced /\ UNCHANGED faults
           /\ \/ Drop(TRUE)
              \/ /\ pc' = "clear" /\ todo' \subseteq Orders
                 /\ UNCHANGED <<intents, current, own, degraded>>
  <2>1. Settles
    <3>1. \A p \in Orders : p \in {o \in own \ Unsent : Live(o)} \cup {} => Live(p)
      OBVIOUS
    <3> QED BY <1>2, <1>3, <3>1, ReadSettles DEF IInv
  <2>2. LedgerTyped' /\ Rows' /\ Backed'
    BY <2>1, SettledKeeps DEF IInv
  <2>3. held' \in Nat
    BY <1>3, SyncedTyped
  <2>4. ControlTyped' /\ Planned' /\ Sending'
    <3>1. CASE Drop(TRUE)
      BY <1>1, <1>3, <2>3, <3>1, DropEnds, Parts DEF IInv, ControlTyped, account, Planned
    <3>2. CASE /\ pc' = "clear" /\ todo' \subseteq Orders
               /\ UNCHANGED <<intents, current, own, degraded>>
      BY <1>1, <1>3, <2>3, <3>2, Parts DEF IInv, ControlTyped, account, Planned, Sending
    <3> QED BY <1>3, <3>1, <3>2
  <2> QED BY <2>2, <2>4, PartsNext
<1>4. CASE /\ Fault /\ Drop(TRUE)
           /\ \/ UNCHANGED <<ledger, held>>
              \/ (\E o \in own \ Unsent : Live(o) /\ Read({o}, {o})) /\ Synced
  <2>1. Settles
    <3>1. CASE UNCHANGED <<ledger, held>>
      BY <1>1, <3>1, LedgerStays, StillKeeps
    <3>2. CASE \E o \in own \ Unsent : Live(o) /\ Read({o}, {o})
      <4>1. PICK o \in own \ Unsent : Live(o) /\ Read({o}, {o})
        BY <3>2
      <4>2. \A p \in Orders : p \in {o} \cup {o} => Live(p)
        BY <4>1
      <4> QED BY <1>2, <4>1, <4>2, ReadSettles DEF IInv
    <3> QED BY <1>4, <3>1, <3>2
  <2>2. LedgerTyped' /\ Rows' /\ Backed'
    BY <2>1, SettledKeeps DEF IInv
  <2>3. held' \in Nat /\ faults' \in 0 .. MaxFaults
    BY <1>4, SyncedTyped, FaultTyped, Parts DEF IInv
  <2>4. ControlTyped' /\ Planned' /\ Sending'
    BY <1>1, <1>4, <2>3, DropEnds, Parts DEF IInv, ControlTyped, account, Planned
  <2> QED BY <2>2, <2>4, PartsNext
<1>5. \/ /\ Read({o \in own \ Unsent : Live(o)}, {}) /\ Synced /\ UNCHANGED faults
         /\ \/ Drop(TRUE)
            \/ /\ pc' = "clear" /\ todo' \subseteq Orders
               /\ UNCHANGED <<intents, current, own, degraded>>
      \/ /\ Fault /\ Drop(TRUE)
         /\ \/ UNCHANGED <<ledger, held>>
            \/ (\E o \in own \ Unsent : Live(o) /\ Read({o}, {o})) /\ Synced
  <2>1. /\ {o \in own : Live(o)'} \subseteq Orders /\ {o \in Orders : Live(o)'} \subseteq Orders
    BY <1>1
  <2> QED BY <2>1 DEF Exit
<1> QED BY <1>3, <1>4, <1>5

LEMMA ClearKeeps ==
    ASSUME IInv, NEW o \in Orders, Clear(o)
    PROVE  IInv'
<1>1. /\ intents # <<>> /\ CancelAndRead(o) /\ UNCHANGED <<account, held, manager, desired>>
  BY DEF Clear, IInv, Planned
<1>2. LedgerTyped' /\ Rows' /\ Backed'
  BY <1>1, CancelSettles, SettledKeeps DEF IInv, account
<1>3. faults' \in 0 .. MaxFaults
  <2>1. Fault \/ UNCHANGED faults
    BY <1>1 DEF CancelAndRead
  <2> QED BY <2>1, FaultTyped, Parts DEF IInv
<1>4. CASE todo' = todo \ {o} /\ UNCHANGED <<pc, intents, current, own, degraded>>
  <2>1. ControlTyped' /\ Planned' /\ Sending'
    BY <1>1, <1>3, <1>4, Parts DEF IInv, ControlTyped, Clear, account, Planned, Sending
  <2> QED BY <1>2, <2>1, PartsNext
<1>5. CASE Drop(TRUE)
  <2>1. ControlTyped' /\ Planned' /\ Sending'
    BY <1>1, <1>3, <1>5, DropEnds, Parts DEF IInv, ControlTyped, account, Planned
  <2> QED BY <1>2, <2>1, PartsNext
<1> QED BY <1>4, <1>5 DEF Clear

LEMMA ClearedKeeps ==
    ASSUME IInv, Cleared
    PROVE  IInv'
<1>1. LedgerTyped' /\ Rows' /\ Backed'
  BY LedgerStays, StillKeeps DEF Cleared
<1>2. intents # <<>> /\ UNCHANGED <<account, market, ledger, manager, desired>>
  BY DEF Cleared, IInv, Planned
<1>3. held' \in Nat /\ faults' \in 0 .. MaxFaults
  BY SyncedTyped, FaultTyped, Parts DEF Cleared, IInv
<1>4. CASE Synced /\ UNCHANGED faults /\ Goto("sell")
  <2>1. ControlTyped' /\ Planned'
    BY <1>2, <1>3, <1>4, Parts DEF IInv, ControlTyped, Goto, account, Planned
  <2>2. Committed' = Committed /\ entered' = entered
    BY <1>2 DEF Committed, account, market, ledger
  <2>3. /\ Cardinality(Units(Committed, Orders))' = Cardinality(Units(Committed, Orders))
        /\ Bought' = Bought
    BY <2>2, SameCommitted
  <2>4. OutstandingExits' = OutstandingExits
    BY <1>2, SameOutstanding
  <2>5. held' - OutstandingExits + Cardinality(Units(Committed, Orders)) <= Bought
    <3>1. held' = Bought - Cardinality(Units(traded, Orders)) /\ Bought \in Nat
      BY <1>4, Positions DEF IInv, Synced
    <3>2. /\ OutstandingExits \in Nat
          /\ Cardinality(Units(Committed, Orders))
               <= Cardinality(Units(traded, Orders)) + OutstandingExits
      BY OnOrder DEF IInv
    <3>3. /\ Cardinality(Units(traded, Orders)) \in Nat
          /\ Cardinality(Units(Committed, Orders)) \in Nat
      BY QuantityTypes DEF IInv
    <3> QED BY <3>1, <3>2, <3>3
  <2>6. Sending'
    BY <1>4, <2>3, <2>4, <2>5 DEF Sending, Goto
  <2> QED BY <1>1, <2>1, <2>6, PartsNext
<1>5. CASE Fault /\ UNCHANGED held /\ Drop(TRUE)
  <2>1. ControlTyped' /\ Planned' /\ Sending'
    BY <1>2, <1>3, <1>5, DropEnds, Parts DEF IInv, ControlTyped, account, Planned
  <2> QED BY <1>1, <2>1, PartsNext
<1> QED BY <1>4, <1>5 DEF Cleared

(* The market exit is no larger than what the clearance left.               *)
LEMMA SellKeeps ==
    ASSUME IInv, Sell
    PROVE  IInv'
<1> DEFINE o == First(Free(Exits))
           qty == Sellable(held)
<1>1. /\ intents # <<>> /\ UNCHANGED <<account, market, held, manager, desired, faults>>
      /\ pc = "sell"
  BY DEF Sell, IInv, Planned
<1>2. qty \in Nat /\ (qty # 0 => qty <= held - OutstandingExits)
  BY SellableFits DEF IInv, TypeOK
<1>3. CASE Drop(TRUE) /\ UNCHANGED ledger
  <2>1. LedgerTyped' /\ Rows' /\ Backed'
    BY <1>1, <1>3, LedgerStays, StillKeeps
  <2>2. ControlTyped' /\ Planned' /\ Sending'
    BY <1>1, <1>3, DropEnds, Parts DEF IInv, ControlTyped, account, Planned
  <2> QED BY <2>1, <2>2, PartsNext
<1>4. CASE qty # 0 /\ Free(Exits) # {} /\ Create(o, qty, 0) /\ Step("send")
  <2>1. o \in Orders /\ row[o] = "none"
    BY <1>4, FreeOf
  <2>7. o \in Exits
    <3>1. Free(Exits) \subseteq Exits
      BY DEF Free
    <3> QED BY <1>4, <3>1, FirstOf
  <2>2. qty \in Nat \ {0} /\ 0 \in Level
    BY <1>2, <1>4 DEF Level
  <2> HIDE DEF o, qty
  <2>3. /\ LedgerTyped' /\ Rows' /\ Backed'
        /\ current' \in Orders /\ row'[current'] = "unknown" /\ venue'[current'] = "none"
        /\ order'[current'].qty = qty
        /\ Cardinality(Units(Committed, Orders))' = Cardinality(Units(Committed, Orders))
        /\ Bought' = Bought
    BY <1>1, <1>4, <2>1, <2>2, <2>7, CreateKeeps
  <2>4. Cardinality(Units(Committed, Orders)) + qty <= Bought
    <3>1. held - OutstandingExits + Cardinality(Units(Committed, Orders)) <= Bought
      BY <1>1 DEF IInv, Sending
    <3>2. /\ OutstandingExits \in Nat /\ held \in Nat /\ Bought \in Nat
          /\ Cardinality(Units(Committed, Orders)) \in Nat
      BY OnOrder, QuantityTypes, Positions DEF IInv, TypeOK
    <3> QED BY <1>2, <2>2, <3>1, <3>2
  <2>5. Sending'
    BY <1>4, <2>2, <2>3, <2>4 DEF Sending, Step
  <2>6. ControlTyped' /\ Planned'
    BY <1>1, <1>4, <2>3, Parts DEF IInv, ControlTyped, Step, account, Planned
  <2> QED BY <2>3, <2>5, <2>6, PartsNext
<1> QED BY <1>3, <1>4 DEF Sell

LEMMA EmptySeq == <<>> \in Seq(Intent)
OBVIOUS

(* The plan of an external exit: sell, then look at protection again.       *)
LEMMA ExternalPlan ==
    <<External("external"), External("review")>> \in Seq(Intent)
<1>1. External("external") \in Intent /\ External("review") \in Intent
  BY DEF External, Intent, Level
<1> QED BY <1>1

LEMMA StartExternalKeeps ==
    ASSUME IInv, StartExternal
    PROVE  IInv'
<1>1. LedgerTyped' /\ Rows' /\ Backed'
  BY LedgerStays, StillKeeps DEF StartExternal
<1> DEFINE plan == <<External("external"), External("review")>>
<1>2. plan \in Seq(Intent) /\ plan # <<>>
  BY ExternalPlan
<1>3. intents' = plan /\ pc' = "exit" /\ degraded' = TRUE
      /\ UNCHANGED <<account, held, manager, desired, current, todo, faults>>
  BY DEF StartExternal
<1>4. own' \subseteq Orders
  <2>1. external \subseteq Orders
    BY DEF IInv, TypeOK, Orders
  <2> QED BY <2>1 DEF StartExternal
<1> HIDE DEF plan
<1>5. ControlTyped' /\ Planned' /\ Sending'
  BY <1>2, <1>3, <1>4, Parts DEF IInv, ControlTyped, account, Planned, Sending
<1> QED BY <1>1, <1>5, PartsNext

LEMMA ReviewKeeps ==
    ASSUME IInv, Review
    PROVE  IInv'
<1>1. LedgerTyped' /\ Rows' /\ Backed'
  BY LedgerStays, StillKeeps DEF Review
<1>2. intents' \in Seq(Intent) /\ pc' = "protect"
      /\ UNCHANGED <<account, held, manager, desired, current, own, todo, degraded, faults>>
  BY DEF Review, IInv, TypeOK
<1>3. ControlTyped' /\ Planned' /\ Sending'
  BY <1>2, Parts DEF IInv, ControlTyped, account, Planned, Sending
<1> QED BY <1>1, <1>3, PartsNext

(* A row that was not marked yet is of no order at the venue.               *)
LEMMA CrashSettles ==
    ASSUME IInv, Crash
    PROVE  Settles
<1>1. UNCHANGED <<entered, venue, traded, recorded, order, external>>
      /\ (row' = row \/ (pc = "send" /\ row' = [row EXCEPT ![current] = "intent"]))
  BY DEF Crash, account, market
<1>2. CASE row' = row
  BY <1>1, <1>2, NothingReadSettles DEF IInv, TypeOK, market, Exits
<1>3. CASE pc = "send" /\ row' = [row EXCEPT ![current] = "intent"]
  <2>1. current \in Orders /\ row[current] = "unknown" /\ venue[current] = "none"
    BY <1>3 DEF IInv, Sending
  <2>2. ASSUME NEW p \in Orders PROVE SettlesOne(p)
    <3>1. /\ venue'[p] = venue[p] /\ recorded'[p] = recorded[p]
          /\ row'[p] = IF p = current THEN "intent" ELSE row[p]
      BY <1>1, <1>3 DEF IInv, TypeOK
    <3>2. CASE p = current
      BY <2>1, <3>1, <3>2 DEF SettlesOne, Live
    <3>3. CASE p # current
      BY <3>1, <3>3 DEF SettlesOne
    <3> QED BY <3>2, <3>3
  <2>3. /\ row' \in [Orders -> {"none", "intent", "live", "unknown", "rejected", "canceled"}]
        /\ external' \subseteq Exits
    BY <1>1, <1>3 DEF IInv, TypeOK, Exits
  <2> QED BY <1>1, <2>2, <2>3 DEF Settles, IInv, TypeOK
<1> QED BY <1>1, <1>2, <1>3

LEMMA RestKeeps ==
    ASSUME IInv, PlanDone \/ EndTick \/ Crash
    PROVE  IInv'
<1>2. LedgerTyped' /\ Rows' /\ Backed'
  <2>1. CASE PlanDone \/ EndTick
    <3>1. UNCHANGED <<account, market, ledger>>
      BY <2>1 DEF PlanDone, EndTick
    <3> QED BY <3>1, LedgerStays, StillKeeps
  <2>2. CASE Crash
    BY <2>2, CrashSettles, SettledKeeps DEF IInv
  <2> QED BY <2>1, <2>2
<1>3. CASE PlanDone
  <2>1. ControlTyped' /\ Planned' /\ Sending'
    BY <1>3, Parts DEF IInv, ControlTyped, PlanDone, Goto, account, Planned, Sending
  <2> QED BY <1>2, <2>1, PartsNext
<1>4. CASE EndTick
  <2>1. ControlTyped' /\ Planned' /\ Sending'
    BY <1>4, Parts DEF IInv, ControlTyped, EndTick, account, Planned, Sending
  <2> QED BY <1>2, <2>1, PartsNext
<1>5. CASE Crash
  <2>1. faults' \in 0 .. MaxFaults
    BY <1>5, FaultTyped, Parts DEF IInv, Crash
  <2>2. Planned' /\ Sending'
    BY <1>5 DEF IInv, Crash, account, Planned, Sending
  <2>3. intents' \in Seq(Intent)
    BY <1>5, EmptySeq DEF Crash
  <2>4. manager' \in Managers
    BY <1>5 DEF Crash, Managers, NoManager, Level
  <2>5. ControlTyped'
    BY <1>5, <2>1, <2>3, <2>4, Parts DEF IInv, ControlTyped, Crash, account
  <2> QED BY <1>2, <2>2, <2>5, PartsNext
<1> QED BY <1>3, <1>4, <1>5

LEMMA InitIInv == Init => IInv
<1> SUFFICES ASSUME Init PROVE IInv
  OBVIOUS
<1>1. Entries \in Seq(Nat \ {0}) /\ Len(Entries) \in Nat /\ MaxFaults \in Nat
  BY ProtectiveStopsAssumption
<1>2. TypeOK
  <2>1. /\ venue \in [Orders -> {"none", "working", "ended"}]
        /\ row \in [Orders -> {"none", "intent", "live", "unknown", "rejected", "canceled"}]
        /\ traded \in [Orders -> Nat] /\ recorded \in [Orders -> Nat]
        /\ \A o \in Orders : recorded[o] <= traded[o] /\ traded[o] <= order[o].qty
    <3>1. \A o \in Orders : recorded[o] = 0 /\ traded[o] = 0 /\ order[o].qty = 0
      BY DEF Init
    <3> QED BY <3>1 DEF Init
  <2>7. external \subseteq Exits /\ late \in BOOLEAN
    BY DEF Init
  <2>2. order \in [Orders -> [qty : Nat, level : Level, position : Nat]]
    BY DEF Init, Level
  <2>3. manager \in [known : BOOLEAN, accepted : Level, requested : Level, position : Nat]
    BY DEF Init, NoManager, Level
  <2>4. intents \in Seq(Intent)
    BY EmptySeq DEF Init
  <2>5. desired \in Level /\ held \in Nat /\ pc = "idle" /\ degraded \in BOOLEAN
        /\ current \in Orders \cup {NoOrder} /\ own \subseteq Orders /\ todo \subseteq Orders
    BY DEF Init
  <2>6. entered \in 0 .. Len(Entries) /\ opened \in 0 .. Len(Entries) /\ faults \in 0 .. MaxFaults
    BY <1>1 DEF Init
  <2> QED BY <2>1, <2>2, <2>3, <2>4, <2>5, <2>6, <2>7 DEF TypeOK
<1>3. Rows /\ Sending /\ Planned
  BY DEF Init, Rows, Live, Sending, Planned
<1>4. Backed
  <2>1. Units(Committed, Orders) = {}
    <3>1. \A o \in Orders : Committed[o] = 0
      BY DEF Init, Committed
    <3> QED BY <3>1 DEF Units
  <2>2. Bought \in Nat
    BY <1>2, BoughtNat, CardinalityNat DEF TypeOK, Bought
  <2> QED BY <2>1, <2>2, FS_EmptySet DEF Backed
<1> QED BY <1>2, <1>3, <1>4 DEF IInv

LEMMA NextIInv == IInv /\ [Next]_vars => IInv'
<1> SUFFICES ASSUME IInv, [Next]_vars PROVE IInv'
  OBVIOUS
<1>1. CASE UNCHANGED vars
  <2>1. UNCHANGED <<account, market, ledger, control, held, manager, desired, faults>>
    BY <1>1 DEF vars, account, market, ledger, control
  <2>2. LedgerTyped' /\ Rows' /\ Backed'
    BY <2>1, LedgerStays, StillKeeps
  <2>3. Committed' = Committed /\ entered' = entered
    BY <2>1 DEF Committed, account, market, ledger
  <2>4. OutstandingExits' = OutstandingExits
    BY <2>1, SameOutstanding
  <2>5. Sending'
    BY <2>1, <2>3, <2>4, SameCommitted DEF IInv, Sending, control, market, ledger
  <2>6. ControlTyped' /\ Planned'
    BY <2>1, Parts DEF IInv, ControlTyped, Planned, control, account
  <2> QED BY <2>2, <2>5, <2>6, PartsNext
<1>2. ASSUME NEW o \in Orders, VenueTrades(o) \/ Confirm(o) PROVE IInv'
  BY <1>2, VenueTradesKeeps, ConfirmKeeps
<1>3. ASSUME NEW due \in BOOLEAN, StartTick(due) PROVE IInv'
  BY <1>3, StartTickKeeps
<1>4. CASE StrategyMoves \/ Enter \/ Crash
  BY <1>4, StrategyMovesKeeps, EnterKeeps, RestKeeps
<1>5. ASSUME NEW o \in Orders, Clear(o) PROVE IInv'
  BY <1>5, ClearKeeps
<1>7. ASSUME NEW expired \in SUBSET Unsent, Recover(expired) PROVE IInv'
  BY <1>7, RecoverKeeps
<1>6. CASE Engine
  BY <1>5, <1>6, <1>7, StartExternalKeeps, ReviewKeeps, ProtectKeeps, ApplyCancelKeeps, ResyncKeeps, StartPlaceKeeps,
     PlaceKeeps, SendKeeps, AnswerKeeps, StartFlattenKeeps, ExitKeeps, ClearedKeeps, SellKeeps,
     RestKeeps DEF Engine
<1> QED BY <1>1, <1>2, <1>3, <1>4, <1>6 DEF Next

(* Every row, order, intent and the manager keep their types, and no order has*)
(* more on record than it traded or trades more than it asked for.          *)
THEOREM TypeCorrect == Spec => []TypeOK
<1>1. IInv => TypeOK
  BY DEF IInv
<1> QED BY <1>1, InitIInv, NextIInv, PTL DEF Spec

(* Stops and market exits that work at the venue never have more left to sell*)
(* than the venue holds, over any trades, lost answers, failed reads and    *)
(* crashes (engine.py sends stops and flattening exits through one order path).*)
THEOREM StopsNeverOversell == Spec => []NeverOversold
<1>1. IInv => NeverOversold
  BY Oversold DEF IInv
<1> QED BY <1>1, InitIInv, NextIInv, PTL DEF Spec

-----------------------------------------------------------------------------
(* A stop only moves up.                                                    *)

(* Stops that are or were at the venue.                                     *)
Issued == {p \in Stops : venue[p] # "none"}

(* No order is for a position that is still to come.                        *)
InPlace == \A o \in Orders : order[o].position <= opened

(* What the manager knows is no lower than any stop of the position.        *)
Covers(m) ==
    \A p \in Issued : order[p].position = opened =>
      order[p].level <= m.accepted \/ order[p].level <= m.requested
Remembers ==
    manager.known /\ Owned > 0 =>
      \/ \A p \in Issued : order[p].position # opened
      \/ manager.position = opened /\ Covers(manager)

(* A new stop is asked for at the level the manager has in mind.            *)
Placing(i) == i.action \in {"place", "replace"}
AsksOf(plan, m) ==
    \A n \in DOMAIN plan : Placing(plan[n]) =>
      /\ m.known /\ plan[n].position = m.position
      /\ plan[n].level = m.requested /\ m.accepted <= m.requested
Asks == AsksOf(intents, manager)
AtPlace == pc \in {"resync", "place"} => intents # <<>> /\ Placing(Head(intents))
AboutToSend ==
    pc = "send" /\ current \in Stops =>
      /\ manager.known /\ manager.position = opened /\ Owned > 0
      /\ order[current].position = opened /\ order[current].level = manager.requested
      /\ manager.accepted <= manager.requested

LevelInv == InPlace /\ Remembers /\ Asks /\ AtPlace /\ AboutToSend

(* No stop that reached the venue is of unknown outcome.                    *)
Settled == \A o \in Indeterminate : venue[o] = "none"

(* It is so when a manager is made anew from the stops on record.           *)
RestoresSettled == pc = "protect" /\ ~manager.known /\ Attributed => Settled

(* Fills on record only lower what is owned.                                *)
LEMMA OwnedFalls ==
    ASSUME IInv, entered' = entered, recorded' \in [Orders -> Nat],
           \A o \in Orders : recorded[o] <= recorded'[o]
    PROVE  Owned' > 0 => Owned > 0
<1>1. /\ Owned \in Nat /\ Owned = Bought - Cardinality(Units(recorded, Orders))
      /\ Bought \in Nat
  BY Positions DEF IInv
<1>2. Owned' = Bought - Cardinality(Units(recorded', Orders))
  BY DEF Owned, Bought, Units, Orders, Stops, Exits
<1>3. \A o \in Orders : recorded[o] \in Nat /\ recorded'[o] \in Nat
  BY DEF IInv, TypeOK
<1>4. Units(recorded, Orders) \subseteq Units(recorded', Orders)
  BY <1>3, MoreUnits
<1>5. IsFiniteSet(Units(recorded', Orders))
  BY <1>3, QuantityFinite
<1>6. /\ Cardinality(Units(recorded, Orders)) <= Cardinality(Units(recorded', Orders))
      /\ Cardinality(Units(recorded, Orders)) \in Nat /\ Cardinality(Units(recorded', Orders)) \in Nat
  BY <1>4, <1>5, NoMoreUnits
<1> QED BY <1>1, <1>2, <1>6

(* Nothing is issued, and the manager and the position stay.                *)
LEMMA NothingIssued ==
    ASSUME IInv, IInv', InPlace, Remembers, UNCHANGED <<entered, opened, order, manager>>,
           \A o \in Orders : recorded[o] <= recorded'[o] /\ (o \in Issued' => o \in Issued)
    PROVE  InPlace' /\ Remembers'
<1>1. InPlace'
  BY DEF InPlace, Orders, Stops, Exits
<1>2. Owned' > 0 => Owned > 0
  BY OwnedFalls DEF IInv, TypeOK, Orders, Stops, Exits
<1>3. Issued' \subseteq Issued
  BY DEF Issued, Orders
<1>4. Remembers'
  BY <1>2, <1>3 DEF Remembers, Covers
<1> QED BY <1>1, <1>4

(* What settles orders issues none.                                         *)
LEMMA SettlesIssuesNone ==
    ASSUME IInv, Settles
    PROVE  \A o \in Orders : recorded[o] <= recorded'[o] /\ (o \in Issued' => o \in Issued)
<1>1. ASSUME NEW o \in Orders
      PROVE  recorded[o] <= recorded'[o] /\ (o \in Issued' => o \in Issued)
  <2>1. recorded[o] \in Nat /\ traded[o] \in Nat /\ recorded[o] <= traded[o]
    BY DEF IInv, TypeOK
  <2>2. SettlesOne(o)
    BY DEF Settles
  <2>3. recorded'[o] \in {recorded[o], traded[o]}
    BY <2>2 DEF SettlesOne
  <2>4. venue[o] = "none" => venue'[o] = "none"
    BY <2>2 DEF SettlesOne
  <2> QED BY <2>1, <2>3, <2>4 DEF Issued, Stops
<1> QED BY <1>1

(* A plan that gets shorter asks for nothing else.                          *)
LEMMA AsksLess ==
    ASSUME IInv, Asks, UNCHANGED manager,
           intents' \in {intents, <<>>} \/ (intents # <<>> /\ intents' = Tail(intents))
    PROVE  Asks'
<1>1. CASE intents' = intents
  BY <1>1 DEF Asks, AsksOf
<1>2. CASE intents' = <<>>
  BY <1>2 DEF Asks, AsksOf
<1>3. CASE intents # <<>> /\ intents' = Tail(intents)
  <2>1. intents \in Seq(Intent)
    BY DEF IInv, TypeOK
  <2>2. \A n \in DOMAIN intents' : n + 1 \in DOMAIN intents /\ intents'[n] = intents[n + 1]
    BY <1>3, <2>1
  <2> QED BY <2>2 DEF Asks, AsksOf
<1> QED BY <1>1, <1>2, <1>3

(* What is on record only grows, and no order is issued.                    *)
NoneIssued == \A o \in Orders : recorded[o] <= recorded'[o] /\ (o \in Issued' => o \in Issued)

LEMMA NoneSent ==
    ASSUME IInv, recorded' = recorded, \A o \in Stops : venue[o] = "none" => venue'[o] = "none"
    PROVE  NoneIssued
<1>1. \A o \in Orders : recorded[o] \in Nat
  BY DEF IInv, TypeOK
<1> QED BY <1>1 DEF NoneIssued, Issued, Stops

LEMMA SameLedger == IInv /\ UNCHANGED <<market, ledger>> => NoneIssued
BY NoneSent DEF market, ledger

(* A step that issues no order and sends none keeps the levels.             *)
LEMMA QuietKeeps ==
    ASSUME IInv, IInv', LevelInv, UNCHANGED <<account, order, manager>>, NoneIssued,
           intents' \in {intents, <<>>} \/ (intents # <<>> /\ intents' = Tail(intents)),
           pc' \in {"resync", "place"} =>
             intents' = intents /\ intents # <<>> /\ Placing(Head(intents)),
           pc' = "send" => UNCHANGED <<pc, current, recorded>>
    PROVE  LevelInv'
<1>1. UNCHANGED <<entered, opened, order, manager>>
  BY DEF account
<1>2. InPlace' /\ Remembers'
  BY <1>1, NothingIssued DEF LevelInv, NoneIssued
<1>3. Asks'
  BY AsksLess DEF LevelInv
<1>4. AtPlace'
  BY DEF AtPlace, Placing
<1>5. AboutToSend'
  <2>1. CASE pc' # "send"
    BY <2>1 DEF AboutToSend
  <2>2. CASE pc' = "send"
    <3>1. Owned' = Owned
      BY <1>1, <2>2 DEF Owned, Bought, Units, Orders, Stops, Exits
    <3> QED BY <1>1, <2>2, <3>1 DEF LevelInv, AboutToSend, Stops
  <2> QED BY <2>1, <2>2
<1> QED BY <1>2, <1>3, <1>4, <1>5 DEF LevelInv

(* What the engine only reads.                                              *)
Reading ==
    \/ \E o \in Orders : VenueTrades(o) \/ Confirm(o)
    \/ StrategyMoves
    \/ \E due \in BOOLEAN : StartTick(due)
    \/ \E expired \in SUBSET Unsent : Recover(expired)

LEMMA ReadingKeepsLevels ==
    ASSUME IInv, IInv', LevelInv, Reading
    PROVE  LevelInv'
<1>1. ASSUME NEW o \in Orders, VenueTrades(o) PROVE LevelInv'
  <2>1. UNCHANGED <<account, ledger, manager, control>> /\ venue[o] = "working"
    BY <1>1 DEF VenueTrades
  <2>2. \A p \in Stops : venue[p] = "none" => venue'[p] = "none"
    <3>1. ASSUME NEW p \in Orders, venue[p] = "none" PROVE venue'[p] = "none"
      <4>1. p # o
        BY <2>1, <3>1
      <4> QED BY <1>1, <3>1, <4>1 DEF VenueTrades, IInv, TypeOK
    <3> QED BY <3>1 DEF Orders
  <2>3. NoneIssued
    BY <2>1, <2>2, NoneSent DEF ledger
  <2> QED BY <2>1, <2>3, QuietKeeps DEF ledger, control, LevelInv, AtPlace
<1>2. CASE StrategyMoves
  <2>1. UNCHANGED <<account, market, ledger, manager, control>>
    BY <1>2 DEF StrategyMoves
  <2>2. NoneIssued
    BY <2>1, SameLedger
  <2> QED BY <2>1, <2>2, QuietKeeps DEF ledger, control, LevelInv, AtPlace
<1>3. ASSUME NEW due \in BOOLEAN, StartTick(due) PROVE LevelInv'
  <2>1. UNCHANGED <<account, market, recorded, order, manager>> /\ intents' = intents
        /\ pc' \in {"idle", "recover", "external", "protect"}
    BY <1>3 DEF StartTick, Secure, Goto, control
  <2>2. NoneIssued
    BY <2>1, NoneSent DEF market
  <2> QED BY <2>1, <2>2, QuietKeeps
<1>4. ASSUME NEW expired \in SUBSET Unsent, Recover(expired) PROVE LevelInv'
  <2>1. UNCHANGED <<account, manager>> /\ intents' = intents /\ pc' \in {"external", "protect"}
        /\ Settles
    BY <1>4, RecoverSettles
  <2>2. NoneIssued /\ order' = order
    BY <2>1, SettlesIssuesNone DEF NoneIssued, Settles
  <2> QED BY <2>1, <2>2, QuietKeeps
<1>5. ASSUME NEW o \in Orders, Confirm(o) PROVE LevelInv'
  <2>1. UNCHANGED <<account, market, recorded, order, manager, control>> /\ pc = "idle"
    BY <1>5 DEF Confirm
  <2>2. NoneIssued
    BY <2>1, NoneSent DEF market
  <2> QED BY <2>1, <2>2, QuietKeeps DEF control
<1> QED BY <1>1, <1>2, <1>3, <1>4, <1>5 DEF Reading

LEMMA CancellingKeepsLevels ==
    ASSUME IInv, IInv', LevelInv,
           ApplyCancel \/ Exit \/ (\E o \in Orders : Clear(o)) \/ Answer
    PROVE  LevelInv'
<1>1. CASE ApplyCancel
  <2>1. /\ CancelAndRead(Head(intents).order) /\ UNCHANGED <<account, manager>> /\ intents # <<>>
        /\ \/ Head(intents).action = "replace" /\ pc' = "resync" /\ intents' = intents
           \/ intents' = Tail(intents) /\ pc' = "apply"
    BY <1>1 DEF ApplyCancel, Step, Drop
  <2>2. Settles
    BY <2>1, CancelSettles DEF IInv, account
  <2>3. NoneIssued /\ order' = order
    BY <2>2, SettlesIssuesNone DEF NoneIssued, Settles
  <2> QED BY <2>1, <2>3, QuietKeeps DEF Placing
<1>2. CASE Exit
  <2>1. /\ UNCHANGED <<account, market, manager>> /\ intents # <<>>
        /\ \/ intents' = Tail(intents) /\ pc' = "apply"
           \/ intents' = intents /\ pc' = "clear"
    BY <1>2 DEF Exit, Drop, IInv, Planned
  <2>2. \/ Read({o \in own \ Unsent : Live(o)}, {})
        \/ UNCHANGED ledger
        \/ \E o \in own \ Unsent : Live(o) /\ Read({o}, {o})
    BY <1>2 DEF Exit
  <2>3. own \subseteq Orders
    BY DEF IInv, TypeOK
  <2>4. ASSUME NEW o \in Orders
        PROVE  recorded[o] <= recorded'[o] /\ (o \in Issued' => o \in Issued)
    <3>1. recorded[o] \in Nat /\ traded[o] \in Nat /\ recorded[o] <= traded[o]
      BY DEF IInv, TypeOK
    <3>2. recorded'[o] \in {recorded[o], traded[o]}
      BY <2>2, <2>3 DEF Read, ledger
    <3> QED BY <2>1, <3>1, <3>2 DEF Issued, market
  <2>5. NoneIssued /\ order' = order
    BY <2>2, <2>4 DEF NoneIssued, Read, ledger
  <2> QED BY <2>1, <2>5, QuietKeeps
<1>3. ASSUME NEW o \in Orders, Clear(o) PROVE LevelInv'
  <2>1. /\ CancelAndRead(o) /\ UNCHANGED <<account, manager>> /\ intents # <<>>
        /\ \/ pc' = "clear" /\ intents' = intents
           \/ intents' = Tail(intents) /\ pc' = "apply"
    BY <1>3 DEF Clear, Drop, IInv, Planned
  <2>2. Settles
    BY <2>1, CancelSettles DEF IInv, account
  <2>3. NoneIssued /\ order' = order
    BY <2>2, SettlesIssuesNone DEF NoneIssued, Settles
  <2> QED BY <2>1, <2>3, QuietKeeps
<1>4. CASE Answer
  <2>1. /\ UNCHANGED <<account, market, manager>> /\ intents # <<>>
        /\ \/ intents' = Tail(intents) /\ pc' = "apply"
           \/ intents' = intents /\ pc' = "exit"
        /\ Read({current}, {}) \/ UNCHANGED ledger
    BY <1>4 DEF Answer, Drop, NotAccepted, IInv, Planned
  <2>2. Live(current)
    BY <1>4 DEF Answer, IInv, Sending, Live
  <2>3. ASSUME NEW o \in Orders
        PROVE  recorded[o] <= recorded'[o] /\ (o \in Issued' => o \in Issued)
    <3>1. recorded[o] \in Nat /\ traded[o] \in Nat /\ recorded[o] <= traded[o]
      BY DEF IInv, TypeOK
    <3>2. recorded'[o] \in {recorded[o], traded[o]}
      BY <2>1, <2>2 DEF Read, ledger
    <3> QED BY <2>1, <3>1, <3>2 DEF Issued, market
  <2>4. NoneIssued /\ order' = order
    BY <2>1, <2>3 DEF NoneIssued, Read, ledger
  <2> QED BY <2>1, <2>4, QuietKeeps
<1> QED BY <1>1, <1>2, <1>3, <1>4

LEMMA TickKeepsLevels ==
    ASSUME IInv, IInv', LevelInv,
           \/ Resync \/ StartPlace \/ StartFlatten \/ Cleared \/ Review \/ PlanDone \/ EndTick
           \/ UNCHANGED vars
    PROVE  LevelInv'
<1>1. CASE Resync
  <2>1. /\ UNCHANGED <<account, market, ledger, manager>> /\ intents # <<>> /\ Placing(Head(intents))
        /\ \/ pc' = "place" /\ intents' = intents
           \/ intents' = Tail(intents) /\ pc' = "apply"
    BY <1>1 DEF Resync, Step, Drop, LevelInv, AtPlace
  <2>2. NoneIssued
    BY <2>1, SameLedger
  <2> QED BY <2>1, <2>2, QuietKeeps DEF ledger
<1>3. CASE StartPlace \/ StartFlatten \/ Cleared \/ Review \/ PlanDone \/ EndTick
  <2>1. /\ UNCHANGED <<account, market, ledger, manager>>
        /\ \/ intents' = intents /\ pc' \notin {"resync", "place", "send"}
           \/ intents # <<>> /\ intents' = Tail(intents) /\ pc' \in {"apply", "protect"}
           \/ intents' = intents /\ pc' = "place" /\ intents # <<>> /\ Placing(Head(intents))
    BY <1>3 DEF StartPlace, StartFlatten, Cleared, Review, PlanDone, EndTick, Step, Drop, Goto, Placing,
                IInv, Planned
  <2>2. NoneIssued
    BY <2>1, SameLedger
  <2> QED BY <2>1, <2>2, QuietKeeps DEF ledger
<1>4. CASE UNCHANGED vars
  <2>1. UNCHANGED <<account, market, ledger, manager, control>>
    BY <1>4 DEF vars, account, market, ledger, control
  <2>2. NoneIssued
    BY <2>1, SameLedger
  <2> QED BY <2>1, <2>2, QuietKeeps DEF ledger, control, LevelInv, AtPlace
<1> QED BY <1>1, <1>3, <1>4

(* A stop that reaches the venue is at the level the manager asked for.     *)
LEMMA SendKeepsLevels ==
    ASSUME IInv, IInv', LevelInv, Send
    PROVE  LevelInv'
<1>1. UNCHANGED <<account, traded, recorded, order, manager>> /\ intents # <<>> /\ pc = "send"
      /\ current \in Orders
  BY DEF Send, IInv, Planned, Sending
<1>2. CASE venue' = [venue EXCEPT ![current] = "working"] /\ Step("answer") /\ UNCHANGED current
  <2>1. ASSUME NEW p \in Issued' PROVE p \in Issued \/ p = current
    <3>1. p \in Stops /\ p \in Orders /\ venue'[p] # "none"
      BY <2>1 DEF Issued, Stops, Orders
    <3> QED BY <1>2, <3>1 DEF Issued, IInv, TypeOK
  <2>2. /\ Owned' = Owned /\ opened' = opened /\ manager' = manager /\ order' = order
        /\ intents' = intents /\ pc' = "answer"
    BY <1>1, <1>2 DEF Step, account, Owned, Bought, Units, Orders, Stops, Exits
  <2>3. Remembers'
    <3>1. SUFFICES ASSUME manager.known, Owned > 0
                   PROVE  \/ \A p \in Issued' : order[p].position # opened
                          \/ /\ manager.position = opened
                             /\ \A p \in Issued' : order[p].position = opened =>
                                  order[p].level <= manager.accepted \/ order[p].level <= manager.requested
      BY <2>2 DEF Remembers, Covers
    <3>2. CASE current \in Stops
      <4>1. /\ manager.position = opened /\ order[current].level = manager.requested
        BY <1>1, <3>2 DEF LevelInv, AboutToSend
      <4>2. manager.requested \in Nat
        BY LevelFinite DEF IInv, TypeOK
      <4>3. order[current].level <= manager.requested
        BY <4>1, <4>2
      <4>4. ASSUME NEW p \in Issued, order[p].position = opened
            PROVE  order[p].level <= manager.accepted \/ order[p].level <= manager.requested
        BY <3>1, <4>4 DEF LevelInv, Remembers, Covers
      <4> QED BY <2>1, <4>1, <4>3, <4>4
    <3>3. CASE current \notin Stops
      <4>1. Issued' \subseteq Issued
        <5>1. \A p \in Issued' : p \in Stops
          BY DEF Issued, Stops
        <5> QED BY <2>1, <3>3, <5>1
      <4> QED BY <3>1, <4>1 DEF LevelInv, Remembers, Covers
    <3> QED BY <3>2, <3>3
  <2>4. InPlace'
    BY <2>2 DEF LevelInv, InPlace, Orders, Stops, Exits
  <2>5. Asks' /\ AtPlace' /\ AboutToSend'
    BY <2>2 DEF LevelInv, Asks, AsksOf, AtPlace, AboutToSend
  <2> QED BY <2>3, <2>4, <2>5 DEF LevelInv
<1>3. CASE UNCHANGED venue /\ NotAccepted
  <2>1. \/ intents' = Tail(intents) /\ pc' = "apply"
        \/ intents' = intents /\ pc' = "exit"
    BY <1>3 DEF Drop, NotAccepted
  <2>2. NoneIssued
    BY <1>1, <1>3, NoneSent
  <2> QED BY <1>1, <2>1, <2>2, QuietKeeps
<1> QED BY <1>2, <1>3 DEF Send

(* Neither part of an external exit asks for a stop.                        *)
LEMMA StartExternalKeepsLevels ==
    ASSUME IInv, IInv', LevelInv, StartExternal
    PROVE  LevelInv'
<1> DEFINE plan == <<External("external"), External("review")>>
<1>1. UNCHANGED <<account, market, ledger, manager>> /\ intents' = plan /\ pc' = "exit"
  BY DEF StartExternal
<1>2. \A n \in DOMAIN plan : ~Placing(plan[n])
  <2>1. ~Placing(External("external")) /\ ~Placing(External("review"))
    BY DEF Placing, External
  <2>2. DOMAIN plan = {1, 2} /\ plan[1] = External("external") /\ plan[2] = External("review")
    OBVIOUS
  <2> HIDE DEF plan
  <2> QED BY <2>1, <2>2
<1> HIDE DEF plan
<1>3. NoneIssued
  BY <1>1, SameLedger
<1>4. InPlace' /\ Remembers'
  BY <1>1, <1>3, NothingIssued DEF LevelInv, NoneIssued, account, ledger
<1>5. Asks'
  BY <1>1, <1>2 DEF Asks, AsksOf, Placing
<1>6. AtPlace' /\ AboutToSend'
  BY <1>1 DEF AtPlace, AboutToSend
<1> QED BY <1>4, <1>5, <1>6 DEF LevelInv

(* The first entry of a position gives it a number no order has yet.        *)
LEMMA EnterKeepsLevels ==
    ASSUME IInv, LevelInv, Enter
    PROVE  LevelInv'
<1>1. /\ UNCHANGED <<order, venue, manager, intents, pc>> /\ pc = "after"
      /\ opened' = IF Owned = 0 THEN opened + 1 ELSE opened
  BY DEF Enter, market, ledger, control
<1>2. opened \in Nat /\ (\A o \in Orders : order[o].position \in Nat)
  BY DEF IInv, TypeOK
<1>3. Owned \in Nat
  BY Positions DEF IInv
<1>4. \A o \in Orders : order[o].position <= opened
  BY DEF LevelInv, InPlace
<1>5. InPlace'
  <2>1. ASSUME NEW o \in Orders PROVE order[o].position <= opened'
    <3>1. order[o].position \in Nat /\ order[o].position <= opened
      BY <1>2, <1>4
    <3>2. opened' \in {opened, opened + 1}
      BY <1>1
    <3> QED BY <1>2, <3>1, <3>2
  <2>2. order' = order
    BY <1>1
  <2> QED BY <2>1, <2>2 DEF InPlace, Orders, Stops, Exits
<1>6. Remembers'
  <2>1. CASE Owned = 0
    <3>1. ASSUME NEW p \in Stops PROVE order'[p].position # opened'
      <4>1. order[p].position \in Nat /\ order[p].position <= opened
        BY <1>2, <1>4 DEF Orders
      <4> QED BY <1>1, <1>2, <2>1, <4>1
    <3>2. \A p \in Issued' : order'[p].position # opened'
      BY <3>1 DEF Issued, Stops
    <3> QED BY <3>2 DEF Remembers
  <2>2. CASE Owned # 0
    <3>1. Owned > 0 /\ opened' = opened
      BY <1>1, <1>3, <2>2
    <3>2. Issued' = Issued
      BY <1>1 DEF Issued, Stops
    <3> QED BY <1>1, <3>1, <3>2 DEF LevelInv, Remembers, Covers
  <2> QED BY <2>1, <2>2
<1>7. Asks' /\ AtPlace' /\ AboutToSend'
  BY <1>1 DEF LevelInv, Asks, AsksOf, AtPlace, AboutToSend
<1> QED BY <1>5, <1>6, <1>7 DEF LevelInv

(* A crash forgets the manager and the plan.                                *)
LEMMA CrashKeepsLevels ==
    ASSUME LevelInv, Crash
    PROVE  LevelInv'
<1>1. UNCHANGED <<opened, order>> /\ manager' = NoManager /\ pc' = "idle" /\ intents' = <<>>
  BY DEF Crash, account, ledger
<1>2. InPlace'
  BY <1>1 DEF LevelInv, InPlace, Orders, Stops, Exits
<1>3. ~manager'.known
  BY <1>1 DEF NoManager
<1>4. Remembers' /\ Asks' /\ AtPlace' /\ AboutToSend'
  BY <1>1, <1>3 DEF Remembers, Asks, AsksOf, AtPlace, AboutToSend
<1> QED BY <1>2, <1>4 DEF LevelInv

LEMMA CreatedInPlace ==
    ASSUME IInv, InPlace, NEW o \in Orders, NEW qty, NEW level, Create(o, qty, level),
           opened' = opened
    PROVE  InPlace'
<1>1. ASSUME NEW p \in Orders PROVE order'[p].position <= opened'
  <2>1. order'[p].position = IF p = o THEN opened ELSE order[p].position
    BY DEF Create, IInv, TypeOK
  <2>2. opened \in Nat /\ order[p].position <= opened
    BY DEF InPlace, IInv, TypeOK
  <2> QED BY <2>1, <2>2
<1> QED BY <1>1 DEF InPlace, Orders, Stops, Exits

(* A market exit is no stop.                                                *)
LEMMA SellKeepsLevels ==
    ASSUME IInv, IInv', LevelInv, Sell
    PROVE  LevelInv'
<1> DEFINE o == First(Free(Exits))
<1>1. UNCHANGED <<account, market, manager>> /\ intents # <<>>
  BY DEF Sell, IInv, Planned
<1>2. CASE Drop(TRUE) /\ UNCHANGED ledger
  <2>1. NoneIssued
    BY <1>1, <1>2, SameLedger
  <2>2. intents' = Tail(intents) /\ pc' = "apply" /\ order' = order
    BY <1>2 DEF Drop, ledger
  <2> QED BY <1>1, <2>1, <2>2, QuietKeeps
<1>3. CASE Free(Exits) # {} /\ Create(o, Sellable(held), 0) /\ Step("send")
  <2>1. o \in Exits
    <3>1. Free(Exits) \subseteq Exits
      BY DEF Free
    <3> QED BY <1>3, <3>1, FirstOf
  <2> HIDE DEF o
  <2>2. InPlace'
    BY <1>1, <1>3, <2>1, CreatedInPlace DEF LevelInv, account, Orders
  <2>3. \A p \in Stops : order'[p] = order[p]
    <3>1. \A p \in Stops : p # o
      BY <2>1 DEF Stops, Exits
    <3> QED BY <1>3, <3>1 DEF Create, IInv, TypeOK, Orders
  <2>4. Issued' = Issued /\ Owned' = Owned /\ opened' = opened /\ manager' = manager
        /\ intents' = intents /\ pc' = "send" /\ current' = o
    BY <1>1, <1>3, <2>3
    DEF Issued, Create, Step, account, market, Owned, Bought, Units, Orders, Stops, Exits
  <2>5. \A p \in Issued : order'[p] = order[p]
    BY <2>3 DEF Issued
  <2>6. Remembers'
    BY <2>4, <2>5 DEF LevelInv, Remembers, Covers
  <2>7. Asks' /\ AtPlace'
    BY <2>4 DEF LevelInv, Asks, AsksOf, AtPlace
  <2>8. AboutToSend'
    <3>1. o \notin Stops
      BY <2>1 DEF Stops, Exits
    <3> QED BY <2>4, <3>1 DEF AboutToSend, Stops
  <2> QED BY <2>2, <2>6, <2>7, <2>8 DEF LevelInv
<1> QED BY <1>2, <1>3 DEF Sell

(* A stop is created at the level the manager asked for.                    *)
LEMMA PlaceKeepsLevels ==
    ASSUME IInv, IInv', LevelInv, Place
    PROVE  LevelInv'
<1> DEFINE intent == Head(intents)
           qty == Sellable(Min({intent.qty, held}))
           o == First(Free(Stops))
<1>1. UNCHANGED <<account, market, manager, held>> /\ intents # <<>> /\ pc = "place"
  BY DEF Place, IInv, Planned
<1>2. CASE /\ UNCHANGED ledger
           /\ \/ intents' = Tail(intents) /\ pc' = "apply"
              \/ intents' = intents /\ pc' = "exit"
  <2>1. NoneIssued
    BY <1>1, <1>2, SameLedger
  <2> QED BY <1>1, <1>2, <2>1, QuietKeeps DEF ledger
<1>3. CASE /\ Attributed /\ held # 0 /\ SamePosition(intent) /\ Free(Stops) # {}
           /\ Create(o, qty, intent.level) /\ Step("send")
  <2>1. o \in Stops /\ venue[o] = "none"
    <3>1. Free(Stops) \subseteq Stops
      BY DEF Free
    <3>2. o \in Free(Stops)
      BY <1>3, <3>1, FirstOf
    <3> HIDE DEF o
    <3> QED BY <3>1, <3>2 DEF Free, IInv, Rows, Orders
  <2>2. /\ manager.known /\ manager.position = opened
        /\ intent.level = manager.requested /\ manager.accepted <= manager.requested
    <3>1. 1 \in DOMAIN intents /\ intents[1] = intent
      BY <1>1 DEF IInv, TypeOK
    <3>2. Placing(intent)
      BY <1>1 DEF LevelInv, AtPlace
    <3> HIDE DEF intent
    <3> QED BY <1>3, <3>1, <3>2 DEF LevelInv, Asks, AsksOf, SamePosition
  <2>3. Owned > 0
    <3>1. held \in Nat /\ Owned = held
      BY <1>3 DEF IInv, TypeOK, Attributed
    <3> QED BY <1>3, <3>1
  <2> HIDE DEF o, qty, intent
  <2>4. InPlace'
    BY <1>1, <1>3, <2>1, CreatedInPlace DEF LevelInv, account, Orders
  <2>5. Owned' = Owned /\ opened' = opened /\ manager' = manager
        /\ intents' = intents /\ pc' = "send" /\ current' = o
    BY <1>1, <1>3 DEF Create, Step, account, Owned, Bought, Units, Orders, Stops, Exits
  <2>6. order'[o].position = opened /\ order'[o].level = manager.requested
    BY <1>3, <2>1, <2>2 DEF Create, IInv, TypeOK, Orders
  <2>7. Issued' = Issued /\ (\A p \in Issued : order'[p] = order[p])
    <3>1. Issued' = Issued
      BY <1>1 DEF Issued, Stops, market
    <3>2. ASSUME NEW p \in Issued PROVE order'[p] = order[p]
      <4>1. p # o /\ p \in Orders
        BY <2>1, <3>2 DEF Issued, Orders
      <4> QED BY <1>3, <4>1 DEF Create, IInv, TypeOK
    <3> QED BY <3>1, <3>2
  <2>8. Remembers'
    BY <2>5, <2>7 DEF LevelInv, Remembers, Covers
  <2>9. Asks' /\ AtPlace'
    BY <2>5 DEF LevelInv, Asks, AsksOf, AtPlace
  <2>10. AboutToSend'
    BY <2>2, <2>3, <2>5, <2>6 DEF AboutToSend
  <2> QED BY <2>4, <2>8, <2>9, <2>10 DEF LevelInv
<1> QED BY <1>2, <1>3 DEF Place, Drop

(* A cancellation asks for no stop.                                         *)
LEMMA CancelsPlaceNone ==
    ASSUME NEW S, NEW n \in DOMAIN Cancels(S)
    PROVE  ~Placing(Cancels(S)[n])
BY DEF Cancels, Cancel, Placing

(* What the manager makes of its levels is no lower than they were, and what*)
(* it asks for is at that level and for the position held.                  *)
LEMMA EvaluateHolds ==
    ASSUME TypeOK, NEW m \in Managers, held > 0, m.known, m.position = opened, Covers(m)
    PROVE  /\ Evaluate(m).manager.known /\ Evaluate(m).manager.position = opened
           /\ \A p \in Issued : order[p].position = opened =>
                order[p].level <= Evaluate(m).manager.accepted
                \/ order[p].level <= Evaluate(m).manager.requested
           /\ AsksOf(Evaluate(m).plan, Evaluate(m).manager)
<1> DEFINE stale == {o \in LiveStops : order[o].position # opened}
           surviving == LiveStops \ stale
           target == Ratchet(m, IF stale # {} THEN surviving ELSE LiveStops)
           tightest == CHOOSE o \in LiveStops :
                         \A p \in LiveStops : order[p].level < order[o].level
                                              \/ (order[p].level = order[o].level /\ o[2] <= p[2])
           duplicates == Cancels(LiveStops \ {tightest})
           lone == CHOOSE o \in stale : TRUE
           all == Cancels(LiveStops \cup Indeterminate)
           asked == [m EXCEPT !.requested = target]
           taken == [m EXCEPT !.accepted = order[tightest].level]
           place == Stop("place", NoOrder, target)
           move == Stop("replace", tightest, target)
           swap == Stop("replace", lone, target)
<1>1. LiveStops \in SUBSET Stops /\ stale \in SUBSET Stops /\ surviving \in SUBSET Stops
      /\ Indeterminate \in SUBSET Stops /\ Stops \subseteq Orders
  BY DEF LiveStops, Indeterminate, Orders
<1>2. target \in Level /\ m.accepted <= target /\ m.requested <= target
  <2> DEFINE T == IF stale # {} THEN surviving ELSE LiveStops
             S == {desired, m.accepted, m.requested} \cup LevelsOf(T)
  <2>1. T \in SUBSET Orders
    BY <1>1
  <2> HIDE DEF T
  <2>2. S \in SUBSET Level
    BY <2>1, LevelsTyped DEF TypeOK, Managers
  <2>3. m.accepted \in S /\ m.requested \in S
    OBVIOUS
  <2> HIDE DEF S
  <2>4. S \cup {0} \in SUBSET Nat /\ S \cup {0} # {} /\ IsFiniteSet(S \cup {0})
    BY <2>2, LevelFinite, FS_Subset DEF Level
  <2>5. Top(S) \in Level /\ \A n \in S : n <= Top(S)
    BY <2>2, <2>4, TopTyped, Largest DEF Top
  <2>6. target = Top(S)
    BY DEF S, T, Ratchet
  <2> QED BY <2>3, <2>5, <2>6
<1>3. LiveStops # {} => tightest \in LiveStops
  BY TightestOf
<1>4. \/ Evaluate(m) = [plan |-> all, manager |-> m]
      \/ Evaluate(m) = [plan |-> <<Flatten>>, manager |-> m]
      \/ Evaluate(m) = [plan |-> <<swap>>, manager |-> asked]
      \/ Evaluate(m) = [plan |-> Cancels(stale), manager |-> m]
      \/ Evaluate(m) = [plan |-> <<place>>, manager |-> asked]
      \/ Evaluate(m) = [plan |-> duplicates \o <<move>>, manager |-> asked]
      \/ /\ LiveStops # {} /\ ~(target > order[tightest].level)
         /\ Evaluate(m) = [plan |-> duplicates, manager |-> taken]
  <2>0. held # 0
    BY DEF TypeOK
  <2>1. CASE Available = 0
    BY <2>0, <2>1 DEF Evaluate
  <2>2. CASE Available # 0
    BY <2>0, <2>2 DEF Evaluate
  <2> QED BY <2>1, <2>2
<1>5. \A S : \A n \in DOMAIN Cancels(S) : ~Placing(Cancels(S)[n])
  BY CancelsPlaceNone
<1>6. /\ m.accepted \in Nat /\ m.requested \in Nat /\ target \in Nat
      /\ \A p \in Issued : order[p].level \in Nat
  <2>1. Issued \subseteq Orders
    BY DEF Issued, Orders
  <2> HIDE DEF target
  <2> QED BY <1>2, <2>1, LevelFinite DEF TypeOK, Managers
<1>7. /\ asked.known /\ asked.position = opened /\ asked.accepted = m.accepted
      /\ asked.requested = target
      /\ taken.known /\ taken.position = opened /\ taken.accepted = order[tightest].level
      /\ taken.requested = m.requested
  <2> HIDE DEF target, tightest
  <2> QED BY DEF Managers
<1>8. \A p \in Issued : order[p].position = opened => order[p].level <= target
  <2> HIDE DEF target
  <2>1. ASSUME NEW p \in Issued, order[p].position = opened PROVE order[p].level <= target
    <3>1. order[p].level <= m.accepted \/ order[p].level <= m.requested
      BY <2>1 DEF Covers
    <3>2. order[p].level \in Nat
      BY <1>6
    <3> QED BY <1>2, <1>6, <3>1, <3>2
  <2> QED BY <2>1
<1>9. ~Placing(Flatten)
  BY DEF Flatten, Placing
<1>10. /\ place.position = opened /\ place.level = target
       /\ move.position = opened /\ move.level = target
       /\ swap.position = opened /\ swap.level = target
  BY DEF Stop
<1> HIDE DEF stale, surviving, target, tightest, lone, asked, taken, place, move, swap
<1>11. /\ AsksOf(all, m) /\ AsksOf(<<Flatten>>, m) /\ AsksOf(Cancels(stale), m)
       /\ AsksOf(duplicates, taken)
  BY <1>5, <1>9 DEF AsksOf
<1>12. AsksOf(<<swap>>, asked) /\ AsksOf(<<place>>, asked)
  BY <1>2, <1>7, <1>10 DEF AsksOf
<1>13. AsksOf(duplicates \o <<move>>, asked)
  <2>1. LiveStops \ {tightest} \in SUBSET Stops
    BY <1>1
  <2>2. duplicates \in Seq(Intent)
    BY <2>1, CancelsTyped
  <2>3. \A n \in DOMAIN duplicates : ~Placing(duplicates[n])
    BY <1>5
  <2> HIDE DEF duplicates
  <2>4. ASSUME NEW n \in DOMAIN (duplicates \o <<move>>)
        PROVE  \/ (duplicates \o <<move>>)[n] = move
               \/ ~Placing((duplicates \o <<move>>)[n])
    <3>1. CASE n \in DOMAIN duplicates
      BY <2>2, <2>3, <3>1
    <3>2. CASE n \notin DOMAIN duplicates
      BY <2>2, <3>2
    <3> QED BY <3>1, <3>2
  <2> QED BY <1>2, <1>7, <1>10, <2>4 DEF AsksOf
<1> HIDE DEF all, duplicates
<1>14. CASE \/ Evaluate(m) = [plan |-> all, manager |-> m]
            \/ Evaluate(m) = [plan |-> <<Flatten>>, manager |-> m]
            \/ Evaluate(m) = [plan |-> Cancels(stale), manager |-> m]
  BY <1>11, <1>14 DEF Covers
<1> DEFINE moved == <<swap>>
           placed == <<place>>
           tightened == duplicates \o <<move>>
<1>15. CASE \/ Evaluate(m) = [plan |-> moved, manager |-> asked]
            \/ Evaluate(m) = [plan |-> placed, manager |-> asked]
            \/ Evaluate(m) = [plan |-> tightened, manager |-> asked]
  <2>1. AsksOf(moved, asked) /\ AsksOf(placed, asked) /\ AsksOf(tightened, asked)
    BY <1>12, <1>13
  <2> HIDE DEF moved, placed, tightened
  <2> QED BY <1>7, <1>8, <1>15, <2>1
<1>16. CASE /\ LiveStops # {} /\ ~(target > order[tightest].level)
            /\ Evaluate(m) = [plan |-> duplicates, manager |-> taken]
  <2>1. order[tightest].level \in Nat /\ target <= order[tightest].level
    <3>1. order[tightest].level \in Nat
      BY <1>1, <1>3, <1>16, LevelFinite DEF TypeOK
    <3> QED BY <1>6, <1>16, <3>1
  <2>2. \A p \in Issued : order[p].position = opened => order[p].level <= taken.accepted
    BY <1>6, <1>7, <1>8, <2>1
  <2> QED BY <1>7, <1>11, <1>16, <2>2
<1> QED BY <1>4, <1>14, <1>15, <1>16

(* A manager made anew remembers every stop of the position: those on record*)
(* are settled.                                                             *)
LEMMA ProtectKeepsLevels ==
    ASSUME IInv, LevelInv, RestoresSettled, Protect
    PROVE  LevelInv' /\ (pc' = "apply" => manager'.known)
<1> DEFINE m == IF manager.known THEN manager ELSE Restored
           known == IF held > 0 THEN Remembered(m) ELSE m
           out == Evaluate(known)
           ofPosition == {o \in Stops : Confirmed(o) /\ order[o].position = opened}
<1>1. UNCHANGED <<account, market, ledger, held>> /\ pc = "protect"
  BY DEF Protect
<1>2. CASE pc' = "after" /\ UNCHANGED <<manager, intents>>
  <2>1. Issued' = Issued /\ Owned' = Owned /\ UNCHANGED <<opened, order, manager, intents>>
    BY <1>1, <1>2
    DEF Issued, account, market, ledger, Owned, Bought, Units, Orders, Stops, Exits
  <2> QED BY <1>2, <2>1 DEF LevelInv, InPlace, Remembers, Covers, Asks, AsksOf, AtPlace, AboutToSend,
                           Orders, Stops, Exits
<1>3. CASE Attributed /\ manager' = out.manager /\ intents' = out.plan /\ pc' = "apply"
  <2>1. manager \in Managers /\ opened \in Nat /\ held \in Nat
    BY Parts DEF IInv, ControlTyped
  <2>2. ofPosition \in SUBSET Orders
    BY DEF Orders
  <2>3. LevelsOf(ofPosition) \in SUBSET Level
    BY <2>2, LevelsTyped DEF IInv
  <2>4. Top(LevelsOf(ofPosition)) \in Level /\ \A n \in LevelsOf(ofPosition) : n <= Top(LevelsOf(ofPosition))
    <3> DEFINE S == LevelsOf(ofPosition)
    <3>1. S \in SUBSET Level
      BY <2>3
    <3> HIDE DEF S
    <3>2. S \cup {0} \in SUBSET Nat /\ S \cup {0} # {} /\ IsFiniteSet(S \cup {0})
      BY <3>1, LevelFinite, FS_Subset DEF Level
    <3>3. Top(S) \in Level /\ \A n \in S : n <= Top(S)
      BY <3>1, <3>2, TopTyped, Largest DEF Top
    <3> QED BY <3>3 DEF S
  <2>5. /\ Restored.known
        /\ held > 0 => Restored.accepted = Top(LevelsOf(ofPosition))
        /\ held > 0 /\ ofPosition # {} => Restored.position = opened
        /\ Restored \in Managers
    <3>1. Restored = [known |-> TRUE, requested |-> 0,
                      position |-> IF ofPosition # {} /\ held > 0 THEN opened ELSE 0,
                      accepted |-> IF held = 0 THEN 0 ELSE Top(LevelsOf(ofPosition))]
      BY DEF Restored
    <3> HIDE DEF ofPosition
    <3> QED BY <2>1, <2>4, <3>1 DEF Managers, Level
  <2>6. m \in Managers /\ m.known
    BY <2>1, <2>5
  <2>7. /\ Issued' = Issued /\ Owned' = Owned /\ opened' = opened /\ order' = order
        /\ Owned = held
    BY <1>1, <1>3
    DEF Issued, account, market, ledger, Owned, Bought, Units, Orders, Stops, Exits, Attributed
  <2>8. InPlace'
    BY <2>7 DEF LevelInv, InPlace, Orders, Stops, Exits
  <2>9. AtPlace' /\ AboutToSend'
    BY <1>3 DEF AtPlace, AboutToSend
  <2>10. CASE held = 0
    <3>1. out = [plan |-> Cancels(LiveStops \cup Indeterminate),
                 manager |-> [NoManager EXCEPT !.known = TRUE]]
      BY <2>10 DEF Evaluate
    <3>2. \A n \in DOMAIN intents' : ~Placing(intents'[n])
      <4>1. intents' = Cancels(LiveStops \cup Indeterminate)
        BY <1>3, <3>1
      <4> QED BY <4>1, CancelsPlaceNone
    <3>3. ~(Owned' > 0)
      BY <2>7, <2>10
    <3>4. manager'.known
      BY <1>3, <3>1 DEF NoManager
    <3> QED BY <2>8, <2>9, <3>2, <3>3, <3>4 DEF LevelInv, Remembers, Asks, AsksOf, Placing
  <2>11. CASE held > 0
    <3>1. /\ known \in Managers /\ known.known /\ known.position = opened
          /\ m.position = opened => known = m
      <4> HIDE DEF m
      <4>1. known = IF m.position = opened THEN m
                    ELSE [NoManager EXCEPT !.known = TRUE, !.position = opened]
        BY <2>11 DEF Remembered
      <4> HIDE DEF known
      <4> QED BY <2>1, <2>6, <4>1 DEF Managers, NoManager, Level
    <3>2. Covers(known)
      <4> SUFFICES ASSUME NEW p \in Issued, order[p].position = opened
                   PROVE  order[p].level <= known.accepted \/ order[p].level <= known.requested
        BY DEF Covers
      <4>1. CASE manager.known
        <5>1. manager.position = opened /\ Covers(manager)
          BY <2>7, <2>11, <4>1 DEF LevelInv, Remembers
        <5>2. known = manager
          BY <3>1, <4>1, <5>1
        <5> QED BY <5>1, <5>2 DEF Covers
      <4>2. CASE ~manager.known
        <5>1. Confirmed(p)
          <6>1. /\ p \in Stops /\ p \in Orders /\ venue[p] # "none"
                /\ row[p] \in {"none", "intent", "live", "unknown", "rejected", "canceled"}
            BY DEF Issued, IInv, TypeOK, Orders
          <6>2. row[p] \notin {"none", "intent", "rejected"}
            BY <6>1 DEF IInv, Rows
          <6>3. row[p] # "unknown"
            BY <1>1, <1>3, <4>2, <6>1 DEF RestoresSettled, Settled, Indeterminate
          <6> QED BY <6>1, <6>2, <6>3 DEF Confirmed
        <5>2. p \in ofPosition
          BY <5>1 DEF Issued
        <5>3. order[p].level <= Top(LevelsOf(ofPosition))
          BY <2>4, <5>2 DEF LevelsOf
        <5>4. known = Restored
          BY <2>5, <2>11, <3>1, <4>2, <5>2
        <5> QED BY <2>5, <2>11, <5>3, <5>4
      <4> QED BY <4>1, <4>2
    <3> HIDE DEF known
    <3>3. /\ out.manager.known /\ out.manager.position = opened
          /\ \A p \in Issued : order[p].position = opened =>
               order[p].level <= out.manager.accepted \/ order[p].level <= out.manager.requested
          /\ AsksOf(out.plan, out.manager)
      BY <2>11, <3>1, <3>2, EvaluateHolds DEF IInv
    <3> HIDE DEF out
    <3>4. Remembers'
      BY <1>3, <2>7, <3>3 DEF Remembers, Covers
    <3>5. Asks'
      BY <1>3, <3>3 DEF Asks, AsksOf
    <3>6. manager'.known
      BY <1>3, <3>3
    <3> QED BY <2>8, <2>9, <3>4, <3>5, <3>6 DEF LevelInv
  <2> QED BY <2>1, <2>10, <2>11
<1> QED BY <1>2, <1>3 DEF Protect

LEMMA InitLevels == Init => LevelInv
<1> SUFFICES ASSUME Init PROVE LevelInv
  OBVIOUS
<1>1. InPlace
  BY DEF Init, InPlace
<1>2. Remembers /\ Asks /\ AtPlace /\ AboutToSend
  BY DEF Init, Remembers, Asks, AsksOf, AtPlace, AboutToSend, NoManager
<1> QED BY <1>1, <1>2 DEF LevelInv

LEMMA NextLevels == IInv /\ LevelInv /\ RestoresSettled /\ [Next]_vars => LevelInv'
<1> SUFFICES ASSUME IInv, LevelInv, RestoresSettled, [Next]_vars PROVE LevelInv'
  OBVIOUS
<1>1. IInv'
  BY NextIInv
<1>2. CASE UNCHANGED vars \/ Reading
  BY <1>1, <1>2, ReadingKeepsLevels, TickKeepsLevels
<1>3. CASE Enter \/ Crash
  BY <1>3, EnterKeepsLevels, CrashKeepsLevels
<1>4. CASE Engine
  BY <1>1, <1>4, ReadingKeepsLevels, StartExternalKeepsLevels, CancellingKeepsLevels,
     TickKeepsLevels, SendKeepsLevels, ProtectKeepsLevels, PlaceKeepsLevels, SellKeepsLevels
  DEF Engine, Reading
<1> QED BY <1>2, <1>3, <1>4 DEF Next, Reading

(* A stop reaches the venue by being sent, at the level asked for.          *)
LEMMA SentNoLower ==
    ASSUME IInv, LevelInv, [Next]_vars,
           NEW o \in Stops, venue[o] = "none", venue'[o] = "working",
           NEW p \in Stops, Confirmed(p), order[p].position = order[o].position
    PROVE  order[p].level <= order[o].level
<1>1. o \in Orders /\ venue \in [Orders -> {"none", "working", "ended"}]
  BY DEF Orders, IInv, TypeOK
<1>2. Send /\ o = current
  <2>1. CASE UNCHANGED venue
    BY <2>1
  <2>2. ASSUME NEW q \in Orders, VenueTrades(q) PROVE FALSE
    <3>1. venue[q] = "working"
          /\ venue' = [venue EXCEPT ![q] = IF traded[q] + 1 = order[q].qty THEN "ended" ELSE @]
      BY <2>2 DEF VenueTrades
    <3> QED BY <1>1, <3>1
  <2>3. ASSUME NEW q, CancelAndRead(q) PROVE FALSE
    <3>1. venue' \in {venue, [venue EXCEPT ![q] = IF @ = "working" THEN "ended" ELSE @]}
      BY <2>3 DEF CancelAndRead
    <3> QED BY <1>1, <3>1
  <2>4. CASE Send
    <3>1. venue' = [venue EXCEPT ![current] = "working"] \/ UNCHANGED venue
      BY <2>4 DEF Send
    <3> QED BY <1>1, <2>4, <3>1
  <2>5. \/ UNCHANGED venue
        \/ \E q \in Orders : VenueTrades(q)
        \/ \E q : CancelAndRead(q)
        \/ Send
    BY DEF Next, Engine, vars, StrategyMoves, StartTick, Recover, Confirm, StartExternal, Review,
           Protect, ApplyCancel, Resync, StartPlace, Place, Answer, StartFlatten, Exit, Clear,
           Cleared, Sell, PlanDone, EndTick, Enter, Crash, market
  <2> QED BY <2>1, <2>2, <2>3, <2>4, <2>5
<1>3. /\ manager.known /\ manager.position = opened /\ Owned > 0
      /\ order[o].position = opened /\ order[o].level = manager.requested
      /\ manager.accepted <= manager.requested
  BY <1>2 DEF Send, LevelInv, AboutToSend
<1>4. p \in Issued
  <2>1. p \in Orders /\ row[p] \in {"live", "canceled"}
    BY DEF Confirmed, Orders
  <2> QED BY <2>1 DEF IInv, Rows, Issued
<1>5. order[p].level <= manager.accepted \/ order[p].level <= manager.requested
  BY <1>3, <1>4 DEF LevelInv, Remembers, Covers
<1>6. order[p].level \in Nat /\ manager.accepted \in Nat /\ manager.requested \in Nat
  BY LevelFinite DEF IInv, TypeOK, Orders
<1> QED BY <1>3, <1>5, <1>6

LEMMA LevelsNeverLower ==
    ASSUME IInv, LevelInv, [Next]_vars
    PROVE  [\A o, p \in Stops :
             /\ venue[o] = "none" /\ venue'[o] = "working"
             /\ Confirmed(p) /\ order[p].position = order[o].position
             => order[p].level <= order[o].level]_vars
BY SentNoLower

(* With a single fault, a manager not made yet finds either no stop on      *)
(* record or no fault to come, and starts from settled stops.               *)
Starting ==
    ~manager.known =>
      /\ (\A o \in Stops : row[o] = "none") \/ faults = MaxFaults
      /\ pc \notin {"idle", "recover"} => Settled

LEMMA StartsSettled == Starting => RestoresSettled
BY DEF Starting, RestoresSettled

(* What a step does to a stop while no stop is asked for: it stays, or its  *)
(* outcome is known when it is at the venue, unless there is a fault.       *)
Stays(o) == row'[o] = row[o] /\ (venue[o] = "none" => venue'[o] = "none")
IsRead(o) == row[o] # "none" /\ (row'[o] \in {"intent", "unknown"} => venue'[o] = "none")
Steady(o) == Stays(o) \/ IsRead(o) \/ (row[o] # "none" /\ Fault)

LEMMA SteadyWhenStill ==
    ASSUME NEW o, UNCHANGED <<row, venue>>
    PROVE  Steady(o)
BY DEF Steady, Stays

LEMMA SteadyWhenRead ==
    ASSUME IInv, NEW known, NEW lost, Read(known, lost), lost = {} \/ Fault,
           NEW o \in Orders, o \in known \cup lost => Live(o),
           venue'[o] \in {"none", "working", "ended"}, venue[o] = "none" => venue'[o] = "none"
    PROVE  Steady(o)
<1>1. row'[o] = IF o \in lost THEN "unknown" ELSE IF o \in known THEN Found(o) ELSE row[o]
  BY DEF Read
<1>2. CASE o \in lost
  BY <1>2 DEF Steady, Live
<1>3. CASE o \notin lost /\ o \in known
  <2>1. \/ venue'[o] = "none" /\ Found(o) = "unknown"
        \/ venue'[o] = "working" /\ Found(o) = "live"
        \/ venue'[o] = "ended" /\ Found(o) = "canceled"
    BY DEF Found
  <2>2. row'[o] = Found(o) /\ row[o] # "none"
    BY <1>1, <1>3 DEF Live
  <2>3. IsRead(o)
    BY <2>1, <2>2 DEF IsRead
  <2> QED BY <2>3 DEF Steady
<1>4. CASE o \notin lost /\ o \notin known
  BY <1>1, <1>4 DEF Steady, Stays
<1> QED BY <1>2, <1>3, <1>4

LEMMA SteadyWhenCancelled ==
    ASSUME IInv, NEW q, CancelAndRead(q), NEW o \in Orders
    PROVE  Steady(o)
<1>1. CASE ~(Live(q) /\ q \notin Unsent)
  <2>1. UNCHANGED <<row, venue>>
    BY <1>1 DEF CancelAndRead, ledger
  <2> QED BY <2>1, SteadyWhenStill
<1>2. CASE Live(q) /\ q \notin Unsent
  <2>1. /\ venue'[o] \in {"none", "working", "ended"} /\ (venue[o] = "none" => venue'[o] = "none")
    <3>1. /\ venue \in [Orders -> {"none", "working", "ended"}]
          /\ venue' \in {venue, [venue EXCEPT ![q] = IF @ = "working" THEN "ended" ELSE @]}
      BY DEF CancelAndRead, IInv, TypeOK
    <3>2. CASE o = q
      BY <3>1, <3>2
    <3>3. CASE o # q
      BY <3>1, <3>3
    <3> QED BY <3>2, <3>3
  <2>2. Read({q}, {}) \/ (Read({q}, {q}) /\ Fault)
    BY <1>2 DEF CancelAndRead
  <2>3. o \in {q} => Live(o)
    BY <1>2
  <2>4. CASE Read({q}, {})
    <3>1. o \in {q} \cup {} => Live(o)
      BY <2>3
    <3> QED BY <2>1, <2>4, <3>1, SteadyWhenRead
  <2>5. CASE Read({q}, {q}) /\ Fault
    <3>1. o \in {q} \cup {q} => Live(o)
      BY <2>3
    <3> QED BY <2>1, <2>5, <3>1, SteadyWhenRead
  <2> QED BY <2>2, <2>4, <2>5
<1> QED BY <1>1, <1>2

LEMMA SteadyWhenRecovered ==
    ASSUME IInv, NEW expired \in SUBSET Unsent, Recover(expired), NEW o \in Orders
    PROVE  (Stays(o) /\ row[o] # "unknown") \/ IsRead(o) \/ (row[o] # "none" /\ Fault)
<1> DEFINE read == {p \in Orders : Live(p)} \ Unsent
<1>1. PICK lost \in {{}} \cup {{p} : p \in read} :
         /\ IF lost = {} THEN UNCHANGED faults ELSE Fault
         /\ row' = [p \in Orders |->
                      IF p \in expired THEN "rejected"
                      ELSE IF p \in lost THEN "unknown"
                      ELSE IF p \in read THEN Found(p) ELSE row[p]]
  BY DEF Recover
<1>2. venue'[o] = venue[o] /\ venue[o] \in {"none", "working", "ended"}
  BY DEF Recover, market, IInv, TypeOK
<1>3. CASE o \in expired
  <2>1. row[o] = "intent" /\ row'[o] = "rejected"
    BY <1>1, <1>3 DEF Unsent
  <2> QED BY <2>1 DEF IsRead
<1>4. CASE o \notin expired /\ o \in lost
  <2>1. o \in read /\ Fault
    BY <1>1, <1>4
  <2> QED BY <2>1 DEF Live
<1>5. CASE o \notin expired /\ o \notin lost /\ o \in read
  <2>1. \/ venue'[o] = "none" /\ Found(o) = "unknown"
        \/ venue'[o] = "working" /\ Found(o) = "live"
        \/ venue'[o] = "ended" /\ Found(o) = "canceled"
    BY <1>2 DEF Found
  <2>2. row'[o] = Found(o) /\ row[o] # "none"
    BY <1>1, <1>5 DEF Live
  <2> QED BY <2>1, <2>2 DEF IsRead
<1>6. CASE o \notin expired /\ o \notin lost /\ o \notin read
  <2>1. row'[o] = row[o]
    BY <1>1, <1>6
  <2>2. row[o] # "unknown"
    BY <1>6 DEF Live, Unsent
  <2> QED BY <1>2, <2>1, <2>2 DEF Stays
<1> QED BY <1>3, <1>4, <1>5, <1>6

(* A stop needs a manager to be asked for.                                  *)
LEMMA SteadyBeforeAsking ==
    ASSUME IInv, LevelInv, ~manager.known, Place \/ Send \/ Sell, NEW o \in Stops
    PROVE  Steady(o)
<1>0. o \in Orders
  BY DEF Orders
<1>1. ~Place
  <2>1. SUFFICES ASSUME Place PROVE FALSE
    OBVIOUS
  <2>2. intents # <<>> /\ Placing(Head(intents))
    BY <2>1 DEF Place, LevelInv, AtPlace
  <2>3. 1 \in DOMAIN intents /\ intents[1] = Head(intents)
    BY <2>2 DEF IInv, TypeOK
  <2> QED BY <2>2, <2>3 DEF LevelInv, Asks, AsksOf
<1>2. CASE Send
  <2>1. current \notin Stops /\ current \in Orders
    BY <1>2 DEF Send, LevelInv, AboutToSend, IInv, Sending
  <2>2. o # current
    BY <2>1
  <2>3. /\ venue' \in {venue, [venue EXCEPT ![current] = "working"]}
        /\ row' \in {row, [row EXCEPT ![current] = "rejected"]}
    BY <1>2 DEF Send
  <2>4. venue'[o] = venue[o] /\ row'[o] = row[o]
    BY <1>0, <2>2, <2>3 DEF IInv, TypeOK
  <2> QED BY <2>4 DEF Steady, Stays
<1>3. CASE Sell
  <2>1. venue' = venue
    BY <1>3 DEF Sell, market
  <2>2. CASE UNCHANGED ledger
    BY <2>1, <2>2, SteadyWhenStill DEF ledger
  <2>3. CASE Free(Exits) # {} /\ Create(First(Free(Exits)), Sellable(held), 0)
    <3> DEFINE q == First(Free(Exits))
    <3>1. q \in Exits
      <4>1. Free(Exits) \subseteq Exits
        BY DEF Free
      <4> QED BY <2>3, <4>1, FirstOf
    <3>2. o # q
      BY <3>1 DEF Stops, Exits
    <3>3. row' = [row EXCEPT ![q] = "unknown"]
      BY <2>3 DEF Create
    <3> HIDE DEF q
    <3>4. row'[o] = row[o]
      BY <1>0, <3>2, <3>3 DEF IInv, TypeOK
    <3> QED BY <2>1, <3>4 DEF Steady, Stays
  <2> QED BY <1>3, <2>2, <2>3 DEF Sell
<1> QED BY <1>1, <1>2, <1>3

LEMMA StopsSteady ==
    ASSUME IInv, LevelInv, ~manager.known, [Next]_vars, ~Crash, NEW o \in Stops
    PROVE  Steady(o)
<1>0. o \in Orders /\ venue[o] \in {"none", "working", "ended"}
  BY DEF Orders, IInv, TypeOK
<1>1. CASE UNCHANGED <<row, venue>>
  BY <1>1, SteadyWhenStill
<1>2. ASSUME NEW q \in Orders, VenueTrades(q) PROVE Steady(o)
  <2>1. /\ row' = row /\ venue[q] = "working"
        /\ venue' = [venue EXCEPT ![q] = IF traded[q] + 1 = order[q].qty THEN "ended" ELSE @]
    BY <1>2 DEF VenueTrades, ledger
  <2>2. venue[o] = "none" => venue'[o] = "none"
    BY <1>0, <2>1 DEF IInv, TypeOK
  <2> QED BY <2>1, <2>2 DEF Steady, Stays
<1>3. ASSUME NEW q \in Orders, Confirm(q) PROVE Steady(o)
  <2>1. venue' = venue /\ row[q] = "unknown" /\ row' = [row EXCEPT ![q] = "rejected"]
    BY <1>3 DEF Confirm, market
  <2>2. row'[o] = row[o] \/ (row[o] # "none" /\ row'[o] = "rejected")
    BY <1>0, <2>1 DEF IInv, TypeOK
  <2> QED BY <2>1, <2>2 DEF Steady, Stays, IsRead
<1>4. ASSUME NEW expired \in SUBSET Unsent, Recover(expired) PROVE Steady(o)
  BY <1>0, <1>4, SteadyWhenRecovered DEF Steady
<1>5. ASSUME NEW q, CancelAndRead(q) PROVE Steady(o)
  BY <1>0, <1>5, SteadyWhenCancelled
<1>6. CASE Place \/ Send \/ Sell
  BY <1>6, SteadyBeforeAsking
<1>7. CASE Exit
  <2>1. venue' = venue
    BY <1>7 DEF Exit, market
  <2>2. CASE Read({p \in own \ Unsent : Live(p)}, {})
    <3>1. o \in {p \in own \ Unsent : Live(p)} \cup {} => Live(o)
      OBVIOUS
    <3> QED BY <1>0, <2>1, <2>2, <3>1, SteadyWhenRead
  <2>3. ASSUME NEW q \in own \ Unsent, Live(q), Read({q}, {q}), Fault PROVE Steady(o)
    <3>1. o \in {q} \cup {q} => Live(o)
      BY <2>3
    <3> QED BY <1>0, <2>1, <2>3, <3>1, SteadyWhenRead
  <2>4. CASE UNCHANGED ledger
    BY <2>1, <2>4, SteadyWhenStill DEF ledger
  <2> QED BY <1>7, <2>2, <2>3, <2>4 DEF Exit
<1>8. CASE Answer
  <2>1. venue' = venue /\ Live(current)
    BY <1>8 DEF Answer, market, IInv, Sending, Live
  <2>2. CASE Read({current}, {})
    <3>1. o \in {current} \cup {} => Live(o)
      BY <2>1
    <3> QED BY <1>0, <2>1, <2>2, <3>1, SteadyWhenRead
  <2>3. CASE UNCHANGED ledger
    BY <2>1, <2>3, SteadyWhenStill DEF ledger
  <2> QED BY <1>8, <2>2, <2>3 DEF Answer
<1>9. \/ UNCHANGED <<row, venue>>
      \/ \E q \in Orders : VenueTrades(q) \/ Confirm(q)
      \/ \E expired \in SUBSET Unsent : Recover(expired)
      \/ \E q : CancelAndRead(q)
      \/ Place \/ Send \/ Sell \/ Exit \/ Answer
  BY DEF Next, Engine, vars, StrategyMoves, StartTick, StartExternal, Review, Protect, ApplyCancel,
         Resync, StartPlace, StartFlatten, Clear, Cleared, PlanDone, EndTick, Enter, market, ledger
<1> QED BY <1>1, <1>2, <1>3, <1>4, <1>5, <1>6, <1>7, <1>8, <1>9

(* No other step starts work than a tick or the end of a reconciliation, and*)
(* only with orders whose outcome is known if they are at the venue.        *)
LEMMA SettledToStart ==
    ASSUME IInv, IInv', [Next]_vars, ~Crash, ~Fault,
           pc \in {"idle", "recover"}, pc' \notin {"idle", "recover"}
    PROVE  Settled'
<1>1. SUFFICES ASSUME NEW o \in Orders, row'[o] = "unknown" PROVE venue'[o] = "none"
  <2>1. \A o \in Orders : row'[o] = "intent" => venue'[o] = "none"
    BY DEF IInv, Rows, Orders, Stops, Exits
  <2> QED BY <2>1 DEF Settled, Indeterminate, Orders, Stops
<1>2. ASSUME NEW due \in BOOLEAN, StartTick(due) PROVE venue'[o] = "none"
  <2>1. row' = row /\ ~Unknown
    BY <1>2 DEF StartTick, Goto, control
  <2> QED BY <1>1, <2>1 DEF Unknown
<1>3. ASSUME NEW expired \in SUBSET Unsent, Recover(expired) PROVE venue'[o] = "none"
  BY <1>1, <1>3, SteadyWhenRecovered DEF Stays, IsRead
<1>4. \/ \E due \in BOOLEAN : StartTick(due)
      \/ \E expired \in SUBSET Unsent : Recover(expired)
  BY DEF Next, Engine, vars, control, VenueTrades, Confirm, StrategyMoves, StartExternal, Review,
         Protect, ApplyCancel, Resync, StartPlace, Place, Send, Answer, StartFlatten, Exit, Clear,
         Cleared, Sell, PlanDone, EndTick, Enter
<1> QED BY <1>2, <1>3, <1>4

LEMMA FaultsCounted == [Next]_vars => Fault \/ UNCHANGED faults
BY DEF Next, Engine, vars, VenueTrades, Confirm, StrategyMoves, StartTick, Recover, StartExternal,
       Review, Protect, CancelAndRead, ApplyCancel, Resync, StartPlace, Place, Send, Answer,
       StartFlatten, Exit, Clear, Cleared, Sell, PlanDone, EndTick, Enter, Crash

LEMMA NextStarts ==
    MaxFaults <= 1 /\ IInv /\ LevelInv /\ Starting /\ [Next]_vars => Starting'
<1> SUFFICES ASSUME MaxFaults <= 1, IInv, LevelInv, Starting, [Next]_vars PROVE Starting'
  OBVIOUS
<1>1. faults \in 0 .. MaxFaults /\ MaxFaults \in Nat
  BY ProtectiveStopsAssumption DEF IInv, TypeOK
<1>2. CASE Crash
  <2>1. faults < MaxFaults /\ faults' = faults + 1 /\ pc' = "idle"
    BY <1>2 DEF Crash, Fault
  <2>2. faults' = MaxFaults
    BY <1>1, <2>1
  <2> QED BY <2>1, <2>2 DEF Starting
<1>3. CASE manager.known /\ ~Crash
  <2>1. CASE UNCHANGED manager
    BY <1>3, <2>1 DEF Starting
  <2>2. CASE Protect
    <3>1. CASE pc' = "apply"
      BY <2>2, <3>1, StartsSettled, ProtectKeepsLevels DEF Starting
    <3>2. CASE pc' # "apply"
      BY <1>3, <2>2, <3>2 DEF Protect, Starting
    <3> QED BY <3>1, <3>2
  <2>3. UNCHANGED manager \/ Protect
    BY <1>3 DEF Next, Engine, vars, VenueTrades, Confirm, StrategyMoves, StartTick, Recover,
             StartExternal, Review, ApplyCancel, Resync, StartPlace, Place, Send, Answer,
             StartFlatten, Exit, Clear, Cleared, Sell, PlanDone, EndTick, Enter
  <2> QED BY <2>1, <2>2, <2>3
<1>4. CASE ~manager.known /\ ~Crash
  <2>1. IInv'
    BY NextIInv
  <2>2. \A o \in Stops : Steady(o)
    BY <1>4, StopsSteady
  <2>3. CASE \A o \in Stops : row[o] = "none"
    <3>1. \A o \in Stops : row'[o] = "none"
      BY <2>2, <2>3 DEF Steady, Stays, IsRead
    <3> QED BY <3>1 DEF Starting, Settled, Indeterminate, Stops
  <2>4. CASE faults = MaxFaults
    <3>1. ~Fault
      BY <1>1, <2>4 DEF Fault
    <3>2. faults' = MaxFaults
      BY <2>4, <3>1, FaultsCounted
    <3>3. CASE pc \in {"idle", "recover"}
      BY <1>4, <2>1, <3>1, <3>2, <3>3, SettledToStart DEF Starting
    <3>4. CASE pc \notin {"idle", "recover"}
      <4>1. Settled
        BY <1>4, <3>4 DEF Starting
      <4>2. ASSUME NEW o \in Stops, row'[o] \in {"intent", "unknown"} PROVE venue'[o] = "none"
        <5>1. Stays(o) \/ IsRead(o)
          BY <2>2, <3>1 DEF Steady
        <5>2. CASE Stays(o)
          BY <4>1, <4>2, <5>2 DEF Stays, Settled, Indeterminate
        <5>3. CASE IsRead(o)
          BY <4>2, <5>3 DEF IsRead
        <5> QED BY <5>1, <5>2, <5>3
      <4>3. Settled'
        BY <4>2 DEF Settled, Indeterminate, Stops
      <4> QED BY <3>2, <4>3 DEF Starting
    <3> QED BY <3>3, <3>4
  <2> QED BY <1>4, <2>3, <2>4 DEF Starting
<1> QED BY <1>2, <1>3, <1>4

(* A new stop is never below a confirmed one of its position, over any      *)
(* trades, lost answers and crashes, as long as the stops a restarted       *)
(* manager starts from are settled (restore_confirmed_stop takes confirmed  *)
(* stops alone).                                                            *)
THEOREM StopsOnlyMoveUp == Spec /\ []RestoresSettled => NeverLoosened
<1>1. Init => IInv /\ LevelInv
  BY InitIInv, InitLevels
<1>2. (IInv /\ LevelInv) /\ RestoresSettled /\ [Next]_vars => (IInv /\ LevelInv)'
  BY NextIInv, NextLevels
<1>3. (IInv /\ LevelInv) /\ [Next]_vars =>
        [\A o, p \in Stops :
           /\ venue[o] = "none" /\ venue'[o] = "working"
           /\ Confirmed(p) /\ order[p].position = order[o].position
           => order[p].level <= order[o].level]_vars
  BY LevelsNeverLower
<1> QED BY <1>1, <1>2, <1>3, PTL DEF Spec, NeverLoosened

(* They are settled when at most one fault happens: if that was the crash,  *)
(* the reconciliation before the first evaluation reads every order that was*)
(* sent (reconciler.py, recover_open_orders), and what stays UNKNOWN or     *)
(* unsent then, for an operator or its time to pass, never was at the venue.*)
THEOREM OneFaultRestoresSettled == MaxFaults <= 1 /\ Spec => []RestoresSettled
<1> DEFINE Inv == IInv /\ LevelInv /\ Starting
<1>1. Init => Inv
  <2>1. Init => Starting
    BY DEF Init, Starting, Orders
  <2> QED BY <2>1, InitIInv, InitLevels
<1>2. ASSUME MaxFaults <= 1 PROVE Inv /\ [Next]_vars => Inv'
  BY <1>2, NextIInv, NextLevels, NextStarts, StartsSettled
<1>3. Inv => RestoresSettled
  BY StartsSettled
<1> HIDE DEF Inv
<1>4. ASSUME MaxFaults <= 1 PROVE Spec => []RestoresSettled
  <2>1. Inv /\ [Next]_vars => Inv'
    BY <1>2, <1>4
  <2> QED BY <1>1, <1>3, <2>1, PTL DEF Spec
<1> QED BY <1>4

(* With one crash, lost answer or failed read at most, no stop is sent below*)
(* a confirmed one of its position (_ratchet, restore_confirmed_stop).      *)
THEOREM OneFaultNeverLoosened == MaxFaults <= 1 /\ Spec => NeverLoosened
BY OneFaultRestoresSettled, StopsOnlyMoveUp, PTL
=============================================================================
