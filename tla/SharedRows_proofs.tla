------------------------- MODULE SharedRows_proofs -------------------------
(***************************************************************************)
(* What processes, threads and restarts share through rows of a database:  *)
(* the row clients take turns by to send requests, the claims of closed    *)
(* bars, the history of the dashboard's jobs, and the checkpoint of the    *)
(* circuit breaker.                                                        *)
(*                                                                         *)
(* Requests are spaced, for every set of clients, window and clock         *)
(* correction.  The invariant: the row never shows more time since the     *)
(* last request than has really gone by (Trailing).                        *)
(*                                                                         *)
(* One engine process never takes a processed bar back, for any bars,      *)
(* lease, lag and number of faults.  claim_bar updates by key alone; what  *)
(* protects a processed row is that nobody can complete it between the     *)
(* SELECT and the UPDATE, which is what the invariant Held says.           *)
(* Its batch has the rows it completes, so long as the ledger of orders    *)
(* can be read (Kept).                                                     *)
(*                                                                         *)
(* The dashboard's jobs, whatever their number and that of the restarts:   *)
(* a service that is not killed runs one child at a time, and a cancel or  *)
(* a close reaches it (HeldInv); killed or not, it never calls a cancelled *)
(* job succeeded and never writes over the record of a job that has ended  *)
(* (RowsInv).                                                              *)
(*                                                                         *)
(* The circuit breaker, whose checkpoint outlives the engine, for any      *)
(* thresholds, limits, cooldowns, clocks and bounds: a checkpoint can      *)
(* always be restored, the summary that later gates read never disagrees   *)
(* with the decision (BreakerInv), no two changes share an id (IdInv), and *)
(* halts outlive what goes wrong (HaltInv, DayInv).                        *)
(***************************************************************************)
EXTENDS RequestBudget, BarClaimsState, BacktestJobsState, CircuitBreakerState,
        TLAPS

Claims == INSTANCE BarClaims

Service == INSTANCE BacktestJobs

(* What the transactions keep of the row: its clock never runs ahead.       *)
Trailing ==
    /\ base \in Nat
    /\ sinceLast \in Int
    /\ elapsed \in 0 .. Horizon
    /\ base = 0 => elapsed = Horizon
    /\ base # 0 => sinceLast <= elapsed

LEMMA BaseForPositive ==
    ASSUME NEW c \in Clients, base \in Nat
    PROVE  /\ BaseFor(c) \in Nat \ {0}
           /\ Gap(c) \in Nat
           /\ base = 0 => Gap(c) = Interval[c] * Cost[c] /\ Gap(c) <= Horizon
<1>1. Interval[c] \in Nat \ {0} /\ Cost[c] \in Nat \ {0}
  BY ClientsAssumption
<1>2. BaseFor(c) \in Nat \ {0}
  BY <1>1 DEF BaseFor, Larger
<1>3. Gap(c) \in Nat
  BY <1>1, <1>2 DEF Gap
<1>4. ASSUME base = 0 PROVE Gap(c) = Interval[c] * Cost[c]
  <2>1. BaseFor(c) = Interval[c]
    BY <1>1, <1>4 DEF BaseFor, Larger
  <2> QED BY <2>1 DEF Gap
<1>5. Interval[c] * Cost[c] <= Horizon
  <2>1. Interval[c] * Cost[c] \in Nat
    BY <1>1
  <2>2. Interval[c] * Cost[c] + MaxBack <= Horizon
    BY HorizonAssumption
  <2> QED BY <2>1, <2>2, HorizonAssumption
<1> QED BY <1>2, <1>3, <1>4, <1>5

(* Whatever the transaction makes of the row, it does not gain time.        *)
LEMMA SinceTrails ==
    ASSUME Trailing, NEW c \in Clients
    PROVE  Since(c) \in Int /\ Since(c) <= elapsed
<1>1. Horizon \in Nat
  BY HorizonAssumption
<1>2. Interval[c] * Cost[c] \in Nat /\ (base = 0 => Interval[c] * Cost[c] <= Horizon)
  <2>1. Interval[c] \in Nat /\ Cost[c] \in Nat
    BY ClientsAssumption
  <2>2. Interval[c] * Cost[c] \in Nat
    BY <2>1
  <2>3. Interval[c] * Cost[c] + MaxBack <= Horizon
    BY HorizonAssumption
  <2> QED BY <2>2, <2>3, HorizonAssumption
<1>3. CASE base = 0
  BY <1>1, <1>2, <1>3 DEF Trailing, Since
<1>4. CASE base # 0 /\ NewWindow
  BY <1>1, <1>4 DEF Trailing, Since, Larger
<1>5. CASE base # 0 /\ ~NewWindow
  BY <1>1, <1>5 DEF Trailing, Since
<1> QED BY <1>3, <1>4, <1>5

(* A request that need not wait has the gap behind it.                      *)
LEMMA NoDelay ==
    ASSUME Trailing, NEW c \in Clients, Delay(c) = 0,
           sinceStart \in Int, lease \in Int
    PROVE  Gap(c) <= Since(c)
<1>1. Gap(c) \in Nat /\ Since(c) \in Int
  BY BaseForPositive, SinceTrails DEF Trailing
<1> DEFINE space == Gap(c) - Since(c)
           room == IF Allows(c, Used + Cost[c]) THEN 0 ELSE Window - Start
           turn == IF c \in Critical THEN 0 ELSE Leased
<1>2. space \in Int
  BY <1>1
<1>3. room \in Int
  BY WindowAssumption DEF Start
<1>4. turn \in Int
  BY DEF Leased
<1>5. Larger(0, Larger(space, Larger(room, turn))) = 0
  BY DEF Delay
<1>6. space <= 0
  <2> HIDE DEF space, room, turn
  <2> QED BY <1>2, <1>3, <1>4, <1>5 DEF Larger
<1> QED BY <1>1, <1>6

Inv == Trailing /\ sinceStart \in Int /\ lease \in Int

LEMMA InvInit == Init => Inv
BY HorizonAssumption DEF Init, Inv, Trailing

LEMMA InvNext == Inv /\ [Next]_vars => Inv'
<1> SUFFICES ASSUME Inv, [Next]_vars PROVE Inv'
  OBVIOUS
<1>0. Horizon \in Nat /\ MaxBack \in Nat
  BY HorizonAssumption
<1>1. ASSUME NEW c \in Clients, Ask(c) \/ Refuse(c) \/ Locked(c) \/ Expire(c) PROVE Inv'
  BY <1>1 DEF Inv, Trailing, Ask, Refuse, Locked, Expire, row
<1>2. ASSUME NEW c \in Clients, Grant(c) PROVE Inv'
  <2>1. base' \in Nat \ {0}
    BY <1>2, BaseForPositive DEF Grant, Inv, Trailing
  <2>2. sinceLast' = 0 /\ elapsed' = 0
    BY <1>2 DEF Grant
  <2>3. sinceStart' \in Int /\ lease' \in Int
    BY <1>2 DEF Grant, Inv, Start, Leased
  <2> QED BY <1>0, <2>1, <2>2, <2>3 DEF Inv, Trailing
<1>3. ASSUME NEW c \in Clients, Wait(c) PROVE Inv'
  <2>1. base' \in Nat \ {0}
    BY <1>3, BaseForPositive DEF Wait, Inv, Trailing
  <2>2. sinceLast' \in Int /\ sinceLast' <= elapsed /\ elapsed' = elapsed
    BY <1>3, SinceTrails DEF Wait, Inv
  <2>3. Delay(c) \in Int
    <3>1. Gap(c) - Since(c) \in Int
      BY BaseForPositive, SinceTrails DEF Inv, Trailing
    <3>2. (IF Allows(c, Used + Cost[c]) THEN 0 ELSE Window - Start) \in Int
      BY WindowAssumption DEF Start, Inv
    <3>3. (IF c \in Critical THEN 0 ELSE Leased) \in Int
      BY DEF Leased, Inv
    <3> QED BY <3>1, <3>2, <3>3 DEF Delay, Larger
  <2>4. sinceStart' \in Int
    BY <1>3 DEF Wait, Inv, Start
  <2>5. lease' \in Int
    <3>1. Hold(Delay(c)) \in Int
      BY <2>3, SleepAssumption DEF Hold, Larger, Smaller
    <3> QED BY <1>3, <3>1 DEF Wait, Inv, Leased
  <2> QED BY <2>1, <2>2, <2>4, <2>5 DEF Inv, Trailing
<1>4. ASSUME Tick PROVE Inv'
  <2>1. base' = base /\ elapsed' = Smaller(elapsed + 1, Horizon)
        /\ sinceLast' = Smaller(sinceLast + 1, Horizon)
        /\ sinceStart' = Smaller(sinceStart + 1, Horizon)
        /\ lease' = Larger(lease - 1, 0 - MaxBack)
    BY <1>4 DEF Tick
  <2> QED BY <1>0, <2>1 DEF Inv, Trailing, Smaller, Larger
<1>5. ASSUME ClockBack PROVE Inv'
  BY <1>5 DEF Inv, Trailing, ClockBack
<1>6. ASSUME UNCHANGED vars PROVE Inv'
  BY <1>6 DEF Inv, Trailing, vars
<1> QED BY <1>1, <1>2, <1>3, <1>4, <1>5, <1>6 DEF Next

(* In every instance a request follows the one before it by its own gap of  *)
(* real time, although the shared clock may be set back.                    *)
THEOREM RequestsAreSpaced == Spec => Spaced
<1>1. Inv /\ [Next]_vars => [\A c \in Clients : Grant(c) => elapsed >= base' * Cost[c]]_vars
  <2> SUFFICES ASSUME Inv, NEW c \in Clients, Grant(c)
               PROVE  elapsed >= base' * Cost[c]
    OBVIOUS
  <2>1. base' * Cost[c] = Gap(c)
    BY DEF Grant, Gap
  <2>2. Gap(c) <= Since(c)
    BY NoDelay DEF Grant, Inv
  <2>3. Since(c) \in Int /\ Since(c) <= elapsed /\ Gap(c) \in Nat /\ elapsed \in Int
    BY SinceTrails, BaseForPositive, HorizonAssumption DEF Inv, Trailing
  <2> QED BY <2>1, <2>2, <2>3
<1> QED BY InvInit, InvNext, <1>1, PTL DEF Spec, Spaced

-----------------------------------------------------------------------------
(* The type invariant.                                                      *)

(* What Inv does not say of the types.                                      *)
Counted ==
    /\ used \in Nat /\ ordinary \in Nat
    /\ mode \in [Clients -> {"idle", "waiting"}]
    /\ sleep \in [Clients -> 0 .. MaxSleep]
    /\ back \in 0 .. MaxBack

LEMMA CountedNext ==
    ASSUME Inv, Counted, [Next]_vars
    PROVE  Counted'
<1> USE DEF Counted
<1>1. ASSUME NEW c \in Clients, Ask(c) \/ Refuse(c) PROVE Counted'
  BY <1>1 DEF Ask, Refuse, row
<1>2. ASSUME NEW c \in Clients, Locked(c) \/ Expire(c) PROVE Counted'
  BY <1>2, SleepAssumption DEF Locked, Expire, row
<1>3. ASSUME NEW c \in Clients, Grant(c) PROVE Counted'
  <2>1. Cost[c] \in Nat
    BY ClientsAssumption
  <2>2. used' \in Nat /\ ordinary' \in Nat
    BY <1>3, <2>1 DEF Grant, Used, Ordinary
  <2> QED BY <1>3, <2>2 DEF Grant
<1>4. ASSUME NEW c \in Clients, Wait(c) PROVE Counted'
  <2>1. Delay(c) \in Int
    <3>1. Gap(c) - Since(c) \in Int
      BY BaseForPositive, SinceTrails DEF Inv, Trailing
    <3>2. (IF Allows(c, Used + Cost[c]) THEN 0 ELSE Window - Start) \in Int
      BY WindowAssumption DEF Start, Inv
    <3>3. (IF c \in Critical THEN 0 ELSE Leased) \in Int
      BY DEF Leased, Inv
    <3> QED BY <3>1, <3>2, <3>3 DEF Delay, Larger
  <2>2. Nap(Delay(c)) \in 0 .. MaxSleep
    BY <2>1, SleepAssumption DEF Nap, Larger, Smaller
  <2>3. used' \in Nat /\ ordinary' \in Nat
    BY <1>4 DEF Wait, Used, Ordinary
  <2> QED BY <1>4, <2>2, <2>3 DEF Wait
<1>5. ASSUME Tick PROVE Counted'
  <2>1. \A c \in Clients : Larger(sleep[c] - 1, 0) \in 0 .. MaxSleep
    BY SleepAssumption DEF Larger
  <2> QED BY <1>5, <2>1 DEF Tick
<1>6. ASSUME ClockBack PROVE Counted'
  BY <1>6, HorizonAssumption DEF ClockBack
<1>7. ASSUME UNCHANGED vars PROVE Counted'
  BY <1>7 DEF vars
<1> QED BY <1>1, <1>2, <1>3, <1>4, <1>5, <1>6, <1>7 DEF Next

(* The row and the clients stay well typed: in particular no sleep is       *)
(* longer than MaxSleep (wait).                                             *)
THEOREM TypeCorrect == Spec => []TypeOK
<1>1. Init => Counted
  BY SleepAssumption, HorizonAssumption DEF Init, Counted
<1>2. Inv /\ Counted => TypeOK
  BY DEF Inv, Trailing, Counted, TypeOK
<1> QED BY InvInit, InvNext, CountedNext, <1>1, <1>2, PTL DEF Spec

-----------------------------------------------------------------------------
(* The reserve.                                                             *)

SameInterval == \A c, d \in Clients : Interval[c] = Interval[d]

(* What ordinary requests were granted is part of what is used, and leaves  *)
(* the reserve alone at the interval of the row.                            *)
Reserved ==
    /\ ordinary <= used
    /\ base # 0 => /\ \A c \in Clients : base = Interval[c]
                  /\ ordinary * base * ReserveDen <= Window * (ReserveDen - ReserveNum)

LEMMA Scaled ==
    ASSUME NEW m \in Nat, NEW n \in Nat, m <= n, NEW k \in Nat, NEW d \in Nat
    PROVE  m * k * d <= n * k * d
<1>1. m * k <= n * k /\ m * k \in Nat /\ n * k \in Nat
  BY Z3
<1> QED
  BY <1>1, Z3

(* A granted request fits into what is left of the window.                  *)
LEMMA GrantFits ==
    ASSUME Inv, Counted, NEW c \in Clients, Grant(c)
    PROVE  Allows(c, Used + Cost[c])
<1>1. Gap(c) - Since(c) \in Int
  BY BaseForPositive, SinceTrails DEF Inv, Trailing
<1> DEFINE space == Gap(c) - Since(c)
           room == IF Allows(c, Used + Cost[c]) THEN 0 ELSE Window - Start
           turn == IF c \in Critical THEN 0 ELSE Leased
<1>2. Start \in Int /\ Window - Start > 0
  BY WindowAssumption DEF Start, NewWindow, Inv
<1>3. room \in Int
  BY <1>2, WindowAssumption
<1>4. turn \in Int
  BY DEF Leased, Inv
<1>5. Larger(0, Larger(space, Larger(room, turn))) = 0
  BY DEF Grant, Delay
<1>6. room <= 0
  <2> HIDE DEF space, room, turn
  <2> QED BY <1>1, <1>3, <1>4, <1>5 DEF Larger, space
<1>7. SUFFICES ASSUME ~Allows(c, Used + Cost[c]) PROVE FALSE
  OBVIOUS
<1>8. room = Window - Start
  BY <1>7
<1>9. Window - Start <= 0
  BY <1>6, <1>8
<1> QED
  <2> DEFINE left == Window - Start
  <2>1. left \in Int /\ left > 0 /\ left <= 0
    BY <1>2, <1>9, WindowAssumption
  <2> QED BY <2>1

LEMMA ReservedNext ==
    ASSUME SameInterval, Inv, Counted, Reserved, [Next]_vars
    PROVE  Reserved'
<1>0. Window * (ReserveDen - ReserveNum) \in Nat
  <2>1. Window \in Nat /\ ReserveDen - ReserveNum \in Nat
    BY WindowAssumption
  <2> DEFINE w == Window  r == ReserveDen - ReserveNum
  <2> HIDE DEF w, r
  <2>2. w * r \in Nat
    BY <2>1 DEF w, r
  <2> QED BY <2>2 DEF w, r
<1>1. ASSUME NEW c \in Clients
      PROVE  /\ BaseFor(c) = Interval[c]
             /\ \A d \in Clients : BaseFor(c) = Interval[d]
             /\ BaseFor(c) \in Nat \ {0}
             /\ Ordinary \in Nat /\ Used \in Nat /\ Ordinary <= Used
             /\ Ordinary * BaseFor(c) * ReserveDen <= Window * (ReserveDen - ReserveNum)
  <2>1. Interval[c] \in Nat \ {0} /\ ReserveDen \in Nat
    BY ClientsAssumption, WindowAssumption
  <2>2. BaseFor(c) = Interval[c]
    BY <2>1 DEF BaseFor, Larger, Reserved
  <2>3. Ordinary \in Nat /\ Used \in Nat /\ Ordinary <= Used
    BY DEF Ordinary, Used, Counted, Reserved
  <2>4. CASE NewWindow \/ base = 0
    <3>1. Ordinary = 0
      BY <2>4 DEF Ordinary
    <3>2. 0 * BaseFor(c) * ReserveDen = 0
      BY <2>1, <2>2
    <3> QED BY <3>1, <3>2, <2>1, <2>2, <2>3, <1>0 DEF SameInterval
  <2>5. CASE ~(NewWindow \/ base = 0)
    <3>1. Ordinary = ordinary /\ base = BaseFor(c)
      BY <2>5, <2>2 DEF Ordinary, Reserved
    <3> QED BY <3>1, <2>1, <2>2, <2>3, <2>5 DEF SameInterval, Reserved
  <2> QED BY <2>4, <2>5
<1>2. ASSUME NEW c \in Clients, Ask(c) \/ Refuse(c) \/ Locked(c) \/ Expire(c)
      PROVE  Reserved'
  BY <1>2 DEF Ask, Refuse, Locked, Expire, row, Reserved
<1>3. ASSUME NEW c \in Clients, Grant(c) PROVE Reserved'
  <2>1. Cost[c] \in Nat
    BY ClientsAssumption
  <2>2. base' = BaseFor(c) /\ used' = Used + Cost[c]
    BY <1>3 DEF Grant
  <2>3. CASE c \in Critical
    BY <1>1, <1>3, <2>1, <2>2, <2>3 DEF Grant, Reserved
  <2>4. CASE c \notin Critical
    <3>1. ordinary' = Ordinary + Cost[c]
      BY <1>3, <2>4 DEF Grant
    <3>2. (Used + Cost[c]) * BaseFor(c) * ReserveDen <= Window * (ReserveDen - ReserveNum)
      BY <1>3, <2>4, GrantFits DEF Allows
    <3>3. (Ordinary + Cost[c]) * BaseFor(c) * ReserveDen
            <= (Used + Cost[c]) * BaseFor(c) * ReserveDen
      <4> DEFINE m == Ordinary + Cost[c]  n == Used + Cost[c]  k == BaseFor(c)
      <4>1. m \in Nat /\ n \in Nat /\ m <= n /\ k \in Nat /\ ReserveDen \in Nat
        BY <1>1, <2>1, WindowAssumption
      <4> HIDE DEF m, n, k
      <4>2. m * k * ReserveDen <= n * k * ReserveDen
        BY <4>1, Scaled
      <4> QED BY <4>2 DEF m, n, k
    <3>4. /\ ordinary' * base' * ReserveDen \in Int
          /\ (Used + Cost[c]) * BaseFor(c) * ReserveDen \in Int
      BY <3>1, <2>1, <2>2, <1>1, WindowAssumption
    <3>5. ordinary' * base' * ReserveDen <= Window * (ReserveDen - ReserveNum)
      BY <3>1, <3>2, <3>3, <3>4, <2>2, <1>0
    <3> QED BY <1>1, <2>1, <2>2, <3>1, <3>5 DEF Reserved
  <2> QED BY <2>3, <2>4
<1>4. ASSUME NEW c \in Clients, Wait(c) PROVE Reserved'
  <2>1. base' = BaseFor(c) /\ used' = Used /\ ordinary' = Ordinary
    BY <1>4 DEF Wait
  <2> QED BY <1>1, <2>1 DEF Reserved
<1>5. ASSUME Tick \/ ClockBack PROVE Reserved'
  BY <1>5 DEF Tick, ClockBack, Reserved
<1>6. ASSUME UNCHANGED vars PROVE Reserved'
  BY <1>6 DEF vars, Reserved
<1> QED BY <1>2, <1>3, <1>4, <1>5, <1>6 DEF Next

(* In every window, whatever clients come and wherever windows end,         *)
(* ordinary requests leave the reserve to critical ones, so long as all ask *)
(* for one interval (wait: allowance).                                      *)
THEOREM ReserveIsKept == Spec => []ReserveKept
<1>1. CASE SameInterval
  <2>1. Init => Counted /\ Reserved
    BY SleepAssumption, HorizonAssumption DEF Init, Counted, Reserved
  <2>2. Inv /\ Counted /\ Reserved /\ [Next]_vars => Reserved'
    BY <1>1, ReservedNext
  <2>3. Reserved => ReserveKept
    BY DEF Reserved, ReserveKept
  <2> QED BY InvInit, InvNext, CountedNext, <2>1, <2>2, <2>3, PTL DEF Spec
<1>2. CASE ~SameInterval
  <2>1. ReserveKept
    BY <1>2 DEF SameInterval, ReserveKept
  <2> QED BY <2>1, PTL
<1> QED BY <1>1, <1>2

-----------------------------------------------------------------------------
(* The claims of closed bars.                                              *)

OneEngine == \A p, q \in Procs : p = q

(* The types the argument needs. *)
Typed ==
    /\ status \in [Bars -> {"none", "processing", "processed"}]
    /\ pc \in [Procs -> Claims!PCs]
    /\ todo \in [Procs -> SUBSET Bars]
    /\ bar \in [Procs -> Bars \cup {NoBar}]
    /\ keys \in [Procs -> SUBSET Bars]

(* The row the UPDATE is about to take over still is a running claim. *)
Held ==
    \A p \in Procs : pc[p] = "update" => bar[p] \in Bars /\ status[bar[p]] = "processing"

(* A bar is at hand while it is inserted or evaluated. *)
AtHand == \A p \in Procs : pc[p] \in {"insert", "evaluate"} => bar[p] \in Bars

ClaimsInv == Typed /\ Held /\ AtHand

LEMMA ClaimsInvInit == Claims!Init => ClaimsInv
  BY DEF Claims!Init, ClaimsInv, Typed, Held, AtHand, Claims!PCs

(* Every step of the engine keeps the invariant and every processed bar.    *)
LEMMA StepKeeps ==
    ASSUME OneEngine, ClaimsInv, NEW p \in Procs, Claims!Step(p) \/ Claims!Crash(p)
    PROVE  ClaimsInv' /\ \A b \in Bars : status[b] = "processed" => status'[b] = "processed"
<1> USE DEF ClaimsInv, Typed, Held, AtHand, OneEngine, Claims!PCs
<1>1. CASE Claims!StartTick(p)
  BY <1>1 DEF Claims!StartTick, Claims!At, Claims!store
<1>2. ASSUME NEW b \in Bars, Claims!SelectFindsFree(p, b)
      PROVE  ClaimsInv' /\ \A c \in Bars : status[c] = "processed" => status'[c] = "processed"
  BY <1>2 DEF Claims!SelectFindsFree, Claims!Reclaimable, Claims!Visit, Claims!At,
     Claims!store
<1>3. ASSUME NEW b \in Bars, Claims!SelectFindsTaken(p, b)
      PROVE  ClaimsInv' /\ \A c \in Bars : status[c] = "processed" => status'[c] = "processed"
  BY <1>3 DEF Claims!SelectFindsTaken, Claims!Visit, Claims!At, Claims!store
<1>4. ASSUME NEW b \in Bars, Claims!FinishKey(p, b)
      PROVE  ClaimsInv' /\ \A c \in Bars : status[c] = "processed" => status'[c] = "processed"
  BY <1>4 DEF Claims!FinishKey, Claims!Complete, Claims!Release, Claims!store
<1>5. CASE Claims!Insert(p)
  BY <1>5 DEF Claims!Insert, Claims!Claim, Claims!At
<1>6. CASE Claims!InsertRaises(p)
  BY <1>6 DEF Claims!InsertRaises, Claims!EndTick, Claims!store
<1>7. CASE Claims!Update(p)
  BY <1>7 DEF Claims!Update, Claims!Claim, Claims!At, Claims!store
<1>8. CASE Claims!Evaluate(p)
  BY <1>8 DEF Claims!Evaluate, Claims!At, Claims!store
<1>9. CASE Claims!EvaluateUnknown(p)
  BY <1>9 DEF Claims!EvaluateUnknown, Claims!Release, Claims!At
<1>10. CASE Claims!EvaluateRaises(p)
  BY <1>10 DEF Claims!EvaluateRaises, Claims!Release, Claims!At
<1>11. CASE Claims!Allocate(p)
  BY <1>11 DEF Claims!Allocate, Claims!At, Claims!store
<1>12. CASE Claims!BatchRaises(p)
  BY <1>12 DEF Claims!BatchRaises, Claims!Release, Claims!EndTick
<1>13. CASE Claims!FinishTick(p)
  BY <1>13 DEF Claims!FinishTick, Claims!EndTick, Claims!store
<1>14. CASE Claims!Crash(p)
  BY <1>14 DEF Claims!Crash, Claims!EndTick, Claims!store
<1> QED
  BY <1>1, <1>2, <1>3, <1>4, <1>5, <1>6, <1>7, <1>8, <1>9, <1>10, <1>11, <1>12,
     <1>13, <1>14 DEF Claims!Step

LEMMA NextKeeps ==
    ASSUME OneEngine, ClaimsInv, [Claims!Next]_(Claims!vars)
    PROVE  ClaimsInv' /\ \A b \in Bars : status[b] = "processed" => status'[b] = "processed"
<1>1. CASE \E p \in Procs : Claims!Step(p) \/ Claims!Crash(p)
  BY <1>1, StepKeeps
<1>2. CASE Claims!TimePasses
  BY <1>2 DEF Claims!TimePasses, ClaimsInv, Typed, Held, AtHand
<1>3. CASE (\E s \in Symbols : Claims!BarCloses(s)) \/ UNCHANGED Claims!vars
  BY <1>3 DEF Claims!BarCloses, Claims!vars, Claims!store, Claims!tick, ClaimsInv, Typed,
     Held, AtHand
<1> QED
  BY <1>1, <1>2, <1>3 DEF Claims!Next

(* With a single engine process no step takes back a processed bar          *)
(* (claim_bar, release_bar, complete_bar).                                  *)
THEOREM OneEngineProcessedForever ==
    ASSUME OneEngine
    PROVE  Claims!Spec => ProcessedForever
<1>1. ClaimsInv /\ [Claims!Next]_(Claims!vars) => ClaimsInv'
  BY NextKeeps
<1>2. ClaimsInv /\ [Claims!Next]_(Claims!vars)
        => [\A b \in Bars : status[b] = "processed" => status'[b] = "processed"]_status
  BY NextKeeps DEF Claims!vars
<1> QED
  BY <1>1, <1>2, ClaimsInvInit, PTL DEF Claims!Spec, ProcessedForever
-----------------------------------------------------------------------------
(* The type invariant, for any number of engines.                           *)


(* A bar is at hand while it is claimed or evaluated.                       *)
BarAtHand == \A p \in Procs : pc[p] \in {"insert", "update", "evaluate"} => bar[p] \in Bars

ClaimsTypeInv == Claims!TypeOK /\ BarAtHand

(* The bars of a batch, and the one at hand, are bars.                      *)
LEMMA Joined ==
    ASSUME ClaimsTypeInv, NEW p \in Procs, pc[p] = "evaluate"
    PROVE  /\ keys[p] \cup {bar[p]} \in SUBSET Bars
           /\ [keys EXCEPT ![p] = @ \cup {bar[p]}] \in [Procs -> SUBSET Bars]
<1>1. keys[p] \cup {bar[p]} \in SUBSET Bars
  BY DEF ClaimsTypeInv, Claims!TypeOK, BarAtHand
<1> QED
  BY <1>1 DEF ClaimsTypeInv, Claims!TypeOK

LEMMA ClaimTyped ==
    ASSUME ClaimsTypeInv, NEW p \in Procs, bar[p] \in Bars, Claims!Claim(p)
    PROVE  /\ status' \in [Bars -> {"none", "processing", "processed"}]
           /\ age' \in [Bars -> 0 .. Claims!MaxAge]
<1>1. lag[p] \in 0 .. Claims!MaxAge
  BY LeaseAssumption DEF ClaimsTypeInv, Claims!TypeOK, Claims!MaxAge
<1> QED
  BY <1>1 DEF ClaimsTypeInv, Claims!TypeOK, Claims!Claim

LEMMA ReleaseTyped ==
    ASSUME ClaimsTypeInv, NEW released, Claims!Release(released)
    PROVE  /\ status' \in [Bars -> {"none", "processing", "processed"}]
           /\ age' \in [Bars -> 0 .. Claims!MaxAge]
<1>1. 0 \in 0 .. Claims!MaxAge
  BY LeaseAssumption DEF Claims!MaxAge
<1> QED
  BY <1>1 DEF ClaimsTypeInv, Claims!TypeOK, Claims!Release

LEMMA FaultTyped ==
    ASSUME ClaimsTypeInv, Claims!Fault
    PROVE  faults' \in 0 .. MaxFaults
  BY FaultBoundAssumption DEF ClaimsTypeInv, Claims!TypeOK, Claims!Fault

LEMMA EndTickTyped ==
    ASSUME ClaimsTypeInv, NEW p \in Procs, Claims!EndTick(p)
    PROVE  /\ pc' \in [Procs -> Claims!PCs]
           /\ lag' \in [Procs -> 0 .. MaxLag]
           /\ todo' \in [Procs -> SUBSET Bars]
           /\ bar' \in [Procs -> Bars \cup {NoBar}]
           /\ keys' \in [Procs -> SUBSET Bars]
           /\ BarAtHand'
  BY LeaseAssumption DEF ClaimsTypeInv, Claims!TypeOK, Claims!EndTick, Claims!PCs,
     BarAtHand

LEMMA StepTyped ==
    ASSUME ClaimsTypeInv, NEW p \in Procs, Claims!Step(p) \/ Claims!Crash(p)
    PROVE  ClaimsTypeInv'
<1> USE DEF ClaimsTypeInv, Claims!TypeOK, BarAtHand, Claims!PCs, Claims!store
<1>1. CASE Claims!StartTick(p)
  BY <1>1 DEF Claims!StartTick, Claims!At
<1>2. ASSUME NEW b \in Bars, Claims!SelectFindsFree(p, b)
      PROVE  ClaimsTypeInv'
  BY <1>2 DEF Claims!SelectFindsFree, Claims!Visit, Claims!At
<1>3. ASSUME NEW b \in Bars, Claims!SelectFindsTaken(p, b)
      PROVE  ClaimsTypeInv'
  BY <1>3 DEF Claims!SelectFindsTaken, Claims!Visit, Claims!At
<1>4. ASSUME NEW b \in Bars, Claims!FinishKey(p, b)
      PROVE  ClaimsTypeInv'
  <2>1. 0 \in 0 .. Claims!MaxAge
    BY LeaseAssumption DEF Claims!MaxAge
  <2>2. /\ status' \in [Bars -> {"none", "processing", "processed"}]
        /\ age' \in [Bars -> 0 .. Claims!MaxAge]
    BY <1>4, <2>1, ReleaseTyped DEF Claims!FinishKey, Claims!Complete
  <2> QED BY <1>4, <2>2 DEF Claims!FinishKey
<1>5. CASE Claims!Insert(p)
  BY <1>5, ClaimTyped DEF Claims!Insert, Claims!At
<1>6. CASE Claims!InsertRaises(p)
  BY <1>6, EndTickTyped DEF Claims!InsertRaises
<1>7. CASE Claims!Update(p)
  BY <1>7, ClaimTyped DEF Claims!Update, Claims!At
<1>8. CASE Claims!Evaluate(p)
  BY <1>8, Joined DEF Claims!Evaluate, Claims!At
<1>9. CASE Claims!EvaluateUnknown(p)
  <2>1. faults' \in 0 .. MaxFaults /\ unknown' \in BOOLEAN
    BY <1>9, FaultTyped DEF Claims!EvaluateUnknown
  <2> QED BY <1>9, <2>1, Joined, ReleaseTyped DEF Claims!EvaluateUnknown, Claims!At
<1>10. CASE Claims!EvaluateRaises(p)
  BY <1>10, FaultTyped, Joined, ReleaseTyped DEF Claims!EvaluateRaises, Claims!At
<1>11. CASE Claims!Allocate(p)
  <2>1. faults' \in 0 .. MaxFaults /\ unknown' \in BOOLEAN
    BY <1>11, FaultTyped DEF Claims!Allocate
  <2>2. lag' \in [Procs -> 0 .. MaxLag]
    BY <1>11, LeaseAssumption DEF Claims!Allocate
  <2> QED BY <1>11, <2>1, <2>2 DEF Claims!Allocate, Claims!At
<1>12. CASE Claims!BatchRaises(p)
  BY <1>12, FaultTyped, ReleaseTyped, EndTickTyped DEF Claims!BatchRaises
<1>13. CASE Claims!FinishTick(p)
  BY <1>13, EndTickTyped DEF Claims!FinishTick
<1>14. CASE Claims!Crash(p)
  BY <1>14, FaultTyped, EndTickTyped DEF Claims!Crash
<1> QED
  BY <1>1, <1>2, <1>3, <1>4, <1>5, <1>6, <1>7, <1>8, <1>9, <1>10, <1>11, <1>12,
     <1>13, <1>14 DEF Claims!Step

LEMMA TimeTyped ==
    ASSUME ClaimsTypeInv, Claims!TimePasses
    PROVE  ClaimsTypeInv'
<1>1. age' \in [Bars -> 0 .. Claims!MaxAge]
  BY LeaseAssumption
  DEF ClaimsTypeInv, Claims!TypeOK, Claims!TimePasses, Claims!Older, Claims!MaxAge
<1>2. lag' \in [Procs -> 0 .. MaxLag]
  BY LeaseAssumption DEF ClaimsTypeInv, Claims!TypeOK, Claims!TimePasses
<1> QED
  BY <1>1, <1>2 DEF ClaimsTypeInv, Claims!TypeOK, BarAtHand, Claims!TimePasses

(* The state of any number of engines on one table stays well typed.        *)
THEOREM ClaimsTyped == Claims!Spec => []Claims!TypeOK
<1>1. Claims!Init => ClaimsTypeInv
  <2>1. 0 \in Nat /\ 0 \in 0 .. Claims!MaxAge /\ 0 \in 0 .. MaxLag /\ 0 \in 0 .. MaxFaults
    BY LeaseAssumption, FaultBoundAssumption DEF Claims!MaxAge
  <2>2. Claims!Init => newest \in [Symbols -> Nat] /\ age \in [Bars -> 0 .. Claims!MaxAge]
    BY <2>1 DEF Claims!Init
  <2>3. Claims!Init => /\ lag \in [Procs -> 0 .. MaxLag] /\ faults \in 0 .. MaxFaults
                       /\ status \in [Bars -> {"none", "processing", "processed"}]
    BY <2>1 DEF Claims!Init
  <2>4. Claims!Init => unknown \in BOOLEAN /\ BarAtHand
    BY DEF Claims!Init, BarAtHand
  <2>5. Claims!Init => /\ pc \in [Procs -> Claims!PCs] /\ todo \in [Procs -> SUBSET Bars]
                       /\ keys \in [Procs -> SUBSET Bars]
                       /\ bar \in [Procs -> Bars \cup {NoBar}]
    BY DEF Claims!Init, Claims!PCs
  <2> QED BY <2>2, <2>3, <2>4, <2>5 DEF ClaimsTypeInv, Claims!TypeOK
<1>2. ClaimsTypeInv /\ [Claims!Next]_(Claims!vars) => ClaimsTypeInv'
  <2> SUFFICES ASSUME ClaimsTypeInv, [Claims!Next]_(Claims!vars) PROVE ClaimsTypeInv'
    OBVIOUS
  <2>1. CASE \E p \in Procs : Claims!Step(p) \/ Claims!Crash(p)
    BY <2>1, StepTyped
  <2>2. CASE Claims!TimePasses
    BY <2>2, TimeTyped
  <2>3. ASSUME NEW s \in Symbols, Claims!BarCloses(s) PROVE ClaimsTypeInv'
    <3>1. newest' \in [Symbols -> Nat]
      BY <2>3 DEF Claims!BarCloses, ClaimsTypeInv, Claims!TypeOK
    <3> QED BY <2>3, <3>1 DEF Claims!BarCloses, Claims!store, Claims!tick, ClaimsTypeInv,
               Claims!TypeOK, BarAtHand
  <2>4. CASE UNCHANGED Claims!vars
    BY <2>4 DEF Claims!vars, Claims!store, Claims!tick, ClaimsTypeInv, Claims!TypeOK,
       BarAtHand
  <2> QED BY <2>1, <2>2, <2>3, <2>4 DEF Claims!Next
<1>3. ClaimsTypeInv => Claims!TypeOK
  BY DEF ClaimsTypeInv
<1> QED
  BY <1>1, <1>2, <1>3, PTL DEF Claims!Spec

-----------------------------------------------------------------------------
(* A bar of the batch without a row is one that was released because an     *)
(* order is UNKNOWN, which no step of the tick forgets.  What the tick has  *)
(* still to visit or has at hand is not in the batch.                       *)
Kept ==
    \A p \in Procs :
        /\ pc[p] = "scan" =>
             /\ keys[p] \cap todo[p] = {}
             /\ unknown \/ \A b \in keys[p] : status[b] # "none"
        /\ pc[p] \in {"insert", "update", "evaluate"} =>
             /\ keys[p] \cap (todo[p] \cup {bar[p]}) = {}
             /\ bar[p] \notin todo[p]
             /\ unknown \/ \A b \in keys[p] : status[b] # "none"
        /\ pc[p] = "evaluate" => status[bar[p]] # "none"
        /\ pc[p] = "finish" => unknown \/ \A b \in todo[p] : status[b] # "none"
        /\ pc[p] = "idle" => keys[p] = {}

KeptInv == ClaimsInv /\ Kept

LEMMA StepKeepsRows ==
    ASSUME OneEngine, ~LateFailures, KeptInv, NEW p \in Procs,
           Claims!Step(p) \/ Claims!Crash(p)
    PROVE  Kept'
<1> USE DEF KeptInv, ClaimsInv, Typed, Held, AtHand, OneEngine, Claims!PCs, Kept
<1>1. CASE Claims!StartTick(p)
  BY <1>1 DEF Claims!StartTick, Claims!At, Claims!store
<1>2. ASSUME NEW b \in Bars, Claims!SelectFindsFree(p, b)
      PROVE  Kept'
  BY <1>2 DEF Claims!SelectFindsFree, Claims!Visit, Claims!At, Claims!store
<1>3. ASSUME NEW b \in Bars, Claims!SelectFindsTaken(p, b)
      PROVE  Kept'
  BY <1>3 DEF Claims!SelectFindsTaken, Claims!Visit, Claims!At, Claims!store
<1>4. ASSUME NEW b \in Bars, Claims!FinishKey(p, b)
      PROVE  Kept'
  BY <1>4 DEF Claims!FinishKey, Claims!Complete, Claims!Release, Claims!store
<1>5. CASE Claims!Insert(p)
  BY <1>5 DEF Claims!Insert, Claims!Claim, Claims!At
<1>6. CASE Claims!InsertRaises(p)
  BY <1>6 DEF Claims!InsertRaises, Claims!EndTick, Claims!store
<1>7. CASE Claims!Update(p)
  BY <1>7 DEF Claims!Update, Claims!Claim, Claims!At, Claims!store
<1>8. CASE Claims!Evaluate(p)
  BY <1>8 DEF Claims!Evaluate, Claims!At, Claims!store
<1>9. CASE Claims!EvaluateUnknown(p)
  BY <1>9 DEF Claims!EvaluateUnknown, Claims!Release, Claims!At
<1>10. CASE Claims!EvaluateRaises(p)
  BY <1>10 DEF Claims!EvaluateRaises, Claims!Release, Claims!At
<1>11. CASE Claims!Allocate(p)
  BY <1>11 DEF Claims!Allocate, Claims!At, Claims!store
<1>12. CASE Claims!BatchRaises(p)
  BY <1>12 DEF Claims!BatchRaises, Claims!Release, Claims!EndTick
<1>13. CASE Claims!FinishTick(p)
  BY <1>13 DEF Claims!FinishTick, Claims!EndTick, Claims!store
<1>14. CASE Claims!Crash(p)
  BY <1>14 DEF Claims!Crash, Claims!EndTick, Claims!store
<1> QED
  BY <1>1, <1>2, <1>3, <1>4, <1>5, <1>6, <1>7, <1>8, <1>9, <1>10, <1>11, <1>12,
     <1>13, <1>14 DEF Claims!Step

(* With a single engine, and an order ledger that can be read, a tick that  *)
(* completes its bars finds the row of each (complete_bar).                 *)
THEOREM OneEngineFindsItsRows ==
    ASSUME OneEngine, ~LateFailures
    PROVE  Claims!Spec => []CompletionFindsItsRow
<1>1. Claims!Init => KeptInv
  BY ClaimsInvInit DEF KeptInv, Kept, Claims!Init
<1>2. KeptInv /\ [Claims!Next]_(Claims!vars) => KeptInv'
  <2> SUFFICES ASSUME KeptInv, [Claims!Next]_(Claims!vars) PROVE Kept'
    BY NextKeeps DEF KeptInv
  <2>1. CASE \E p \in Procs : Claims!Step(p) \/ Claims!Crash(p)
    BY <2>1, StepKeepsRows
  <2>2. CASE Claims!TimePasses
    BY <2>2 DEF Claims!TimePasses, KeptInv, Kept
  <2>3. CASE (\E s \in Symbols : Claims!BarCloses(s)) \/ UNCHANGED Claims!vars
    <3>1. UNCHANGED <<status, unknown, pc, todo, bar, keys>>
      BY <2>3 DEF Claims!BarCloses, Claims!vars, Claims!store, Claims!tick
    <3> QED BY <3>1 DEF KeptInv, Kept
  <2> QED BY <2>1, <2>2, <2>3 DEF Claims!Next
<1>3. KeptInv => CompletionFindsItsRow
  BY DEF KeptInv, Kept, CompletionFindsItsRow
<1> QED
  BY <1>1, <1>2, <1>3, PTL DEF Claims!Spec

-----------------------------------------------------------------------------
(* The dashboard's jobs.                                                    *)

JobsTyped ==
    /\ active \in Jobs \cup {NoJob} /\ process \in Jobs \cup {NoJob}
    /\ mem \in [Jobs -> Service!Status]
    /\ cancelled \in [Jobs -> BOOLEAN]
    /\ worker \in [Jobs -> {"none", "start", "abort", "lost", "wait", "judge",
                            "leave", "finish", "done", "ended", "dead"}]
    /\ result \in [Jobs -> Service!TERMINAL]
    /\ child \in [Jobs -> {"none", "running", "complete", "broken", "killed"}]
    /\ store \in [Jobs -> Service!Status]

Busy == {"start", "abort", "lost", "wait", "judge", "leave", "finish"}

(* A worker at work holds the slot, and its job can be cancelled. *)
SlotHeld ==
    \A j \in Jobs : worker[j] \in Busy =>
        up /\ active = j /\ mem[j] \in {"queued", "running"}

(* A running child belongs to such a worker, is the one that cancel would   *)
(* kill, and nobody has asked for its end.                                  *)
ChildHeld ==
    \A j \in Jobs : child[j] = "running" =>
        /\ worker[j] \in {"abort", "lost", "wait"}
        /\ process = j
        /\ ~cancelled[j] /\ ~closed

HeldInv == JobsTyped /\ SlotHeld /\ ChildHeld

LEMMA HeldInit == Service!Init => HeldInv
  BY JobsAssumption DEF Service!Init, HeldInv, JobsTyped, SlotHeld, ChildHeld, Busy,
     Service!Status, Service!TERMINAL

LEMMA SaveTyped ==
    ASSUME HeldInv, NEW j \in Jobs, NEW s \in Service!Status, Service!Saved(j,
           s) \/ Service!SaveRaises(j, s)
    PROVE  store' \in [Jobs -> Service!Status]
  BY DEF Service!Saved, Service!SaveRaises, HeldInv, JobsTyped

(* A step of one worker. *)
LEMMA HeldRun ==
    ASSUME HeldInv, NEW j \in Jobs, Service!Run(j)
    PROVE  HeldInv'
<1> USE DEF HeldInv, JobsTyped, SlotHeld, ChildHeld, Busy, Service!Status,
            Service!TERMINAL, Service!Goes
<1>1. CASE Service!RunCancelled(j)
  BY <1>1 DEF Service!RunCancelled
<1>2. CASE Service!RunRaises(j)
  BY <1>2 DEF Service!RunRaises
<1>3. CASE Service!RunStarts(j)
  BY <1>3 DEF Service!RunStarts, Service!Unwanted, Service!Saved, Service!SaveRaises
<1>4. CASE Service!RunLosesReader(j)
  BY <1>4 DEF Service!RunLosesReader, Service!Unwanted, Service!Saved
<1>5. CASE Service!RunAborts(j)
  BY <1>5, JobsAssumption DEF Service!RunAborts, Service!Kill
<1>6. CASE Service!WaitReturns(j)
  BY <1>6 DEF Service!WaitReturns, Service!ChildExits
<1>7. CASE Service!WaitTimesOut(j)
  BY <1>7, JobsAssumption DEF Service!WaitTimesOut, Service!Kill
<1>8. CASE Service!Judge(j)
  BY <1>8 DEF Service!Judge
<1>9. CASE Service!Finish(j)
  <2>0. Service!FinalStatus(j) \in Service!Status
    BY DEF Service!FinalStatus
  <2>1. mem' \in [Jobs -> Service!Status]
    BY <1>9, <2>0 DEF Service!Finish, Service!Publish
  <2>4. store' \in [Jobs -> Service!Status]
    BY <1>9, <2>1, SaveTyped DEF Service!Finish
  <2>2. \A i \in Jobs : worker'[i] \notin Busy
    BY <1>9 DEF Service!Finish
  <2>3. \A i \in Jobs : child'[i] # "running"
    BY <1>9 DEF Service!Finish
  <2> QED
    BY <1>9, <2>1, <2>2, <2>3, <2>4 DEF Service!Finish
<1> QED
  BY <1>1, <1>2, <1>3, <1>4, <1>5, <1>6, <1>7, <1>8, <1>9 DEF Service!Run

LEMMA HeldNext ==
    ASSUME "crash" \notin Faults, HeldInv, [Service!Next]_(Service!vars)
    PROVE  HeldInv'
<1> USE DEF HeldInv, JobsTyped, SlotHeld, ChildHeld, Busy, Service!Status,
            Service!TERMINAL
<1>1. ASSUME NEW j \in Jobs, Service!Submit(j)
      PROVE  HeldInv'
  BY <1>1, JobsAssumption DEF Service!Submit, Service!SlotFree, Service!Saved
<1>2. ASSUME NEW j \in Jobs, Service!SubmitRaises(j)
      PROVE  HeldInv'
  BY <1>2 DEF Service!SubmitRaises, Service!SaveRaises, Service!Saved
<1>3. ASSUME NEW j \in Jobs, Service!Run(j)
      PROVE  HeldInv'
  BY <1>3, HeldRun
<1>4. ASSUME NEW j \in Jobs, Service!SaveLogs(j)
      PROVE  HeldInv'
  BY <1>4 DEF Service!SaveLogs, Service!Saved
<1>5. ASSUME NEW j \in Jobs, Service!Cancel(j)
      PROVE  HeldInv'
  <2>1. store' \in [Jobs -> Service!Status]
    BY <1>5, SaveTyped DEF Service!Cancel, Service!RequestCancel
  <2>2. ChildHeld'
    BY <1>5, JobsAssumption DEF Service!Cancel, Service!RequestCancel, Service!Kill
  <2> QED
    BY <1>5, <2>1, <2>2, JobsAssumption DEF Service!Cancel, Service!RequestCancel,
       Service!Kill
<1>6. ASSUME NEW j \in Jobs, Service!ChildEnds(j)
      PROVE  HeldInv'
  BY <1>6 DEF Service!ChildEnds
<1>7. CASE Service!Close
  <2>1. CASE \E j \in Jobs : active = j /\ Service!Cancelable(j) /\ Service!RequestCancel(j)
    <3>1. PICK j \in Jobs : active = j /\ Service!Cancelable(j) /\ Service!RequestCancel(j)
      BY <2>1
    <3>2. store' \in [Jobs -> Service!Status]
      BY <3>1, SaveTyped DEF Service!RequestCancel
    <3>3. \A i \in Jobs : child'[i] # "running"
      BY <3>1, JobsAssumption DEF Service!RequestCancel, Service!Kill
    <3>4. JobsTyped'
      BY <1>7, <3>1, <3>2 DEF Service!Close, Service!RequestCancel, Service!Kill
    <3> QED
      BY <1>7, <3>3, <3>4 DEF Service!Close
  <2>2. CASE /\ \A j \in Jobs : ~(active = j /\ Service!Cancelable(j))
             /\ UNCHANGED <<cancelled, child, store>>
    <3>1. \A j \in Jobs : worker[j] \notin Busy
      BY <2>2 DEF Service!Cancelable
    <3>2. \A j \in Jobs : child'[j] # "running"
      BY <2>2, <3>1
    <3> QED
      BY <1>7, <2>2, <3>2 DEF Service!Close
  <2> QED
    BY <1>7, <2>1, <2>2 DEF Service!Close
<1>8. CASE Service!End
  BY <1>8 DEF Service!End
<1>9. CASE Service!Start
  BY <1>9 DEF Service!Start, Service!Interrupted
<1>10. CASE UNCHANGED Service!vars
  BY <1>10 DEF Service!vars
<1> QED
  BY <1>1, <1>2, <1>3, <1>4, <1>5, <1>6, <1>7, <1>8, <1>9, <1>10 DEF Service!Next

-----------------------------------------------------------------------------
(* When it is not killed, a service of any size keeps to one child, and no  *)
(* child outlives the cancel of its job or the close of the service.        *)
THEOREM ChildrenAreHeld ==
    ASSUME "crash" \notin Faults
    PROVE  Service!Spec => []ChildrenHeld
<1>1. HeldInv => ChildrenHeld
  BY DEF HeldInv, ChildHeld, ChildrenHeld, OneChild, CancelReachesChild
<1> QED
  BY HeldInit, HeldNext, <1>1, PTL DEF Service!Spec

-----------------------------------------------------------------------------
(* The rows: what the service shows, saves and publishes of a job.          *)

(* While a job can be cancelled its record is open and nothing is published. *)
OpenRows ==
    \A j \in Jobs : mem[j] \in {"queued", "running"} =>
        store[j] \in {"queued", "running"} /\ marker[j] = "none"

(* A record that has ended is the one the service shows; a report is of a    *)
(* job on record, a thread of a job the service knows.                       *)
EndedRows ==
    \A j \in Jobs :
        /\ up /\ store[j] \in Service!TERMINAL => mem[j] = store[j]
        /\ store[j] = "none" => marker[j] = "none"
        /\ mem[j] = "none" \/ ~up => worker[j] \in {"none", "done"}

(* The flags die with the service. *)
CancelsKept ==
    \A j \in Jobs : cancelled[j] =>
        up /\ "succeeded" \notin {mem[j], store[j], marker[j]}

RowsInv == Service!TypeOK /\ SlotHeld /\ OpenRows /\ EndedRows /\ CancelsKept

LEMMA RowsInit == Service!Init => RowsInv
<1> SUFFICES ASSUME Service!Init PROVE RowsInv
  OBVIOUS
<1> USE DEF Service!Init, Service!Status, Service!TERMINAL
<1>0. restarts \in 0 .. MaxRestarts
  BY JobsAssumption
<1>1. Service!TypeOK
  BY <1>0 DEF Service!TypeOK
<1>2. SlotHeld /\ OpenRows /\ EndedRows /\ CancelsKept
  BY DEF SlotHeld, OpenRows, EndedRows, CancelsKept, Busy
<1> QED
  BY <1>1, <1>2 DEF RowsInv

LEMMA SaveKeepsType ==
    ASSUME Service!TypeOK, NEW j \in Jobs, NEW s \in Service!Status, Service!Saved(j,
           s) \/ Service!SaveRaises(j, s)
    PROVE  /\ store' \in [Jobs -> Service!Status]
           /\ store'[j] \in {s, store[j]}
           /\ \A i \in Jobs \ {j} : store'[i] = store[i]
  BY DEF Service!Saved, Service!SaveRaises, Service!TypeOK

LEMMA KillKeepsType ==
    ASSUME Service!TypeOK, NEW j, Service!Kill(j)
    PROVE  child' \in [Jobs -> {"none", "running", "complete", "broken", "killed"}]
  BY DEF Service!Kill, Service!TypeOK

LEMMA RowsRun ==
    ASSUME RowsInv, NEW j \in Jobs, Service!Run(j)
    PROVE  /\ RowsInv'
           /\ \A i \in Jobs : store[i] \in Service!TERMINAL => store'[i] = store[i]
<1> USE DEF RowsInv, Service!TypeOK, SlotHeld, OpenRows, EndedRows, CancelsKept, Busy,
            Service!Status, Service!TERMINAL, Service!Goes
<1>1. CASE Service!RunCancelled(j)
  BY <1>1 DEF Service!RunCancelled
<1>2. CASE Service!RunRaises(j)
  BY <1>2 DEF Service!RunRaises
<1>3. CASE Service!RunStarts(j)
  BY <1>3 DEF Service!RunStarts, Service!Unwanted, Service!Saved, Service!SaveRaises
<1>4. CASE Service!RunLosesReader(j)
  BY <1>4 DEF Service!RunLosesReader, Service!Unwanted, Service!Saved
<1>5. CASE Service!RunAborts(j)
  BY <1>5, KillKeepsType DEF Service!RunAborts
<1>6. CASE Service!WaitReturns(j)
  BY <1>6 DEF Service!WaitReturns, Service!ChildExits
<1>7. CASE Service!WaitTimesOut(j)
  BY <1>7, KillKeepsType DEF Service!WaitTimesOut
<1>8. CASE Service!Judge(j)
  BY <1>8 DEF Service!Judge
<1>9. CASE Service!Finish(j)
  <2>0. Service!FinalStatus(j) \in Service!TERMINAL /\ (cancelled[j] => Service!FinalStatus(j) = "cancelled")
    BY DEF Service!FinalStatus
  <2>1. PICK s \in Service!TERMINAL :
          /\ mem' = [mem EXCEPT ![j] = s]
          /\ cancelled[j] => s # "succeeded"
          /\ marker' \in {marker, [marker EXCEPT ![j] = Service!FinalStatus(j)]}
    BY <1>9, <2>0 DEF Service!Finish, Service!Publish
  <2>2. mem'[j] = s
    BY <2>1
  <2>3. /\ store' \in [Jobs -> Service!Status]
        /\ store'[j] \in {s, store[j]}
        /\ \A i \in Jobs \ {j} : store'[i] = store[i]
    BY <1>9, <2>2, SaveKeepsType DEF Service!Finish
  <2>4. up /\ store[j] \in {"queued", "running"} /\ worker[j] \in {"leave", "finish"}
    BY <1>9 DEF Service!Finish
  <2>5. /\ worker' \in [Jobs -> {"none", "start", "abort", "lost", "wait", "judge",
                                 "leave", "finish", "done", "ended", "dead"}]
        /\ worker'[j] \in {"done", "ended"}
        /\ \A i \in Jobs \ {j} : worker'[i] = worker[i]
        /\ UNCHANGED <<up, closed, cancelled, result, child, restarts>>
        /\ active' = NoJob /\ process' = NoJob
    BY <1>9 DEF Service!Finish
  <2>6. /\ marker' \in [Jobs -> {"none"} \cup Service!TERMINAL]
        /\ marker'[j] \in {marker[j], Service!FinalStatus(j)}
        /\ \A i \in Jobs \ {j} : marker'[i] = marker[i]
    BY <2>1, <2>0
  <2>7. Service!TypeOK'
    BY <2>1, <2>3, <2>5, <2>6
  <2>8. SlotHeld'
    BY <2>4, <2>5
  <2>9. OpenRows'
    BY <2>1, <2>3, <2>6
  <2>10. EndedRows'
    BY <2>1, <2>3, <2>4, <2>5, <2>6
  <2>11. CancelsKept'
    BY <2>0, <2>1, <2>2, <2>3, <2>4, <2>5, <2>6
  <2> QED
    BY <2>3, <2>4, <2>7, <2>8, <2>9, <2>10, <2>11
<1> QED
  BY <1>1, <1>2, <1>3, <1>4, <1>5, <1>6, <1>7, <1>8, <1>9 DEF Service!Run

LEMMA RowsCancel ==
    ASSUME RowsInv, up, NEW j \in Jobs, Service!Cancelable(j), Service!RequestCancel(j),
           closed' \in BOOLEAN,
           UNCHANGED <<up, active, process, mem, worker, result, marker, restarts>>
    PROVE  /\ RowsInv'
           /\ \A i \in Jobs : store[i] \in Service!TERMINAL => store'[i] = store[i]
<1> USE DEF RowsInv, Service!TypeOK, SlotHeld, OpenRows, EndedRows, CancelsKept, Busy,
            Service!Status, Service!TERMINAL, Service!Cancelable
<1>1. mem[j] \in {"queued", "running"}
  OBVIOUS
<1>2. /\ store' \in [Jobs -> Service!Status]
      /\ store'[j] \in {mem[j], store[j]}
      /\ \A i \in Jobs \ {j} : store'[i] = store[i]
  BY SaveKeepsType DEF Service!RequestCancel
<1>3. child' \in [Jobs -> {"none", "running", "complete", "broken", "killed"}]
  BY KillKeepsType DEF Service!RequestCancel
<1>4. cancelled' = [cancelled EXCEPT ![j] = TRUE]
  BY DEF Service!RequestCancel
<1> QED
  BY <1>1, <1>2, <1>3, <1>4

LEMMA RowsNext ==
    ASSUME RowsInv, [Service!Next]_(Service!vars)
    PROVE  /\ RowsInv'
           /\ \A i \in Jobs : store[i] \in Service!TERMINAL => store'[i] = store[i]
<1> USE DEF RowsInv, Service!TypeOK, SlotHeld, OpenRows, EndedRows, CancelsKept, Busy,
            Service!Status, Service!TERMINAL
<1>1. ASSUME NEW j \in Jobs, Service!Submit(j)
      PROVE  /\ RowsInv'
             /\ \A i \in Jobs : store[i] \in Service!TERMINAL => store'[i] = store[i]
  BY <1>1, JobsAssumption DEF Service!Submit, Service!SlotFree, Service!Saved
<1>2. ASSUME NEW j \in Jobs, Service!SubmitRaises(j)
      PROVE  /\ RowsInv'
             /\ \A i \in Jobs : store[i] \in Service!TERMINAL => store'[i] = store[i]
  BY <1>2 DEF Service!SubmitRaises, Service!SaveRaises, Service!Saved
<1>3. ASSUME NEW j \in Jobs, Service!Run(j)
      PROVE  /\ RowsInv'
             /\ \A i \in Jobs : store[i] \in Service!TERMINAL => store'[i] = store[i]
  BY <1>3, RowsRun
<1>4. ASSUME NEW j \in Jobs, Service!SaveLogs(j)
      PROVE  /\ RowsInv'
             /\ \A i \in Jobs : store[i] \in Service!TERMINAL => store'[i] = store[i]
  BY <1>4 DEF Service!SaveLogs, Service!Saved
<1>5. ASSUME NEW j \in Jobs, Service!Cancel(j)
      PROVE  /\ RowsInv'
             /\ \A i \in Jobs : store[i] \in Service!TERMINAL => store'[i] = store[i]
  <2>1. closed' \in BOOLEAN
    BY <1>5 DEF Service!Cancel
  <2> QED
    BY <1>5, <2>1, RowsCancel DEF Service!Cancel
<1>6. ASSUME NEW j \in Jobs, Service!ChildEnds(j)
      PROVE  /\ RowsInv'
             /\ \A i \in Jobs : store[i] \in Service!TERMINAL => store'[i] = store[i]
  BY <1>6 DEF Service!ChildEnds
<1>7. CASE Service!Close
  <2>1. ASSUME NEW j \in Jobs, Service!Cancelable(j), Service!RequestCancel(j)
        PROVE  /\ RowsInv'
               /\ \A i \in Jobs : store[i] \in Service!TERMINAL => store'[i] = store[i]
    BY <1>7, <2>1, RowsCancel DEF Service!Close
  <2>2. CASE UNCHANGED <<cancelled, child, store>>
    BY <1>7, <2>2 DEF Service!Close
  <2> QED
    BY <1>7, <2>1, <2>2 DEF Service!Close
<1>8. CASE Service!End
  <2>1. /\ marker' \in [Jobs -> {"none"} \cup Service!TERMINAL]
        /\ \A i \in Jobs : store[i] = "none" => marker'[i] = "none"
    <3>1. CASE UNCHANGED marker
      BY <3>1
    <3>2. ASSUME NEW j \in Jobs, worker[j] \in {"leave", "finish"},
                 marker' = [marker EXCEPT ![j] = Service!FinalStatus(j)]
          PROVE  /\ marker' \in [Jobs -> {"none"} \cup Service!TERMINAL]
                 /\ \A i \in Jobs : store[i] = "none" => marker'[i] = "none"
      BY <3>2 DEF Service!FinalStatus
    <3> QED
      BY <1>8, <3>1, <3>2 DEF Service!End
  <2> QED
    BY <1>8, <2>1 DEF Service!End
<1>9. CASE Service!Start
  <2>1. restarts' \in 0 .. MaxRestarts
    BY <1>9, JobsAssumption DEF Service!Start
  <2>2. /\ store' \in [Jobs -> Service!Status] /\ mem' = store'
        /\ \A i \in Jobs : store'[i] = Service!Interrupted(store[i])
    BY <1>9 DEF Service!Start, Service!Interrupted
  <2>3. \A i \in Jobs : store'[i] \notin {"queued", "running"}
    BY <2>2 DEF Service!Interrupted
  <2>4. Service!TypeOK'
    BY <1>9, <2>1, <2>2 DEF Service!Start
  <2>5. \A i \in Jobs : worker[i] \notin Busy /\ ~cancelled[i]
    BY <1>9 DEF Service!Start
  <2>6. \A i \in Jobs : store'[i] = "none" => store[i] = "none"
    BY <2>2 DEF Service!Interrupted
  <2>7. \A i \in Jobs : worker[i] \in {"none", "done"}
    BY <1>9 DEF Service!Start
  <2> QED
    BY <1>9, <2>2, <2>3, <2>4, <2>5, <2>6, <2>7 DEF Service!Start, Service!Interrupted
<1>10. CASE UNCHANGED Service!vars
  BY <1>10 DEF Service!vars
<1> QED
  BY <1>1, <1>2, <1>3, <1>4, <1>5, <1>6, <1>7, <1>8, <1>9, <1>10 DEF Service!Next

-----------------------------------------------------------------------------
(* Every variable keeps its range, whichever faults strike. *)
THEOREM HistoryTyped == Service!Spec => []Service!TypeOK
<1>1. RowsInv => Service!TypeOK
  BY DEF RowsInv
<1> QED
  BY RowsInit, RowsNext, <1>1, PTL DEF Service!Spec

(* With any number of jobs and restarts, killed or not, the service never    *)
(* calls a job succeeded whose cancel it accepted.                          *)
THEOREM CancelIsKept == Service!Spec => []CancelledNeverSucceeds
<1>1. RowsInv => CancelledNeverSucceeds
  BY DEF RowsInv, CancelsKept, CancelledNeverSucceeds
<1> QED
  BY RowsInit, RowsNext, <1>1, PTL DEF Service!Spec

(* Whoever saves a job late, its thread, its log reader, a cancel, a close  *)
(* or the next start: the record of a job that has ended stays as it is.    *)
THEOREM EndedStaysEnded == Service!Spec => EndedForGood
<1>1. RowsInv /\ [Service!Next]_(Service!vars) =>
        [\A j \in Jobs : store[j] \in TERMINAL => store'[j] = store[j]]_store
  BY RowsNext DEF TERMINAL, Service!TERMINAL, Service!vars
<1> QED
  BY RowsInit, RowsNext, <1>1, PTL DEF Service!Spec, EndedForGood

-----------------------------------------------------------------------------
(* The circuit breaker and its checkpoint.                                  *)

Circuit == INSTANCE CircuitBreaker

(* Below a block the summary is the daily halt. *)
Agrees(b) == Circuit!Rank[b.action] < 2 => (b.triggered <=> b.daily)
Sound(b) == b \in Circuit!Breaker /\ Circuit!Restorable(b) /\ Agrees(b)

(* Two halves: what holds of the state of the breaker wherever it is kept,  *)
(* and the types of everything else.                                        *)
RestOK ==
    /\ now \in 0 .. MaxTime /\ latest \in now .. MaxTime /\ day \in Circuit!Days \cup {Circuit!None}
    /\ stored \in [state : Circuit!Breaker, day : Circuit!Days \cup {Circuit!None}]
    /\ baseline \in [Circuit!Days -> Equities \cup {Circuit!None}]
    /\ equity \in Equities \cup {Circuit!None}
    /\ phase \in {"down", "idle", "start", "check", "save", "act"}
    /\ phase = "check" => equity \in Equities
    /\ resumes \in 0 .. MaxResumes /\ faults \in 0 .. MaxFaults /\ moves \in 0 .. MaxMoves
    /\ halts \in [daily : SUBSET Circuit!Days, final : BOOLEAN, until : Nat]
BreakerInv == RestOK /\ Sound(breaker) /\ Sound(stored.state)

-----------------------------------------------------------------------------
(* The operators of check_circuit_breaker keep the state of the breaker     *)
(* sound.                                                                   *)

LEMMA FreshSound == Sound(Circuit!Fresh)
  BY DEF Sound, Circuit!Fresh, Circuit!Breaker, Circuit!Action, Circuit!Restorable, Agrees,
       Circuit!Rank, Circuit!None

LEMMA DaysOfTime == ASSUME now \in 0 .. MaxTime PROVE Circuit!Today \in Circuit!Days
  BY CircuitBreakerAssumption DEF CircuitBreakerAssumption, Circuit!Today, Circuit!Days

LEMMA FieldsInBreaker ==
  ASSUME NEW b \in Circuit!Breaker
  PROVE  /\ b.action \in Circuit!Action /\ b.daily \in BOOLEAN /\ b.triggered \in BOOLEAN
         /\ b.sequence \in Nat /\ b.epoch \in Nat /\ b.until \in Nat \cup {Circuit!None}
         /\ b.high \in Equities \cup {Circuit!None} /\ b.since \in Nat
  BY DEF Circuit!Breaker

LEMMA DailyResetSound == ASSUME NEW b, Sound(b) PROVE Sound(Circuit!DailyReset(b))
<1> DEFINE blocked == Circuit!Rank[b.action] >= Circuit!Rank["block_new"]
<1>1. b \in Circuit!Breaker /\ b.action \in Circuit!Action
  BY FieldsInBreaker DEF Sound
<1>2. CASE blocked
  <2>1. Circuit!DailyReset(b) = [b EXCEPT !.daily = FALSE, !.triggered = TRUE]
    BY <1>2 DEF Circuit!DailyReset
  <2>2. Circuit!DailyReset(b) \in Circuit!Breaker
    BY <1>1, <2>1 DEF Circuit!Breaker
  <2> QED BY <1>1, <1>2, <2>1, <2>2 DEF Sound, Circuit!Breaker, Circuit!Restorable, Agrees,
               Circuit!Rank, Circuit!Action
<1>3. CASE ~blocked
  <2>1. Circuit!DailyReset(b) = [b EXCEPT !.daily = FALSE, !.triggered = FALSE]
    <3>1. blocked = FALSE BY <1>3
    <3>2. Circuit!DailyReset(b) = [b EXCEPT !.daily = FALSE, !.triggered = blocked] BY DEF Circuit!DailyReset
    <3> HIDE DEF blocked
    <3> QED BY <3>1, <3>2
  <2>2. Circuit!DailyReset(b) \in Circuit!Breaker
    BY <1>1, <2>1 DEF Circuit!Breaker
  <2> QED BY <1>1, <2>1, <2>2 DEF Sound, Circuit!Breaker, Circuit!Restorable, Agrees
<1> QED BY <1>2, <1>3

LEMMA MarkedSound ==
  ASSUME NEW b, Sound(b), NEW e \in Equities PROVE Sound(Circuit!Marked(b, e))
  BY DEF Sound, Circuit!Marked, Circuit!Breaker, Circuit!Action, Circuit!Restorable, Agrees,
       Circuit!Rank, Circuit!None

LEMMA TargetIsAction ==
  ASSUME NEW high, NEW e PROVE Circuit!Target(high, e) \in Circuit!Action
<1> DEFINE met == {a \in Circuit!Action \ {"normal"} : Circuit!Down(high, e, Threshold[a])}
<1>1. CASE met = {}
  BY <1>1 DEF Circuit!Target, Circuit!Action
<1>2. CASE met # {}
  <2>1. \E a \in met : \A b \in met : Circuit!Rank[b] <= Circuit!Rank[a]
    BY <1>2 DEF Circuit!Action, Circuit!Rank
  <2> QED BY <1>2, <2>1 DEF Circuit!Target
<1> QED BY <1>1, <1>2

LEMMA RecoveredSound ==
  ASSUME NEW b, b \in Circuit!Breaker, NEW m \in Nat PROVE Sound(Circuit!Recovered(b, m))
<1> DEFINE c == Circuit!Recovered(b, m)
<1>1. /\ b.daily \in BOOLEAN /\ b.sequence + 1 \in Nat
      /\ "reduce" \in Circuit!Action /\ "recovery" \in {"none", "transition", "recovery"}
  BY FieldsInBreaker DEF Circuit!Action
<1>2. \A t \in BOOLEAN, n \in Nat :
        [b EXCEPT !.action = "reduce", !.triggered = t, !.sequence = n,
                  !.id = "recovery", !.move = m, !.since = 0] \in Circuit!Breaker
  BY <1>1 DEF Circuit!Breaker
<1>3. c \in Circuit!Breaker
  BY <1>1, <1>2 DEF Circuit!Recovered
<1>4. c.action = "reduce" /\ c.triggered = b.daily /\ c.daily = b.daily
  BY DEF Circuit!Recovered, Circuit!Breaker
<1> QED BY <1>3, <1>4 DEF Sound, Circuit!Restorable, Agrees

LEMMA CooledSound ==
  ASSUME NEW b, Sound(b), NEW e \in Equities, NEW healthy \in BOOLEAN,
         now \in Nat, moves \in Nat
  PROVE  Sound(Circuit!Cooled(b, e, healthy))
<1> DEFINE waiting == IF b.action = "block_new" /\ b.until = Circuit!None
                        THEN [b EXCEPT !.until = now + Cooldown] ELSE b
<1>1. now + Cooldown \in Nat
  BY CircuitBreakerAssumption DEF CircuitBreakerAssumption
<1>2. Sound(waiting)
  BY <1>1 DEF Sound, Circuit!Breaker, Circuit!Action, Circuit!Restorable, Agrees, Circuit!Rank,
       Circuit!None
<1>3. [waiting EXCEPT !.probation = e, !.until = Circuit!None] \in Circuit!Breaker
  BY <1>2 DEF Sound, Circuit!Breaker, Circuit!None
<1>4. Sound(Circuit!Recovered([waiting EXCEPT !.probation = e, !.until = Circuit!None], moves + 1))
  BY <1>3, RecoveredSound
<1> QED BY <1>2, <1>4 DEF Circuit!Cooled

LEMMA OnProbationSound ==
  ASSUME NEW b, Sound(b), NEW e \in Equities, moves \in Nat
  PROVE  Sound(Circuit!OnProbation(b, e))
<1>1. Sound([b EXCEPT !.probation = Circuit!None])
  BY DEF Sound, Circuit!Breaker, Circuit!Action, Circuit!Restorable, Agrees, Circuit!Rank, Circuit!None
<1>2. Sound(Circuit!Recovered([b EXCEPT !.probation = Circuit!None], moves + 2))
  BY <1>1, RecoveredSound DEF Sound
<1> QED BY <1>1, <1>2 DEF Circuit!OnProbation

LEMMA EscalatedSound ==
  ASSUME NEW b, Sound(b), NEW target \in Circuit!Action, now \in Nat, moves \in Nat
  PROVE  Sound(Circuit!Escalated(b, target))
<1>1. now + Cooldown \in Nat /\ moves + 3 \in Nat
  BY CircuitBreakerAssumption DEF CircuitBreakerAssumption
<1>2. CASE Circuit!Rank[target] <= Circuit!Rank[b.action]
  BY <1>2 DEF Circuit!Escalated
<1>3. CASE ~(Circuit!Rank[target] <= Circuit!Rank[b.action])
  <2> DEFINE c == Circuit!Escalated(b, target)
  <2>1. c \in Circuit!Breaker
    <3> DEFINE until == IF target = "block_new"
                          THEN IF Recovery THEN now + Cooldown ELSE Circuit!None ELSE b.until
               probation == IF target = "reduce" THEN b.probation ELSE Circuit!None
               since == IF target = "block_new" THEN now ELSE 0
    <3>1. /\ b \in Circuit!Breaker /\ b.sequence + 1 \in Nat /\ since \in Nat
          /\ until \in Nat \cup {Circuit!None} /\ probation \in Equities \cup {Circuit!None}
      BY <1>1, FieldsInBreaker DEF Sound, Circuit!Breaker
    <3>2. c = [b EXCEPT !.action = target, !.until = until, !.probation = probation,
                        !.sequence = b.sequence + 1, !.id = "transition",
                        !.move = moves + 3, !.since = since]
      BY <1>3, <3>1 DEF Circuit!Escalated, Circuit!Breaker
    <3> HIDE DEF until, probation, since, c
    <3>3. "transition" \in {"none", "transition", "recovery"} OBVIOUS
    <3> QED BY <1>1, <3>1, <3>2, <3>3 DEF Circuit!Breaker
  <2>2. Circuit!Restorable(c)
    BY <1>3 DEF Circuit!Escalated, Sound, Circuit!Breaker, Circuit!Restorable, Circuit!None
  <2>3. Agrees(c)
    BY <1>3 DEF Circuit!Escalated, Sound, Circuit!Breaker, Agrees, Circuit!Rank, Circuit!Action
  <2> QED BY <2>1, <2>2, <2>3 DEF Sound
<1> QED BY <1>2, <1>3

LEMMA DailyCheckedSound ==
  ASSUME NEW b, Sound(b), NEW e PROVE Sound(Circuit!DailyChecked(b, e))
  BY DEF Sound, Circuit!DailyChecked, Circuit!Breaker, Circuit!Action, Circuit!Restorable, Agrees,
       Circuit!Rank, Circuit!None

LEMMA CheckedSound ==
  ASSUME NEW e \in Equities, NEW healthy \in BOOLEAN,
         Sound(breaker), now \in Nat, moves \in Nat
  PROVE  Sound(Circuit!Checked(e, healthy))
<1> DEFINE b == Circuit!Marked(breaker, e)
           target == Circuit!Target(b.high, e)
           eased == Recovery /\ b.action \notin Circuit!Terminal /\ target \notin Circuit!Terminal
           cooled == IF eased THEN Circuit!Cooled(b, e, healthy) ELSE b
           tried == IF eased THEN Circuit!OnProbation(cooled, e) ELSE b
           aim == IF eased THEN Circuit!ProbationTarget(cooled, e, target) ELSE target
<1>1. Sound(b) BY MarkedSound
<1>2. Sound(cooled) BY <1>1, CooledSound
<1>3. Sound(tried) BY <1>1, <1>2, OnProbationSound
<1>4. target \in Circuit!Action BY TargetIsAction
<1>5. aim \in Circuit!Action BY <1>4 DEF Circuit!ProbationTarget, Circuit!Action
<1>6. Sound(Circuit!Escalated(tried, aim)) BY <1>3, <1>5, EscalatedSound
<1>7. Sound(Circuit!DailyChecked(Circuit!Escalated(tried, aim), e)) BY <1>6, DailyCheckedSound
<1> QED BY <1>7 DEF Circuit!Checked

LEMMA ResumedSound ==
  ASSUME NEW b, b \in Circuit!Breaker, NEW e \in Equities, NEW rebase \in BOOLEAN
  PROVE  Sound(Circuit!Resumed(b, e, rebase))
<1> DEFINE high == IF rebase \/ b.high = Circuit!None THEN e ELSE b.high
<1>1. high \in Equities \cup {Circuit!None} /\ b.epoch + 1 \in Nat
  BY FieldsInBreaker
<1>2. Circuit!Resumed(b, e, rebase) = [Circuit!Fresh EXCEPT !.high = high, !.epoch = b.epoch + 1]
  BY DEF Circuit!Resumed
<1> HIDE DEF high
<1>3. [Circuit!Fresh EXCEPT !.high = high, !.epoch = b.epoch + 1] \in Circuit!Breaker
  BY <1>1, FreshSound DEF Sound, Circuit!Breaker
<1> QED BY <1>2, <1>3, FreshSound DEF Sound, Circuit!Breaker, Circuit!Restorable, Agrees, Circuit!Fresh

-----------------------------------------------------------------------------
(* Every action keeps all of it.                                            *)

LEMMA BreakerStart == Circuit!Init => BreakerInv
<1> SUFFICES ASSUME Circuit!Init PROVE BreakerInv OBVIOUS
<1>1. Sound(breaker) /\ Sound(stored.state) /\ stored.state \in Circuit!Breaker
  BY FreshSound DEF Circuit!Init, Circuit!NotStored, Sound
<1>2. 0 \in 0 .. MaxTime /\ 0 \in 0 .. MaxMoves /\ 0 \in 0 .. MaxFaults /\ 0 \in 0 .. MaxResumes
  BY FaultBoundAssumption, CircuitBreakerAssumption DEF CircuitBreakerAssumption
<1> QED BY <1>1, <1>2 DEF Circuit!Init, BreakerInv, RestOK, Circuit!NotStored, Circuit!NoHalts

LEMMA BreakerStep == BreakerInv /\ [Circuit!Next]_Circuit!vars => BreakerInv'
<1> SUFFICES ASSUME BreakerInv, [Circuit!Next]_Circuit!vars PROVE BreakerInv' OBVIOUS
<1> USE DEF BreakerInv
<1>t. now \in Nat /\ moves \in Nat /\ Circuit!Today \in Circuit!Days /\ breaker \in Circuit!Breaker
  BY DaysOfTime DEF RestOK, Sound
<1>f. ASSUME Circuit!Fault PROVE faults' \in 0 .. MaxFaults
  BY <1>f, FaultBoundAssumption, CircuitBreakerAssumption DEF Circuit!Fault, RestOK,
       CircuitBreakerAssumption
<1>1. CASE Circuit!StartEngine
  BY <1>1 DEF Circuit!StartEngine, Circuit!Restored, RestOK, Circuit!history, Sound
<1>2. CASE Circuit!NewDay
  <2> DEFINE b == IF stored.day # Circuit!Today THEN Circuit!DailyReset(breaker) ELSE breaker
  <2>1. Sound(b) BY DailyResetSound
  <2>2. Sound(breaker') BY <1>2, <2>1 DEF Circuit!NewDay
  <2>3. CASE stored' = (IF stored.day = Circuit!None THEN stored ELSE [state |-> b, day |-> Circuit!Today])
             /\ day' = Circuit!Today /\ phase' = "start" /\ UNCHANGED faults
    <3>1. Sound(stored'.state) /\ stored' \in [state : Circuit!Breaker, day : Circuit!Days \cup {Circuit!None}]
      BY <1>t, <2>1, <2>3 DEF RestOK, Sound
    <3> QED BY <1>2, <1>t, <2>2, <2>3, <3>1 DEF Circuit!NewDay, RestOK, Circuit!history
  <2>4. CASE Circuit!Fault /\ UNCHANGED <<stored, day, phase>>
    BY <1>2, <1>f, <2>2, <2>4 DEF Circuit!NewDay, RestOK, Circuit!history
  <2> QED BY <1>2, <2>3, <2>4 DEF Circuit!NewDay
<1>3. CASE Circuit!SameDay
  BY <1>3 DEF Circuit!SameDay, RestOK, Circuit!history
<1>4. ASSUME NEW e \in Equities, Circuit!Baseline(e) PROVE BreakerInv'
  <2>1. CASE equity' = e /\ phase' = "check" /\ UNCHANGED faults
             /\ baseline' = IF baseline[Circuit!Today] = Circuit!None THEN [baseline EXCEPT ![Circuit!Today] = e]
                             ELSE baseline
    BY <1>4, <1>t, <2>1 DEF Circuit!Baseline, RestOK, Circuit!history
  <2>2. CASE Circuit!Fault /\ phase' = "idle" /\ UNCHANGED <<baseline, equity>>
    BY <1>4, <1>f, <2>2 DEF Circuit!Baseline, RestOK, Circuit!history
  <2> QED BY <1>4, <2>1, <2>2 DEF Circuit!Baseline
<1>5. ASSUME NEW healthy \in BOOLEAN, Circuit!Check(healthy) PROVE BreakerInv'
  <2>1. equity \in Equities BY <1>5 DEF Circuit!Check, RestOK
  <2>2. Sound(breaker') BY <1>5, <1>t, <2>1, CheckedSound DEF Circuit!Check
  <2>3. breaker'.sequence \in Nat /\ breaker.sequence \in Nat
    BY <1>t, <2>2, FieldsInBreaker DEF Sound
  <2>4. moves' \in 0 .. MaxMoves
    BY <1>5, <1>t, <2>3, CircuitBreakerAssumption DEF Circuit!Check, RestOK, CircuitBreakerAssumption
  <2> QED BY <1>5, <2>2, <2>4 DEF Circuit!Check, RestOK
<1>6. CASE Circuit!Save
  <2>1. CASE Circuit!Fault /\ phase' = "idle" /\ UNCHANGED <<stored, halts>>
    BY <1>6, <1>f, <2>1 DEF Circuit!Save, RestOK
  <2>2. CASE stored' = [state |-> breaker, day |-> Circuit!Today] /\ phase' = "act" /\ UNCHANGED faults
             /\ halts' = [halts EXCEPT !.until =
                            IF breaker.action = "block_new" /\ stored.state.action # "block_new"
                              THEN breaker.since + Cooldown ELSE @]
    <3>1. breaker.since + Cooldown \in Nat
      BY <1>t, FieldsInBreaker, CircuitBreakerAssumption DEF CircuitBreakerAssumption
    <3>2. halts' \in [daily : SUBSET Circuit!Days, final : BOOLEAN, until : Nat]
      BY <2>2, <3>1 DEF RestOK
    <3> QED BY <1>6, <1>t, <2>2, <3>2 DEF Circuit!Save, RestOK
  <2> QED BY <1>6, <2>1, <2>2 DEF Circuit!Save
<1>7. CASE Circuit!Act
  <2>1. halts' \in [daily : SUBSET Circuit!Days, final : BOOLEAN, until : Nat]
    <3> DEFINE final == halts.final \/ breaker.action \in Circuit!Terminal
               daily == IF breaker.daily THEN halts.daily \cup {Circuit!Today} ELSE halts.daily
    <3>1. final \in BOOLEAN /\ daily \in SUBSET Circuit!Days
      BY <1>t DEF RestOK
    <3>2. halts' = [halts EXCEPT !.daily = daily, !.final = final]
      BY <1>7 DEF Circuit!Act
    <3> HIDE DEF final, daily
    <3> QED BY <3>1, <3>2 DEF RestOK
  <2> QED BY <1>7, <2>1 DEF Circuit!Act, RestOK
<1>8. ASSUME NEW e \in Equities, NEW rebase \in BOOLEAN, Circuit!Resume(e, rebase) PROVE BreakerInv'
  <2>1. Sound(breaker') BY <1>8, <1>t, ResumedSound DEF Circuit!Resume
  <2>2. resumes' \in 0 .. MaxResumes
    BY <1>8, CircuitBreakerAssumption DEF Circuit!Resume, RestOK, CircuitBreakerAssumption
  <2> QED BY <1>8, <2>1, <2>2 DEF Circuit!Resume, RestOK, Circuit!NoHalts
<1>9. CASE Circuit!TimePasses
  BY <1>9, CircuitBreakerAssumption DEF Circuit!TimePasses, RestOK, Circuit!history,
       CircuitBreakerAssumption
<1>10. CASE Circuit!ClockBack
  BY <1>10, <1>f, CircuitBreakerAssumption DEF Circuit!ClockBack, RestOK, Circuit!history,
       CircuitBreakerAssumption
<1>11. CASE Circuit!Crash
  BY <1>11, <1>f, FreshSound DEF Circuit!Crash, RestOK, Circuit!history
<1>12. CASE UNCHANGED Circuit!vars
  BY <1>12 DEF Circuit!vars, RestOK
<1> QED BY <1>1, <1>2, <1>3, <1>4, <1>5, <1>6, <1>7, <1>8, <1>9, <1>10, <1>11, <1>12 DEF Circuit!Next

LEMMA BreakerAlways == Circuit!Spec => []BreakerInv
  BY BreakerStart, BreakerStep, PTL DEF Circuit!Spec

(* Every state has its type; in particular a checkpoint that is on disk is  *)
(* one that restore_breaker_checkpoint accepts (circuit_breaker.py:402-430),*)
(* so no halt can keep the engine from starting again.                      *)
THEOREM BreakerTyped == Circuit!Spec => []Circuit!TypeOK
<1>1. BreakerInv => Circuit!TypeOK
  BY DEF BreakerInv, RestOK, Sound, Circuit!TypeOK
<1> QED BY <1>1, BreakerAlways, PTL

(* After any sequence of losses, recoveries, resumptions, new days, failed  *)
(* writes and restarts, the summary circuit_breaker_triggered blocks new    *)
(* risk exactly when the decision of check_circuit_breaker does.            *)
THEOREM SummaryNeverDisagrees == Circuit!Spec => []SummaryAgrees
<1>1. BreakerInv => SummaryAgrees
  <2> SUFFICES ASSUME BreakerInv PROVE SummaryAgrees OBVIOUS
  <2>1. /\ Circuit!Rank = Rank
         /\ Rank[breaker.action] \in Int /\ Rank["block_new"] = 2
    BY FieldsInBreaker DEF BreakerInv, Sound, Rank, Circuit!Rank, Circuit!Action
  <2> QED BY <2>1 DEF BreakerInv, Sound, Agrees, SummaryAgrees, BlocksNewRisk, AllowsEntries
<1> QED BY <1>1, BreakerAlways, PTL

-----------------------------------------------------------------------------
(* One change per id.  The pair of epoch and sequence only grows, and as    *)
(* long as it stays the action and its id stay.                             *)

Same(b, c) == c.action = b.action /\ c.id = b.id /\ c.move = b.move
Follows(b, c) ==
    /\ c.epoch = b.epoch
    /\ c.sequence > b.sequence \/ (c.sequence = b.sequence /\ Same(b, c))

LEMMA FollowsTransitive ==
  ASSUME NEW b \in Circuit!Breaker, NEW c \in Circuit!Breaker, NEW d \in Circuit!Breaker, Follows(b, c), Follows(c, d)
  PROVE  Follows(b, d)
<1>1. b.sequence \in Nat /\ c.sequence \in Nat /\ d.sequence \in Nat
  BY FieldsInBreaker
<1> QED BY <1>1 DEF Follows, Same

LEMMA FollowsItself == ASSUME NEW b PROVE Follows(b, b)
  BY DEF Follows, Same

LEMMA RecoveredFollows ==
  ASSUME NEW b \in Circuit!Breaker, NEW m PROVE Follows(b, Circuit!Recovered(b, m))
<1>1. b.sequence \in Nat BY FieldsInBreaker
<1>2. /\ Circuit!Recovered(b, m).sequence = b.sequence + 1
      /\ Circuit!Recovered(b, m).epoch = b.epoch
  BY DEF Circuit!Recovered, Circuit!Breaker
<1> QED BY <1>1, <1>2 DEF Follows

LEMMA CooledFollows ==
  ASSUME NEW b, Sound(b), NEW e \in Equities, NEW healthy \in BOOLEAN,
         now \in Nat, moves \in Nat
  PROVE  Follows(b, Circuit!Cooled(b, e, healthy))
<1> DEFINE waiting == IF b.action = "block_new" /\ b.until = Circuit!None
                        THEN [b EXCEPT !.until = now + Cooldown] ELSE b
           cleared == [waiting EXCEPT !.probation = e, !.until = Circuit!None]
<1>1. now + Cooldown \in Nat /\ b \in Circuit!Breaker
  BY CircuitBreakerAssumption DEF CircuitBreakerAssumption, Sound
<1>2. waiting \in Circuit!Breaker /\ Follows(b, waiting)
  BY <1>1 DEF Circuit!Breaker, Follows, Same, Circuit!None
<1>3. cleared \in Circuit!Breaker /\ Follows(waiting, cleared)
  BY <1>2 DEF Circuit!Breaker, Follows, Same, Circuit!None
<1>4. Circuit!Recovered(cleared, moves + 1) \in Circuit!Breaker /\ Follows(cleared, Circuit!Recovered(cleared, moves + 1))
  BY <1>3, RecoveredFollows, RecoveredSound DEF Sound
<1>5. Follows(b, Circuit!Recovered(cleared, moves + 1))
  <2> HIDE DEF cleared, waiting
  <2>1. Follows(b, cleared) BY <1>1, <1>2, <1>3, FollowsTransitive
  <2> QED BY <1>1, <1>3, <1>4, <2>1, FollowsTransitive
<1> QED BY <1>2, <1>5 DEF Circuit!Cooled

LEMMA OnProbationFollows ==
  ASSUME NEW b, Sound(b), NEW e \in Equities, moves \in Nat
  PROVE  Follows(b, Circuit!OnProbation(b, e))
<1> DEFINE cleared == [b EXCEPT !.probation = Circuit!None]
<1>1. b \in Circuit!Breaker /\ cleared \in Circuit!Breaker /\ Follows(b, cleared)
  BY DEF Sound, Circuit!Breaker, Follows, Same, Circuit!None
<1>2. Circuit!Recovered(cleared, moves + 2) \in Circuit!Breaker /\ Follows(cleared, Circuit!Recovered(cleared, moves + 2))
  BY <1>1, RecoveredFollows, RecoveredSound DEF Sound
<1>3. Follows(b, Circuit!Recovered(cleared, moves + 2))
  <2> HIDE DEF cleared
  <2> QED BY <1>1, <1>2, FollowsTransitive
<1> QED BY <1>1, <1>3, FollowsItself DEF Circuit!OnProbation

LEMMA EscalatedFollows ==
  ASSUME NEW b \in Circuit!Breaker, NEW target PROVE Follows(b, Circuit!Escalated(b, target))
<1> DEFINE c == Circuit!Escalated(b, target)
<1>1. b.sequence \in Nat BY FieldsInBreaker
<1>2. CASE Circuit!Rank[target] <= Circuit!Rank[b.action]
  BY <1>2, FollowsItself DEF Circuit!Escalated
<1>3. CASE ~(Circuit!Rank[target] <= Circuit!Rank[b.action])
  <2>1. c.sequence = b.sequence + 1 /\ c.epoch = b.epoch
    BY <1>3 DEF Circuit!Escalated, Circuit!Breaker
  <2> QED BY <1>1, <2>1 DEF Follows
<1> QED BY <1>2, <1>3

LEMMA CheckedFollows ==
  ASSUME NEW e \in Equities, NEW healthy \in BOOLEAN,
         Sound(breaker), now \in Nat, moves \in Nat
  PROVE  Follows(breaker, Circuit!Checked(e, healthy))
<1> DEFINE b == Circuit!Marked(breaker, e)
           target == Circuit!Target(b.high, e)
           eased == Recovery /\ b.action \notin Circuit!Terminal /\ target \notin Circuit!Terminal
           cooled == IF eased THEN Circuit!Cooled(b, e, healthy) ELSE b
           tried == IF eased THEN Circuit!OnProbation(cooled, e) ELSE b
           aim == IF eased THEN Circuit!ProbationTarget(cooled, e, target) ELSE target
           escalated == Circuit!Escalated(tried, aim)
<1>1. Sound(b) /\ Follows(breaker, b)
  BY MarkedSound DEF Circuit!Marked, Sound, Circuit!Breaker, Follows, Same
<1>2. Sound(cooled) /\ Follows(b, cooled)
  BY <1>1, CooledSound, CooledFollows, FollowsItself
<1>3. Sound(tried) /\ Follows(cooled, tried)
  <2>1. CASE eased BY <1>2, <2>1, OnProbationSound, OnProbationFollows
  <2>2. CASE ~eased BY <1>1, <2>2, FollowsItself
  <2> QED BY <2>1, <2>2
<1>4. aim \in Circuit!Action
  BY TargetIsAction DEF Circuit!ProbationTarget, Circuit!Action
<1>5. Sound(escalated) /\ Follows(tried, escalated)
  BY <1>3, <1>4, EscalatedSound, EscalatedFollows DEF Sound
<1>6. Sound(Circuit!DailyChecked(escalated, e)) /\ Follows(escalated, Circuit!DailyChecked(escalated, e))
  <2> HIDE DEF escalated
  <2>1. Sound(Circuit!DailyChecked(escalated, e)) BY <1>5, DailyCheckedSound
  <2>2. Follows(escalated, Circuit!DailyChecked(escalated, e))
    BY <1>5 DEF Circuit!DailyChecked, Sound, Circuit!Breaker, Follows, Same
  <2> QED BY <2>1, <2>2
<1>7. Follows(breaker, Circuit!DailyChecked(escalated, e))
  <2>1. Follows(breaker, cooled)
    BY <1>1, <1>2, FollowsTransitive DEF Sound
  <2>2. Follows(breaker, tried)
    BY <1>2, <1>3, <2>1, FollowsTransitive DEF Sound
  <2>3. Follows(breaker, escalated)
    BY <1>3, <1>5, <2>2, FollowsTransitive DEF Sound
  <2> QED BY <1>5, <1>6, <2>3, FollowsTransitive DEF Sound
<1> QED BY <1>7 DEF Circuit!Checked

(* What is on disk is never ahead of what is in memory, and what was acted  *)
(* upon is never ahead of what is on disk: that is the order of the check,  *)
(* the checkpoint and the plan in a tick.                                   *)
Later(b, c) == b.epoch < c.epoch \/ Follows(b, c)

Remaining(action) == IF action \in Circuit!Terminal THEN "none" ELSE "part"
Kinds == {"none", "transition", "recovery"}
DailyPlan(p) == p.id[1] = "daily" /\ p.remaining = "none" /\ p.move = 0
PlanBefore(p, b) ==
    /\ p.id[1] \in Kinds /\ p.id[2] \in Nat /\ p.id[3] \in Nat
    /\ \/ p.id[2] < b.epoch
       \/ p.id[2] = b.epoch /\ p.id[3] < b.sequence
       \/ /\ p.id[2] = b.epoch /\ p.id[3] = b.sequence /\ p.id[1] = b.id
          /\ p.move = b.move /\ p.remaining = Remaining(b.action)
Earlier(p, b) ==
    /\ p = [id |-> p.id, remaining |-> p.remaining, move |-> p.move]
    /\ DailyPlan(p) \/ PlanBefore(p, b)

IdInv ==
    /\ \A p \in acted : Earlier(p, stored.state)
    /\ phase # "down" => Later(stored.state, breaker)
    /\ phase = "act" => stored.state = breaker
    /\ Circuit!OneChangePerId

LEMMA EarlierKept ==
  ASSUME NEW p, NEW b \in Circuit!Breaker, NEW c \in Circuit!Breaker, Earlier(p, b), Later(b, c)
  PROVE  Earlier(p, c)
<1>1. b.epoch \in Nat /\ c.epoch \in Nat /\ b.sequence \in Nat /\ c.sequence \in Nat
  BY FieldsInBreaker
<1>2. CASE DailyPlan(p)
  BY <1>2 DEF Earlier
<1>3. CASE PlanBefore(p, b)
  <2>1. PlanBefore(p, c)
    BY <1>1, <1>3 DEF PlanBefore, Later, Follows, Same
  <2> QED BY <2>1 DEF Earlier
<1> QED BY <1>2, <1>3 DEF Earlier

LEMMA LaterFollows ==
  ASSUME NEW b \in Circuit!Breaker, NEW c \in Circuit!Breaker, NEW d \in Circuit!Breaker, Later(b, c), Follows(c, d)
  PROVE  Later(b, d)
<1>1. CASE b.epoch < c.epoch BY <1>1 DEF Later, Follows
<1>2. CASE Follows(b, c) BY <1>2, FollowsTransitive DEF Later
<1> QED BY <1>1, <1>2 DEF Later

LEMMA DailyResetFollows ==
  ASSUME NEW b \in Circuit!Breaker PROVE Follows(b, Circuit!DailyReset(b))
<1> DEFINE triggered == Circuit!Rank[b.action] >= Circuit!Rank["block_new"]
<1>1. Circuit!DailyReset(b) = [b EXCEPT !.daily = FALSE, !.triggered = triggered]
  BY DEF Circuit!DailyReset
<1> HIDE DEF triggered
<1> QED BY <1>1 DEF Follows, Same, Circuit!Breaker

(* A plan made from what is stored agrees with every plan of the same id.   *)
LEMMA PlanIsOne ==
  ASSUME BreakerInv, IdInv, phase = "act", NEW p \in Circuit!PlanOf(breaker)
  PROVE  Earlier(p, stored.state) /\ \A q \in acted : p.id = q.id => p = q
<1>1. breaker \in Circuit!Breaker /\ stored.state = breaker
  BY DEF BreakerInv, Sound, IdInv
<1>2. breaker.epoch \in Nat /\ breaker.sequence \in Nat /\ breaker.id \in Kinds
  BY <1>1, FieldsInBreaker DEF Circuit!Breaker, Kinds
<1>3. CASE breaker.daily
  <2>1. p = [id |-> <<"daily", Circuit!Today, 0>>, remaining |-> "none", move |-> 0]
    BY <1>3 DEF Circuit!PlanOf
  <2>2. ASSUME NEW q \in acted, p.id = q.id PROVE p = q
    <3>1. q.id[1] = "daily" BY <2>1, <2>2
    <3>2. DailyPlan(q) /\ q = [id |-> q.id, remaining |-> q.remaining, move |-> q.move]
      BY <3>1 DEF IdInv, Earlier, PlanBefore, Kinds
    <3> QED BY <2>1, <2>2, <3>2 DEF DailyPlan
  <2> QED BY <2>1, <2>2 DEF Earlier, DailyPlan
<1>4. CASE ~breaker.daily
  <2>1. p = [id |-> <<breaker.id, breaker.epoch, breaker.sequence>>,
             remaining |-> Remaining(breaker.action), move |-> breaker.move]
    BY <1>4 DEF Circuit!PlanOf, Remaining, Circuit!Terminal
  <2>2. Earlier(p, breaker)
    BY <1>2, <2>1 DEF Earlier, PlanBefore
  <2>3. ASSUME NEW q \in acted, p.id = q.id PROVE p = q
    <3>1. /\ q.id[1] = breaker.id /\ q.id[2] = breaker.epoch /\ q.id[3] = breaker.sequence
      BY <2>1, <2>3
    <3>2. PlanBefore(q, breaker) /\ q = [id |-> q.id, remaining |-> q.remaining, move |-> q.move]
      BY <1>1, <1>2, <3>1 DEF IdInv, Earlier, DailyPlan, Kinds
    <3>3. q.move = breaker.move /\ q.remaining = Remaining(breaker.action)
      BY <1>2, <3>1, <3>2 DEF PlanBefore
    <3> QED BY <2>1, <2>3, <3>2, <3>3
  <2> QED BY <1>1, <2>2, <2>3
<1> QED BY <1>3, <1>4

LEMMA IdStart == Circuit!Init => IdInv
  BY DEF Circuit!Init, IdInv, Circuit!OneChangePerId

LEMMA IdStep == BreakerInv /\ IdInv /\ [Circuit!Next]_Circuit!vars => IdInv'
<1> SUFFICES ASSUME BreakerInv, IdInv, [Circuit!Next]_Circuit!vars PROVE IdInv' OBVIOUS
<1>t. /\ breaker \in Circuit!Breaker /\ stored.state \in Circuit!Breaker /\ Sound(breaker)
      /\ now \in Nat /\ moves \in Nat
  BY DEF BreakerInv, Sound, RestOK
<1>u. BreakerInv'
  BY BreakerStep
<1>v. breaker' \in Circuit!Breaker /\ stored.state' \in Circuit!Breaker
  BY <1>u DEF BreakerInv, Sound
<1>1. CASE Circuit!StartEngine
  BY <1>1, FollowsItself DEF Circuit!StartEngine, Circuit!Restored, IdInv, Later,
       Circuit!OneChangePerId, Circuit!history
<1>2. CASE Circuit!NewDay
  <2> DEFINE b == IF stored.day # Circuit!Today THEN Circuit!DailyReset(breaker) ELSE breaker
  <2>1. b \in Circuit!Breaker /\ Follows(breaker, b)
    BY <1>t, <1>v, <1>2, DailyResetFollows, FollowsItself DEF Circuit!NewDay
  <2>2. Later(stored.state, b)
    BY <1>2, <1>t, <2>1, LaterFollows DEF IdInv, Circuit!NewDay
  <2>3. breaker' = b /\ acted' = acted /\ phase' \in {"idle", "start"}
    BY <1>2 DEF Circuit!NewDay, Circuit!history
  <2>4. CASE stored' = stored
    BY <2>2, <2>3, <2>4 DEF IdInv, Circuit!OneChangePerId
  <2>5. CASE stored' = [state |-> b, day |-> Circuit!Today]
    <3>1. stored'.state = b BY <2>5
    <3>2. \A p \in acted : Earlier(p, b)
      BY <1>t, <2>1, <2>2, EarlierKept DEF IdInv
    <3>3. Later(b, b) BY FollowsItself DEF Later
    <3> QED BY <2>3, <3>1, <3>2, <3>3 DEF IdInv, Circuit!OneChangePerId
  <2> QED BY <1>2, <2>4, <2>5 DEF Circuit!NewDay
<1>3. CASE Circuit!SameDay
  BY <1>3 DEF Circuit!SameDay, IdInv, Circuit!OneChangePerId, Circuit!history
<1>4. ASSUME NEW e \in Equities, Circuit!Baseline(e) PROVE IdInv'
  BY <1>4 DEF Circuit!Baseline, IdInv, Circuit!OneChangePerId, Circuit!history
<1>5. ASSUME NEW healthy \in BOOLEAN, Circuit!Check(healthy) PROVE IdInv'
  <2>1. equity \in Equities BY <1>5 DEF Circuit!Check, BreakerInv, RestOK
  <2>2. Follows(breaker, breaker') BY <1>5, <1>t, <2>1, CheckedFollows DEF Circuit!Check
  <2>3. Later(stored.state, breaker')
    BY <1>5, <1>t, <1>v, <2>2, LaterFollows DEF IdInv, Circuit!Check
  <2> QED BY <1>5, <2>3 DEF Circuit!Check, IdInv, Circuit!OneChangePerId
<1>6. CASE Circuit!Save
  <2>1. CASE stored' = stored /\ phase' = "idle"
    BY <1>6, <2>1 DEF Circuit!Save, IdInv, Circuit!OneChangePerId
  <2>2. CASE stored' = [state |-> breaker, day |-> Circuit!Today] /\ phase' = "act"
    <3>1. stored'.state = breaker BY <2>2
    <3>2. \A p \in acted : Earlier(p, breaker)
      BY <1>t, <1>6, EarlierKept DEF IdInv, Circuit!Save
    <3>3. Later(breaker, breaker) BY FollowsItself DEF Later
    <3> QED BY <1>6, <2>2, <3>1, <3>2, <3>3 DEF Circuit!Save, IdInv, Circuit!OneChangePerId
  <2> QED BY <1>6, <2>1, <2>2 DEF Circuit!Save
<1>7. CASE Circuit!Act
  <2>1. acted' = acted \cup Circuit!PlanOf(breaker) /\ phase = "act"
    BY <1>7 DEF Circuit!Act
  <2>2. \A p \in acted' : Earlier(p, stored.state)
    BY <2>1, PlanIsOne DEF IdInv
  <2>3. \A p, q \in Circuit!PlanOf(breaker) : p = q
    BY DEF Circuit!PlanOf
  <2>4. ASSUME NEW p \in acted', NEW q \in acted', p.id = q.id PROVE p = q
    <3>1. CASE p \in acted /\ q \in acted BY <2>4, <3>1 DEF IdInv, Circuit!OneChangePerId
    <3>2. CASE p \in Circuit!PlanOf(breaker) /\ q \in Circuit!PlanOf(breaker) BY <2>3, <3>2
    <3>3. CASE p \in Circuit!PlanOf(breaker) /\ q \in acted BY <2>1, <2>4, <3>3, PlanIsOne
    <3>4. CASE p \in acted /\ q \in Circuit!PlanOf(breaker) BY <2>1, <2>4, <3>4, PlanIsOne
    <3> QED BY <2>1, <3>1, <3>2, <3>3, <3>4
  <2> QED BY <1>7, <2>2, <2>4 DEF Circuit!Act, IdInv, Circuit!OneChangePerId
<1>8. ASSUME NEW e \in Equities, NEW rebase \in BOOLEAN, Circuit!Resume(e, rebase) PROVE IdInv'
  <2>1. breaker'.epoch = breaker.epoch + 1 /\ breaker.epoch \in Nat /\ stored.state.epoch \in Nat
    BY <1>8, <1>t, FieldsInBreaker DEF Circuit!Resume, Circuit!Resumed, Circuit!Fresh
  <2>2. Later(stored.state, breaker')
    BY <1>8, <2>1 DEF Circuit!Resume, IdInv, Later, Follows
  <2> QED BY <1>8, <2>2 DEF Circuit!Resume, IdInv, Circuit!OneChangePerId
<1>9. CASE Circuit!TimePasses
  BY <1>9 DEF Circuit!TimePasses, IdInv, Circuit!OneChangePerId, Circuit!history
<1>10. CASE Circuit!ClockBack
  BY <1>10 DEF Circuit!ClockBack, IdInv, Circuit!OneChangePerId, Circuit!history
<1>11. CASE Circuit!Crash
  BY <1>11 DEF Circuit!Crash, IdInv, Circuit!OneChangePerId, Circuit!history
<1>12. CASE UNCHANGED Circuit!vars
  BY <1>12 DEF Circuit!vars, IdInv, Circuit!OneChangePerId
<1> QED BY <1>1, <1>2, <1>3, <1>4, <1>5, <1>6, <1>7, <1>8, <1>9, <1>10, <1>11, <1>12 DEF Circuit!Next

(* Whatever is lost in crashes and failed writes, and however often an      *)
(* operator resumes, two changes of the breaker never act under one id; so  *)
(* an action that risk_actions.py finds completed is the one it was asked   *)
(* for (risk_actions.py:135-143).                                           *)
THEOREM IdsNeverReused == Circuit!Spec => []OneChangePerId
<1>1. IdInv => OneChangePerId
  BY DEF IdInv, OneChangePerId, Circuit!OneChangePerId
<1> QED BY <1>1, IdStart, IdStep, BreakerAlways, PTL DEF Circuit!Spec

-----------------------------------------------------------------------------
(* Halts.  What is on disk, and what is in memory while the engine runs, is *)
(* as severe as what was acted upon; a block is dated by its cooldown.      *)

Dated(b) == Recovery /\ b.action = "block_new" => b.until = b.since + Cooldown
Serving(b, end) ==
    \/ b.action \in Circuit!Terminal
    \/ b.action = "block_new" /\ (Recovery => b.until >= end)

HaltInv ==
    /\ Dated(stored.state) /\ Dated(breaker)
    /\ halts.final =>
         stored.state.action \in Circuit!Terminal /\ (phase # "down" => breaker.action \in Circuit!Terminal)
    /\ halts.until > latest =>
         Serving(stored.state, halts.until) /\ (phase # "down" => Serving(breaker, halts.until))

LEMMA EscalatedKeeps ==
  ASSUME NEW b \in Circuit!Breaker, NEW target \in Circuit!Action, now \in Nat
  PROVE  /\ Dated(b) => Dated(Circuit!Escalated(b, target))
         /\ b.action \in Circuit!Terminal => Circuit!Escalated(b, target).action \in Circuit!Terminal
         /\ \A end \in Nat : Serving(b, end) => Serving(Circuit!Escalated(b, target), end)
<1>1. CASE Circuit!Rank[target] <= Circuit!Rank[b.action]
  BY <1>1 DEF Circuit!Escalated
<1>2. CASE ~(Circuit!Rank[target] <= Circuit!Rank[b.action])
  <2> DEFINE c == Circuit!Escalated(b, target)
  <2>1. /\ c.action = target
        /\ target = "block_new" /\ Recovery => c.until = now + Cooldown /\ c.since = now
    BY <1>2 DEF Circuit!Escalated, Circuit!Breaker
  <2>2. b.action \in Circuit!Action
    BY FieldsInBreaker
  <2>3. b.action \in Circuit!Terminal \cup {"block_new"} => target \in Circuit!Terminal
    BY <1>2, <2>2 DEF Circuit!Rank, Circuit!Action, Circuit!Terminal
  <2> HIDE DEF c
  <2>4. Dated(c)
    BY <2>1 DEF Dated
  <2>5. \A end \in Nat : Serving(b, end) => Serving(c, end)
    BY <2>1, <2>3 DEF Serving
  <2>6. b.action \in Circuit!Terminal => c.action \in Circuit!Terminal
    BY <2>1, <2>3
  <2> QED BY <2>4, <2>5, <2>6 DEF c
<1> QED BY <1>1, <1>2

LEMMA CooledDated ==
  ASSUME NEW b, Sound(b), NEW e \in Equities, NEW healthy \in BOOLEAN,
         Dated(b), Recovery
  PROVE  Dated(Circuit!Cooled(b, e, healthy))
<1>1. b \in Circuit!Breaker /\ b.since + Cooldown # Circuit!None
  BY FieldsInBreaker, CircuitBreakerAssumption DEF CircuitBreakerAssumption, Sound, Circuit!None
<1>2. Circuit!Cooled(b, e, healthy) =
        IF Circuit!CooldownOver(b, e, healthy)
          THEN Circuit!Recovered([b EXCEPT !.probation = e, !.until = Circuit!None], moves + 1) ELSE b
  BY <1>1 DEF Circuit!Cooled, Dated
<1>3. Circuit!Recovered([b EXCEPT !.probation = e, !.until = Circuit!None], moves + 1).action = "reduce"
  BY <1>1 DEF Circuit!Recovered, Circuit!Breaker
<1> QED BY <1>2, <1>3 DEF Dated

LEMMA OnProbationDated ==
  ASSUME NEW b, Sound(b), NEW e \in Equities, Dated(b)
  PROVE  Dated(Circuit!OnProbation(b, e))
<1>1. Dated([b EXCEPT !.probation = Circuit!None])
  BY DEF Dated, Sound, Circuit!Breaker
<1>2. Circuit!Recovered([b EXCEPT !.probation = Circuit!None], moves + 2).action = "reduce"
  BY DEF Circuit!Recovered, Sound, Circuit!Breaker
<1> QED BY <1>1, <1>2 DEF Circuit!OnProbation, Dated

(* Before its end a block is left for a more severe halt only.              *)
LEMMA BlockServed ==
  ASSUME NEW b, Sound(b), NEW e \in Equities, NEW healthy \in BOOLEAN,
         NEW end \in Nat, end > now, now \in Nat,
         b.action = "block_new", Serving(b, end), Recovery
  PROVE  Circuit!Cooled(b, e, healthy) = b /\ Circuit!OnProbation(b, e) = b
<1>1. b.until >= end /\ b.until # Circuit!None /\ b.until \in Int
  BY FieldsInBreaker DEF Serving, Circuit!Terminal, Sound, Circuit!None
<1>2. ~Circuit!CooldownOver(b, e, healthy)
  BY <1>1 DEF Circuit!CooldownOver
<1>3. Circuit!Cooled(b, e, healthy) = b
  BY <1>1, <1>2 DEF Circuit!Cooled
<1>4. b.probation = Circuit!None
  BY DEF Sound, Circuit!Restorable
<1> QED BY <1>3, <1>4 DEF Circuit!OnProbation, Circuit!Relapses, Circuit!Recovers

LEMMA CheckedHalts ==
  ASSUME NEW e \in Equities, NEW healthy \in BOOLEAN, Sound(breaker),
         now \in Nat, moves \in Nat, Dated(breaker)
  PROVE  /\ Dated(Circuit!Checked(e, healthy))
         /\ breaker.action \in Circuit!Terminal => Circuit!Checked(e, healthy).action \in Circuit!Terminal
         /\ \A end \in Nat : end > now /\ Serving(breaker, end) => Serving(Circuit!Checked(e, healthy), end)
<1> DEFINE b == Circuit!Marked(breaker, e)
           target == Circuit!Target(b.high, e)
           eased == Recovery /\ b.action \notin Circuit!Terminal /\ target \notin Circuit!Terminal
           cooled == IF eased THEN Circuit!Cooled(b, e, healthy) ELSE b
           tried == IF eased THEN Circuit!OnProbation(cooled, e) ELSE b
           aim == IF eased THEN Circuit!ProbationTarget(cooled, e, target) ELSE target
           escalated == Circuit!Escalated(tried, aim)
           checked == Circuit!DailyChecked(escalated, e)
<1>1. /\ Sound(b) /\ Dated(b) /\ b.action = breaker.action
      /\ \A end \in Nat : Serving(breaker, end) => Serving(b, end)
  BY MarkedSound DEF Circuit!Marked, Sound, Circuit!Breaker, Dated, Serving
<1>2. Sound(cooled) /\ Dated(cooled)
  BY <1>1, CooledSound, CooledDated
<1>3. Sound(tried) /\ Dated(tried)
  <2>1. CASE eased BY <1>2, <2>1, OnProbationSound, OnProbationDated
  <2>2. CASE ~eased BY <1>1, <2>2
  <2> QED BY <2>1, <2>2
<1>4. aim \in Circuit!Action
  BY TargetIsAction DEF Circuit!ProbationTarget, Circuit!Action
<1>5. b.action \in Circuit!Terminal => tried.action \in Circuit!Terminal
  OBVIOUS
<1>6. \A end \in Nat : end > now /\ Serving(b, end) => Serving(tried, end)
  <2> SUFFICES ASSUME NEW end \in Nat, end > now, Serving(b, end) PROVE Serving(tried, end)
    OBVIOUS
  <2>1. CASE ~eased BY <2>1
  <2>2. CASE eased
    <3>1. b.action = "block_new" BY <2>2 DEF Serving
    <3>2. tried = b BY <1>1, <2>2, <3>1, BlockServed
    <3> QED BY <3>2
  <2> QED BY <2>1, <2>2
<1> HIDE DEF tried, aim
<1>7. /\ Dated(escalated) /\ escalated \in Circuit!Breaker
      /\ tried.action \in Circuit!Terminal => escalated.action \in Circuit!Terminal
      /\ \A end \in Nat : Serving(tried, end) => Serving(escalated, end)
  BY <1>3, <1>4, EscalatedKeeps, EscalatedSound DEF Sound
<1> HIDE DEF escalated
<1>8. /\ Dated(checked)
      /\ escalated.action \in Circuit!Terminal => checked.action \in Circuit!Terminal
      /\ \A end \in Nat : Serving(escalated, end) => Serving(checked, end)
  BY <1>7 DEF Circuit!DailyChecked, Circuit!Breaker, Dated, Serving
<1>9. Circuit!Checked(e, healthy) = checked
  BY DEF Circuit!Checked, escalated, tried, aim
<1> HIDE DEF checked
<1> QED BY <1>1, <1>5, <1>6, <1>7, <1>8, <1>9

LEMMA DailyResetHalts ==
  ASSUME NEW b \in Circuit!Breaker
  PROVE  /\ Dated(b) => Dated(Circuit!DailyReset(b))
         /\ Circuit!DailyReset(b).action = b.action
         /\ \A end \in Nat : Serving(b, end) => Serving(Circuit!DailyReset(b), end)
<1> DEFINE triggered == Circuit!Rank[b.action] >= Circuit!Rank["block_new"]
<1>1. Circuit!DailyReset(b) = [b EXCEPT !.daily = FALSE, !.triggered = triggered]
  BY DEF Circuit!DailyReset
<1> HIDE DEF triggered
<1> QED BY <1>1 DEF Dated, Serving, Circuit!Breaker

LEMMA HaltStart == Circuit!Init => HaltInv
  BY DEF Circuit!Init, HaltInv, Circuit!NoHalts, Circuit!NotStored, Circuit!Fresh, Dated

LEMMA HaltStep == BreakerInv /\ IdInv /\ HaltInv /\ [Circuit!Next]_Circuit!vars => HaltInv'
<1> SUFFICES ASSUME BreakerInv, IdInv, HaltInv, [Circuit!Next]_Circuit!vars PROVE HaltInv' OBVIOUS
<1>t. /\ breaker \in Circuit!Breaker /\ stored.state \in Circuit!Breaker /\ Sound(breaker)
      /\ now \in Nat /\ moves \in Nat /\ latest \in Nat /\ now <= latest
      /\ halts \in [daily : SUBSET Circuit!Days, final : BOOLEAN, until : Nat] /\ halts.until \in Nat
  BY DEF BreakerInv, Sound, RestOK
<1> USE DEF HaltInv
<1>1. CASE Circuit!StartEngine
  BY <1>1 DEF Circuit!StartEngine, Circuit!Restored, Circuit!history, Dated, Serving
<1>2. CASE Circuit!NewDay
  <2> DEFINE b == IF stored.day # Circuit!Today THEN Circuit!DailyReset(breaker) ELSE breaker
  <2>1. /\ Dated(b) /\ b.action = breaker.action
        /\ \A end \in Nat : Serving(breaker, end) => Serving(b, end)
    BY <1>t, DailyResetHalts
  <2>2. /\ breaker' = b /\ phase = "idle" /\ UNCHANGED <<halts, latest>>
        /\ stored' = stored \/ stored' = [state |-> b, day |-> Circuit!Today]
    BY <1>2 DEF Circuit!NewDay, Circuit!history
  <2> HIDE DEF b
  <2>3. stored'.state = stored.state \/ stored'.state = b
    BY <2>2
  <2> QED BY <1>t, <2>1, <2>2, <2>3 DEF Dated, Serving
<1>3. CASE Circuit!SameDay
  BY <1>3 DEF Circuit!SameDay, Circuit!history, Dated, Serving
<1>4. ASSUME NEW e \in Equities, Circuit!Baseline(e) PROVE HaltInv'
  BY <1>4 DEF Circuit!Baseline, Circuit!history, Dated, Serving
<1>5. ASSUME NEW healthy \in BOOLEAN, Circuit!Check(healthy) PROVE HaltInv'
  <2>1. equity \in Equities /\ phase = "check" BY <1>5 DEF Circuit!Check, BreakerInv, RestOK
  <2>2. breaker' = Circuit!Checked(equity, healthy) /\ UNCHANGED <<stored, halts, latest>>
    BY <1>5 DEF Circuit!Check
  <2>3. /\ Dated(breaker')
        /\ breaker.action \in Circuit!Terminal => breaker'.action \in Circuit!Terminal
        /\ \A end \in Nat : end > now /\ Serving(breaker, end) => Serving(breaker', end)
    BY <1>t, <2>1, <2>2, CheckedHalts
  <2> QED BY <1>t, <2>1, <2>2, <2>3 DEF Dated, Serving
<1>6. CASE Circuit!Save
  <2>1. CASE UNCHANGED <<stored, halts>>
    BY <1>6, <2>1 DEF Circuit!Save, Dated, Serving
  <2>2. CASE /\ stored' = [state |-> breaker, day |-> Circuit!Today]
             /\ halts' = [halts EXCEPT !.until =
                            IF breaker.action = "block_new" /\ stored.state.action # "block_new"
                              THEN breaker.since + Cooldown ELSE @]
    <3>1. /\ stored'.state = breaker /\ halts'.final = halts.final
          /\ phase = "save" /\ UNCHANGED <<breaker, latest>>
      BY <1>6, <1>t, <2>2 DEF Circuit!Save
    <3>2. \/ halts'.until = halts.until
          \/ breaker.action = "block_new" /\ halts'.until = breaker.since + Cooldown
      BY <1>t, <2>2
    <3>3. breaker.since + Cooldown \in Nat
      BY <1>t, FieldsInBreaker, CircuitBreakerAssumption DEF CircuitBreakerAssumption
    <3>4. halts'.until > latest => Serving(breaker, halts'.until)
      BY <3>1, <3>2, <3>3 DEF Dated, Serving
    <3> QED BY <3>1, <3>4 DEF Dated, Serving
  <2> QED BY <1>6, <2>1, <2>2 DEF Circuit!Save
<1>7. CASE Circuit!Act
  <2>1. /\ stored.state = breaker /\ phase = "act" /\ UNCHANGED <<breaker, stored, latest>>
        /\ halts'.until = halts.until
        /\ halts'.final => halts.final \/ breaker.action \in Circuit!Terminal
    BY <1>7, <1>t DEF Circuit!Act, IdInv
  <2> QED BY <2>1 DEF Dated, Serving
<1>8. ASSUME NEW e \in Equities, NEW rebase \in BOOLEAN, Circuit!Resume(e, rebase) PROVE HaltInv'
  <2>1. breaker'.action = "normal" /\ halts' = Circuit!NoHalts /\ UNCHANGED <<stored, latest>>
    BY <1>8 DEF Circuit!Resume, Circuit!Resumed, Circuit!Fresh
  <2> QED BY <1>t, <2>1 DEF Circuit!NoHalts, Dated
<1>9. CASE Circuit!TimePasses
  <2>1. latest' >= latest /\ latest' \in Nat /\ UNCHANGED <<breaker, stored, phase, halts>>
    BY <1>9, <1>t DEF Circuit!TimePasses, Circuit!history
  <2> QED BY <1>t, <2>1 DEF Dated, Serving
<1>10. CASE Circuit!ClockBack
  BY <1>10 DEF Circuit!ClockBack, Circuit!history, Dated, Serving
<1>11. CASE Circuit!Crash
  BY <1>11 DEF Circuit!Crash, Circuit!history, Circuit!Fresh, Dated, Serving
<1>12. CASE UNCHANGED Circuit!vars
  BY <1>12 DEF Circuit!vars, Dated, Serving
<1> QED BY <1>1, <1>2, <1>3, <1>4, <1>5, <1>6, <1>7, <1>8, <1>9, <1>10, <1>11, <1>12 DEF Circuit!Next

LEMMA HaltInvariant == Circuit!Spec => [](BreakerInv /\ HaltInv)
  BY BreakerAlways, IdStart, IdStep, HaltStart, HaltStep, PTL DEF Circuit!Spec

(* Openings blocked by a drawdown stay blocked for the whole cooldown, over *)
(* restarts, failed writes and clocks set back, whatever the account does   *)
(* (_begin_recovery_cooldown and the checkpoint that is saved before any    *)
(* order may be opened).                                                    *)
THEOREM CooldownsAreServed == Circuit!Spec => []CooldownServed
<1>1. BreakerInv /\ HaltInv => CooldownServed
  <2> SUFFICES ASSUME BreakerInv, HaltInv, MayOpen PROVE latest >= halts.until
    BY DEF CooldownServed
  <2>1. Rank[breaker.action] < Rank["block_new"] /\ phase = "act"
    BY DEF MayOpen, AllowsEntries
  <2>2. ~Serving(breaker, halts.until)
    BY <2>1 DEF Serving, Circuit!Terminal, Rank
  <2>3. ~(halts.until > latest)
    BY <2>1, <2>2 DEF HaltInv
  <2> QED BY <2>3 DEF BreakerInv, RestOK
<1> QED BY <1>1, HaltInvariant, PTL

(* Once the account was told to liquidate, nothing is opened again until an *)
(* operator resumes.                                                        *)
THEOREM LiquidationsAreFinal == Circuit!Spec => []FinalHolds
<1>1. BreakerInv /\ HaltInv => FinalHolds
  <2> SUFFICES ASSUME HaltInv, MayOpen PROVE ~halts.final
    BY DEF FinalHolds
  <2>1. Rank[breaker.action] < Rank["block_new"] /\ phase = "act"
    BY DEF MayOpen, AllowsEntries
  <2>2. breaker.action \notin Circuit!Terminal
    BY <2>1 DEF Circuit!Terminal, Rank
  <2> QED BY <2>1, <2>2 DEF HaltInv
<1> QED BY <1>1, HaltInvariant, PTL

-----------------------------------------------------------------------------
(* The halt of a day.  It is on disk under its day until a later day is,    *)
(* and in memory too - but for the change of the day, which lifts it in     *)
(* memory before the checkpoint is written.  Should that write fail, only   *)
(* the clock keeps the halted day from coming back.                         *)
Lifted == Circuit!Today > stored.day /\ (MaxFaults <= 1 => faults = MaxFaults)
DayInv ==
    /\ phase \in {"start", "check", "save", "act"} => day = Circuit!Today
    /\ phase = "act" => stored.day = Circuit!Today
    /\ day # Circuit!None => stored.day \in {Circuit!None, day}
    /\ \A d \in halts.daily :
          /\ d <= stored.day
          /\ d = stored.day => stored.state.daily /\ (phase # "down" => breaker.daily \/ Lifted)

LEMMA DayStart == Circuit!Init => DayInv
  BY DEF Circuit!Init, DayInv, Circuit!NoHalts, Circuit!None

(* A check may set the daily halt and never takes it back.                  *)
LEMMA CheckedKeepsDaily ==
  ASSUME NEW e \in Equities, NEW healthy \in BOOLEAN, Sound(breaker),
         now \in Nat, moves \in Nat, breaker.daily
  PROVE  Circuit!Checked(e, healthy).daily
<1> DEFINE b == Circuit!Marked(breaker, e)
           target == Circuit!Target(b.high, e)
           eased == Recovery /\ b.action \notin Circuit!Terminal /\ target \notin Circuit!Terminal
           cooled == IF eased THEN Circuit!Cooled(b, e, healthy) ELSE b
           tried == IF eased THEN Circuit!OnProbation(cooled, e) ELSE b
           aim == IF eased THEN Circuit!ProbationTarget(cooled, e, target) ELSE target
           escalated == Circuit!Escalated(tried, aim)
<1>1. Sound(b) /\ b.daily
  BY MarkedSound DEF Circuit!Marked, Sound, Circuit!Breaker
<1>2. Sound(cooled) /\ cooled.daily
  <2>1. Sound(cooled)
    BY <1>1, CooledSound
  <2>2. Circuit!Cooled(b, e, healthy).daily
    <3> DEFINE w == IF b.action = "block_new" /\ b.until = Circuit!None
                      THEN [b EXCEPT !.until = now + Cooldown] ELSE b
    <3>1. w.daily
      BY <1>1 DEF Sound, Circuit!Breaker
    <3>2. ~Circuit!CooldownOver(w, e, healthy)
      BY <3>1 DEF Circuit!CooldownOver
    <3> HIDE DEF w
    <3>3. Circuit!Cooled(b, e, healthy) = w
      BY <3>2 DEF Circuit!Cooled, w
    <3> QED BY <3>1, <3>3
  <2> QED BY <1>1, <2>1, <2>2
<1> HIDE DEF cooled
<1>3. Sound(tried) /\ tried.daily
  <2>1. Sound(Circuit!OnProbation(cooled, e))
    BY <1>2, OnProbationSound
  <2>2. Circuit!OnProbation(cooled, e).daily
    <3>1. \A p : [cooled EXCEPT !.probation = p].daily = cooled.daily
      BY <1>2 DEF Sound, Circuit!Breaker
    <3>2. \A m : Circuit!Recovered([cooled EXCEPT !.probation = Circuit!None], m).daily = cooled.daily
      BY <1>2 DEF Circuit!Recovered, Sound, Circuit!Breaker
    <3> QED BY <1>2, <3>1, <3>2 DEF Circuit!OnProbation
  <2> QED BY <1>1, <2>1, <2>2
<1> HIDE DEF tried, aim
<1>4. escalated.daily
  BY <1>3 DEF Circuit!Escalated, Sound, Circuit!Breaker
<1>5. escalated \in Circuit!Breaker
  <2>1. aim \in Circuit!Action
    BY TargetIsAction DEF aim, Circuit!ProbationTarget, Circuit!Action
  <2> QED BY <1>3, <2>1, EscalatedSound DEF Sound
<1> HIDE DEF escalated
<1>6. Circuit!DailyChecked(escalated, e).daily
  BY <1>4, <1>5 DEF Circuit!DailyChecked, Circuit!Breaker
<1>7. Circuit!Checked(e, healthy) = Circuit!DailyChecked(escalated, e)
  BY DEF Circuit!Checked, escalated, tried, aim, cooled
<1> QED BY <1>6, <1>7

LEMMA DayStep ==
  ASSUME BreakerInv, IdInv, DayInv, [Circuit!Next]_Circuit!vars, MaxFaults <= 1 \/ now' >= now
  PROVE  DayInv'
<1>t. /\ breaker \in Circuit!Breaker /\ stored.state \in Circuit!Breaker /\ Sound(breaker)
      /\ now \in Nat /\ now \in 0 .. MaxTime /\ moves \in Nat /\ latest \in Nat
      /\ faults \in 0 .. MaxFaults /\ MaxFaults \in Nat /\ MaxTime \in Nat
      /\ halts \in [daily : SUBSET Circuit!Days, final : BOOLEAN, until : Nat]
      /\ stored \in [state : Circuit!Breaker, day : Circuit!Days \cup {Circuit!None}]
      /\ day \in Circuit!Days \cup {Circuit!None} /\ DayLength \in Nat \ {0}
  BY FaultBoundAssumption, CircuitBreakerAssumption DEF CircuitBreakerAssumption, BreakerInv,
       Sound, RestOK
<1>d. /\ Circuit!Today \in Nat /\ Circuit!Today # Circuit!None
      /\ stored.day \in Int /\ (stored.day # Circuit!None => stored.day >= 0)
      /\ \A d \in halts.daily : d \in Nat /\ d # Circuit!None
  <2>1. Circuit!Today \in Circuit!Days /\ \A d \in Circuit!Days : d \in Nat /\ d # Circuit!None
    BY <1>t, DaysOfTime DEF Circuit!Days, Circuit!None
  <2>2. halts.daily \subseteq Circuit!Days /\ stored.day \in Circuit!Days \cup {Circuit!None} /\ Circuit!None \in Int
    BY <1>t DEF Circuit!None
  <2> QED BY <2>1, <2>2
<1> USE DEF DayInv
<1>1. CASE Circuit!StartEngine
  BY <1>1 DEF Circuit!StartEngine, Circuit!Restored, Circuit!history, Lifted, Circuit!Today
<1>2. CASE Circuit!NewDay
  <2> DEFINE b == IF stored.day # Circuit!Today THEN Circuit!DailyReset(breaker) ELSE breaker
  <2>1. /\ breaker' = b /\ phase = "idle" /\ UNCHANGED <<halts, now>> /\ stored.day <= Circuit!Today
        /\ \/ /\ stored' = IF stored.day = Circuit!None THEN stored ELSE [state |-> b, day |-> Circuit!Today]
              /\ day' = Circuit!Today /\ phase' = "start" /\ UNCHANGED faults
           \/ faults < MaxFaults /\ faults' = faults + 1 /\ UNCHANGED <<stored, day, phase>>
    BY <1>2 DEF Circuit!NewDay, Circuit!history, Circuit!Fault
  <2>2. UNCHANGED Circuit!Today
    BY <2>1 DEF Circuit!Today
  <2>3. CASE stored.day = Circuit!Today
    <3>1. b = breaker /\ (\A d \in halts.daily : d = stored.day => breaker.daily)
      BY <2>1, <2>3, <1>d DEF Lifted
    <3> HIDE DEF b
    <3>2. CASE UNCHANGED <<stored, day, phase>>
      BY <2>1, <2>2, <2>3, <3>1, <3>2, <1>d
    <3>3. CASE stored' = [state |-> b, day |-> Circuit!Today] /\ day' = Circuit!Today /\ phase' = "start"
      BY <2>1, <2>2, <2>3, <3>1, <3>3, <1>d
    <3> QED BY <2>1, <2>3, <3>2, <3>3, <1>d
  <2>4. CASE stored.day # Circuit!Today
    <3> HIDE DEF b
    <3>1. stored.day < Circuit!Today
      BY <2>1, <2>4, <1>d DEF Circuit!None
    <3>2. CASE faults < MaxFaults /\ faults' = faults + 1 /\ UNCHANGED <<stored, day, phase>>
      <4>1. Lifted'
        BY <3>1, <3>2, <2>2, <1>t DEF Lifted
      <4> QED BY <2>1, <2>2, <3>2, <4>1
    <3>3. CASE /\ stored' = IF stored.day = Circuit!None THEN stored ELSE [state |-> b, day |-> Circuit!Today]
               /\ day' = Circuit!Today /\ phase' = "start"
      <4>1. CASE stored.day = Circuit!None
        <5>1. halts.daily = {}
          BY <4>1, <1>d DEF Circuit!None
        <5> QED BY <2>1, <2>2, <3>3, <4>1, <5>1
      <4>2. CASE stored.day # Circuit!None
        <5>1. \A d \in halts.daily : d < Circuit!Today
          BY <3>1, <1>d DEF Circuit!None
        <5> QED BY <2>1, <2>2, <3>3, <4>2, <5>1, <1>d
      <4> QED BY <4>1, <4>2
    <3> QED BY <2>1, <3>2, <3>3
  <2> QED BY <2>3, <2>4
<1>3. CASE Circuit!SameDay
  BY <1>3 DEF Circuit!SameDay, Circuit!history, Lifted, Circuit!Today
<1>4. ASSUME NEW e \in Equities, Circuit!Baseline(e) PROVE DayInv'
  <2>1. /\ phase = "start" /\ phase' \in {"check", "idle"} /\ UNCHANGED <<now, breaker, stored, day, halts>>
        /\ faults' = faults \/ (faults < MaxFaults /\ faults' = faults + 1)
    BY <1>4 DEF Circuit!Baseline, Circuit!history, Circuit!Fault
  <2>2. Lifted => Lifted'
    BY <2>1, <1>t DEF Lifted, Circuit!Today
  <2> QED BY <2>1, <2>2 DEF Circuit!Today
<1>5. ASSUME NEW healthy \in BOOLEAN, Circuit!Check(healthy) PROVE DayInv'
  <2>1. equity \in Equities /\ phase = "check" BY <1>5 DEF Circuit!Check, BreakerInv, RestOK
  <2>2. /\ breaker' = Circuit!Checked(equity, healthy) /\ phase' = "save"
        /\ UNCHANGED <<now, stored, day, halts, faults>>
    BY <1>5 DEF Circuit!Check
  <2>3. breaker.daily => breaker'.daily
    BY <1>t, <2>1, <2>2, CheckedKeepsDaily
  <2> QED BY <2>1, <2>2, <2>3 DEF Lifted, Circuit!Today
<1>6. CASE Circuit!Save
  <2>1. /\ phase = "save" /\ day = Circuit!Today /\ UNCHANGED <<now, breaker, day>> /\ halts'.daily = halts.daily
    BY <1>6, <1>t DEF Circuit!Save
  <2>2. CASE /\ phase' = "idle" /\ UNCHANGED <<stored, halts>> /\ Circuit!Fault
    <3>1. Lifted => Lifted'
      BY <2>1, <2>2, <1>t DEF Lifted, Circuit!Today, Circuit!Fault
    <3> QED BY <2>1, <2>2, <3>1 DEF Circuit!Today
  <2>3. CASE /\ stored' = [state |-> breaker, day |-> Circuit!Today] /\ phase' = "act"
    <3>1. stored'.day = Circuit!Today /\ stored'.state = breaker /\ UNCHANGED Circuit!Today
      BY <2>1, <2>3 DEF Circuit!Today
    <3>2. ASSUME NEW d \in halts.daily
          PROVE  d <= Circuit!Today /\ (d = Circuit!Today => breaker.daily)
      <4>1. stored.day = Circuit!Today
        BY <2>1, <1>d DEF Circuit!None
      <4> QED BY <4>1, <2>1, <1>d DEF Lifted
    <3> QED BY <2>1, <2>3, <3>1, <3>2
  <2> QED BY <1>6, <2>2, <2>3 DEF Circuit!Save
<1>7. CASE Circuit!Act
  <2>1. /\ stored.state = breaker /\ stored.day = Circuit!Today /\ day = Circuit!Today /\ phase = "act" /\ phase' = "idle"
        /\ UNCHANGED <<breaker, stored, day, now, faults>>
        /\ halts'.daily = IF breaker.daily THEN halts.daily \cup {Circuit!Today} ELSE halts.daily
    BY <1>7, <1>t DEF Circuit!Act, IdInv
  <2> QED BY <2>1, <1>d DEF Lifted, Circuit!Today
<1>8. ASSUME NEW e \in Equities, NEW rebase \in BOOLEAN, Circuit!Resume(e, rebase) PROVE DayInv'
  <2>1. halts'.daily = {} /\ phase = "idle" /\ UNCHANGED <<stored, day, now, phase>>
    BY <1>8 DEF Circuit!Resume, Circuit!NoHalts
  <2> QED BY <2>1
<1>9. CASE Circuit!TimePasses
  <2>1. /\ now' = now + 1 /\ phase \in {"down", "idle"} /\ UNCHANGED <<breaker, stored, day, phase, faults, halts>>
    BY <1>9 DEF Circuit!TimePasses, Circuit!history
  <2>2. Circuit!Today' >= Circuit!Today /\ Circuit!Today' \in Int
    BY <2>1, <1>t DEF Circuit!Today
  <2>3. Lifted => Lifted'
    BY <2>1, <2>2, <1>d DEF Lifted, Circuit!None
  <2> QED BY <2>1, <2>3
<1>10. CASE Circuit!ClockBack
  <2>1. now' = now - 1 /\ phase \in {"down", "idle"} /\ UNCHANGED <<breaker, stored, day, phase, halts>> /\ Circuit!Fault
    BY <1>10 DEF Circuit!ClockBack, Circuit!history
  <2>2. MaxFaults <= 1 /\ faults # MaxFaults
    BY <2>1, <1>t DEF Circuit!Fault
  <2>3. ~Lifted
    BY <2>2 DEF Lifted
  <2> QED BY <2>1, <2>3
<1>11. CASE Circuit!Crash
  BY <1>11 DEF Circuit!Crash, Circuit!history
<1>12. CASE UNCHANGED Circuit!vars
  BY <1>12 DEF Circuit!vars, Lifted, Circuit!Today
<1> QED BY <1>1, <1>2, <1>3, <1>4, <1>5, <1>6, <1>7, <1>8, <1>9, <1>10, <1>11, <1>12 DEF Circuit!Next

LEMMA DayIsHeld == BreakerInv /\ DayInv => DayHolds
<1> SUFFICES ASSUME BreakerInv, DayInv, MayOpen, Circuit!Today \in halts.daily PROVE FALSE
  BY DEF DayHolds, Today, Circuit!Today
<1>1. phase = "act" /\ stored.day = Circuit!Today /\ ~breaker.daily
  BY DEF MayOpen, AllowsEntries, DayInv
<1>2. Lifted
  BY <1>1 DEF DayInv
<1>3. Circuit!Today \in Int
  <2>1. now \in Int /\ DayLength \in Nat \ {0}
    BY CircuitBreakerAssumption DEF CircuitBreakerAssumption, BreakerInv, RestOK
  <2> QED BY <2>1 DEF Circuit!Today
<1> QED BY <1>1, <1>2, <1>3 DEF Lifted

(* A halt that was acted upon outlives restarts, failed writes and clocks   *)
(* set back: the loss of a day its day (_roll_trading_day, engine.py), a    *)
(* liquidation all days.  With one fault, for any thresholds and lengths.   *)
THEOREM HaltsOutliveAFault == MaxFaults <= 1 /\ Circuit!Spec => []HaltsHold
<1> SUFFICES ASSUME MaxFaults <= 1 PROVE Circuit!Spec => []HaltsHold
  OBVIOUS
<1>1. BreakerInv /\ IdInv /\ DayInv /\ [Circuit!Next]_Circuit!vars => DayInv'
  BY DayStep
<1>2. Circuit!Spec => []DayHolds
  BY <1>1, BreakerAlways, IdStart, IdStep, DayStart, DayIsHeld, PTL DEF Circuit!Spec
<1>3. DayHolds /\ FinalHolds => HaltsHold
  BY DEF HaltsHold
<1> QED BY <1>2, <1>3, LiquidationsAreFinal, PTL

(* The clock is not set back (datetime.now in the tick's change of day).    *)
ClockAdvances == [][now' >= now]_Circuit!vars

(* A daily halt lasts its day and a liquidation all days, over any number   *)
(* of crashes and failed writes of the checkpoint, while the clock goes     *)
(* forward.                                                                 *)
THEOREM HaltsOutliveCrashes == Circuit!Spec /\ ClockAdvances => []HaltsHold
<1>1. BreakerInv /\ IdInv /\ DayInv /\ [Circuit!Next]_Circuit!vars /\ [now' >= now]_Circuit!vars => DayInv'
  <2>1. BreakerInv /\ [now' >= now]_Circuit!vars => now' >= now
    BY DEF Circuit!vars, BreakerInv, RestOK
  <2> QED BY <2>1, DayStep
<1>2. Circuit!Spec /\ ClockAdvances => []DayHolds
  BY <1>1, BreakerAlways, IdStart, IdStep, DayStart, DayIsHeld, PTL DEF Circuit!Spec, ClockAdvances
<1>3. DayHolds /\ FinalHolds => HaltsHold
  BY DEF HaltsHold
<1> QED BY <1>2, <1>3, LiquidationsAreFinal, PTL
=============================================================================
