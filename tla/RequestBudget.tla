---------------------------- MODULE RequestBudget ----------------------------
(***************************************************************************)
(* SharedRequestBudget: processes that share one SQLite row per venue take *)
(* turns to send REST requests, and keep part of every window for requests *)
(* of priority "critical".                                                 *)
(*                                                                         *)
(* The row holds wall-clock times; the model holds how far the clock is    *)
(* past each of them, so that time never ends.  wait() is a loop of        *)
(* BEGIN IMMEDIATE transactions, each one step here, with a sleep between. *)
(***************************************************************************)
EXTENDS Integers

CONSTANTS
    Clients,      \* processes that share the row, each with one kind of request
    Critical,     \* the clients of priority "critical"
    Interval,     \* interval_seconds asked by each client, in time units
    Cost,         \* cost of each client's request
    Window,       \* window_seconds
    ReserveNum, ReserveDen,   \* reserve_fraction
    MinSleep, MaxSleep,       \* sleep between two attempts, 0.001 to 0.05 s
    MinLease, MaxLease,       \* critical_until is 0.02 to 0.25 s ahead
    MaxBack,      \* bound: how far the wall clock is set back altogether
    Horizon       \* a time span beyond which nothing differs

ASSUME ClientsAssumption ==
    /\ Critical \subseteq Clients
    /\ Interval \in [Clients -> Nat \ {0}] /\ Cost \in [Clients -> Nat \ {0}]
ASSUME WindowAssumption ==
    /\ Window \in Nat \ {0}
    /\ ReserveNum \in Nat \ {0} /\ ReserveDen \in Nat /\ ReserveNum < ReserveDen
ASSUME SleepAssumption ==
    /\ MinSleep \in Nat \ {0} /\ MaxSleep \in Nat /\ MinSleep <= MaxSleep
    /\ MinLease \in Nat \ {0} /\ MaxLease \in Nat /\ MinLease <= MaxLease
ASSUME HorizonAssumption ==
    /\ MaxBack \in Nat /\ Horizon \in Nat
    /\ Window + MaxBack <= Horizon
    /\ \A c, d \in Clients : Interval[c] * Cost[d] + MaxBack <= Horizon

VARIABLES
    base,        \* interval of the row, 0 while the venue has none
    sinceStart,  \* clock - window_start
    used,        \* used
    sinceLast,   \* clock - last_start
    lease,       \* critical_until - clock
    mode,        \* "idle" or "waiting", of each client
    sleep,       \* what is left of the client's sleep
    elapsed,     \* real time since a request was last granted
    ordinary,    \* cost granted to other than critical requests in the window
    back         \* how far the clock has been set back

row  == <<base, sinceStart, used, sinceLast, lease>>
vars == <<base, sinceStart, used, sinceLast, lease, mode, sleep, elapsed,
          ordinary, back>>

TypeOK ==
    /\ base \in Nat /\ used \in Nat /\ ordinary \in Nat
    /\ sinceStart \in Int /\ sinceLast \in Int /\ lease \in Int
    /\ mode \in [Clients -> {"idle", "waiting"}]
    /\ sleep \in [Clients -> 0 .. MaxSleep]
    /\ elapsed \in 0 .. Horizon
    /\ back \in 0 .. MaxBack

Init ==
    /\ base = 0 /\ sinceStart = 0 /\ used = 0 /\ sinceLast = 0 /\ lease = 0
    /\ mode = [c \in Clients |-> "idle"]
    /\ sleep = [c \in Clients |-> 0]
    /\ elapsed = Horizon /\ ordinary = 0 /\ back = 0

-----------------------------------------------------------------------------
(* One transaction of wait(), read from the top.                            *)

Larger(m, n) == IF m >= n THEN m ELSE n
Smaller(m, n) == IF m <= n THEN m ELSE n

(* The strictest interval the venue has seen. *)
BaseFor(c) == Larger(base, Interval[c])
Gap(c) == BaseFor(c) * Cost[c]

Allows_IgnoresReserve(c, cost) == cost * BaseFor(c) <= Window
(* cost <= allowance: capacity is window / base, and all of it is open to   *)
(* critical requests only.                                                  *)
Allows(c, cost) ==
    cost * BaseFor(c) * ReserveDen
        <= Window * (IF c \in Critical THEN ReserveDen ELSE ReserveDen - ReserveNum)

(* The window is over, or the clock stands before its start.                *)
NewWindow == base # 0 /\ (sinceStart < 0 \/ sinceStart >= Window)

(* The row the transaction works with: what it read, what a new window      *)
(* makes of it, or the defaults of a venue without a row.                   *)
Start == IF NewWindow \/ base = 0 THEN 0 ELSE sinceStart
Used == IF NewWindow \/ base = 0 THEN 0 ELSE used
Since(c) ==
    IF base = 0 THEN Interval[c] * Cost[c]
    ELSE IF NewWindow THEN Larger(sinceLast, 0) ELSE sinceLast
Leased == IF NewWindow \/ base = 0 THEN 0 ELSE lease
Ordinary == IF NewWindow \/ base = 0 THEN 0 ELSE ordinary

Delay_WindowOnly(c) ==
    LET room == IF Allows(c, Used + Cost[c]) THEN 0 ELSE Window - Start
        turn == IF c \in Critical THEN 0 ELSE Leased
    IN  Larger(0, Larger(room, turn))
Delay(c) ==
    LET space == Gap(c) - Since(c)
        room == IF Allows(c, Used + Cost[c]) THEN 0 ELSE Window - Start
        turn == IF c \in Critical THEN 0 ELSE Leased
    IN  Larger(0, Larger(space, Larger(room, turn)))

Nap(delay) == Smaller(Larger(delay, MinSleep), MaxSleep)
Hold(delay) == Smaller(Larger(delay, MinLease), MaxLease)

-----------------------------------------------------------------------------
(* wait() is called. *)
Ask(c) ==
    /\ mode[c] = "idle"
    /\ mode' = [mode EXCEPT ![c] = "waiting"]
    /\ UNCHANGED <<row, sleep, elapsed, ordinary, back>>

Awake(c) == mode[c] = "waiting" /\ sleep[c] = 0

(* The request alone is dearer than the window allows: ValueError, and the  *)
(* transaction is not committed.                                            *)
Refuse(c) ==
    /\ Awake(c) /\ ~Allows(c, Cost[c])
    /\ mode' = [mode EXCEPT ![c] = "idle"]
    /\ UNCHANGED <<row, sleep, elapsed, ordinary, back>>

Grant(c) ==
    /\ Awake(c) /\ Allows(c, Cost[c]) /\ Delay(c) = 0
    /\ base' = BaseFor(c)
    /\ sinceStart' = Start
    /\ used' = Used + Cost[c]
    /\ sinceLast' = 0
    /\ lease' = IF c \in Critical THEN 0 ELSE Leased
    /\ mode' = [mode EXCEPT ![c] = "idle"]
    /\ elapsed' = 0
    /\ ordinary' = Ordinary + (IF c \in Critical THEN 0 ELSE Cost[c])
    /\ UNCHANGED <<sleep, back>>

(* A critical request that must wait holds the others off for a while.      *)
Wait(c) ==
    /\ Awake(c) /\ Allows(c, Cost[c]) /\ Delay(c) > 0
    /\ base' = BaseFor(c)
    /\ sinceStart' = Start
    /\ used' = Used
    /\ sinceLast' = Since(c)
    /\ lease' = IF c \in Critical THEN Hold(Delay(c)) ELSE Leased
    /\ sleep' = [sleep EXCEPT ![c] = Nap(Delay(c))]
    /\ ordinary' = Ordinary
    /\ UNCHANGED <<mode, elapsed, back>>

(* The database is locked by another process: sleep and try again.          *)
Locked(c) ==
    /\ Awake(c)
    /\ sleep' = [sleep EXCEPT ![c] = MinSleep]
    /\ UNCHANGED <<row, mode, elapsed, ordinary, back>>

(* remaining_seconds: the deadline of the request is over; it also cuts the *)
(* sleep short.                                                             *)
Expire(c) ==
    /\ mode[c] = "waiting"
    /\ mode' = [mode EXCEPT ![c] = "idle"]
    /\ sleep' = [sleep EXCEPT ![c] = 0]
    /\ UNCHANGED <<row, elapsed, ordinary, back>>

Tick ==
    /\ sinceStart' = Smaller(sinceStart + 1, Horizon)
    /\ sinceLast' = Smaller(sinceLast + 1, Horizon)
    /\ lease' = Larger(lease - 1, 0 - MaxBack)
    /\ sleep' = [c \in Clients |-> Larger(sleep[c] - 1, 0)]
    /\ elapsed' = Smaller(elapsed + 1, Horizon)
    /\ UNCHANGED <<base, used, mode, ordinary, back>>

(* The wall clock, time.time, is set back by one unit.                      *)
ClockBack ==
    /\ back < MaxBack
    /\ back' = back + 1
    /\ sinceStart' = sinceStart - 1
    /\ sinceLast' = sinceLast - 1
    /\ lease' = lease + 1
    /\ UNCHANGED <<base, used, mode, sleep, elapsed, ordinary>>

Next ==
    \/ \E c \in Clients : Ask(c) \/ Refuse(c) \/ Grant(c) \/ Wait(c) \/ Locked(c) \/ Expire(c)
    \/ Tick
    \/ ClockBack

Spec == Init /\ [][Next]_vars

(* Time passes, every attempt is made, and the database is not locked       *)
(* whenever the client could go.                                            *)
Fairness ==
    /\ WF_vars(Tick)
    /\ \A c \in Clients : WF_vars(Refuse(c) \/ Grant(c) \/ Wait(c)) /\ SF_vars(Grant(c))

FairSpec == Spec /\ Fairness
-----------------------------------------------------------------------------
(* Properties.                                                              *)

(* A request follows the one before it by its own cost times the venue's    *)
(* interval of real time, whichever processes sent them and although the    *)
(* clock they share may be set back.                                        *)
Spaced ==
    [][\A c \in Clients : Grant(c) => elapsed >= base' * Cost[c]]_vars

(* Market and research requests do not use up the reserve: a critical       *)
(* request no dearer than it has room in every window that critical         *)
(* requests have not used, as long as all clients ask for the same interval.*)
ReserveKept ==
    (base # 0 /\ \A c, d \in Clients : Interval[c] = Interval[d])
        => ordinary * base * ReserveDen <= Window * (ReserveDen - ReserveNum)

(* A critical request is served in the end however many others are made:    *)
(* cheaper requests cannot keep renewing last_start, for in every window    *)
(* they run out before the venue's capacity does.                           *)
CriticalServed ==
    \A c \in Critical : mode[c] = "waiting" ~> mode[c] = "idle"
=============================================================================
