---------------------------- MODULE OrderPromise ----------------------------
(***************************************************************************)
(* What the live order path promises of each client order id, without      *)
(* saying how: an intent goes out once or is withdrawn and never goes out, *)
(* what is known to have been executed only grows, and an order once       *)
(* settled is open again only when more of it turns out to be executed.    *)
(***************************************************************************)
EXTENDS Naturals

CONSTANTS Orders, Qty

VARIABLES
    phase,     \* "absent", "intent", "withdrawn", "attempted" or "settled"
    asked,     \* requests made to the venue
    executed   \* executed quantity the system knows of

promised == <<phase, asked, executed>>

Init ==
    /\ phase = [o \in Orders |-> "absent"]
    /\ asked = [o \in Orders |-> 0]
    /\ executed = [o \in Orders |-> 0]

Move(o, from, to) ==
    /\ phase[o] = from
    /\ phase' = [phase EXCEPT ![o] = to]
    /\ UNCHANGED <<asked, executed>>

Intend(o) == Move(o, "absent", "intent")
Withdraw(o) == Move(o, "intent", "withdrawn")
Attempt(o) == Move(o, "intent", "attempted")
Settle(o) == Move(o, "attempted", "settled")

Ask(o) ==
    /\ phase[o] = "attempted" /\ asked[o] = 0
    /\ asked' = [asked EXCEPT ![o] = 1]
    /\ UNCHANGED <<phase, executed>>

(* More is known to be executed: whether the order still works is open.     *)
Learn(o) ==
    /\ phase[o] \in {"attempted", "settled"}
    /\ \E n \in executed[o] + 1 .. Qty : executed' = [executed EXCEPT ![o] = n]
    /\ \E p \in {"attempted", "settled"} : phase' = [phase EXCEPT ![o] = p]
    /\ UNCHANGED asked

Next == \E o \in Orders : Intend(o) \/ Withdraw(o) \/ Attempt(o) \/ Settle(o)
                          \/ Ask(o) \/ Learn(o)

Spec == Init /\ [][Next]_promised
=============================================================================
