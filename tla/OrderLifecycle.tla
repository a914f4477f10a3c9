--------------------------- MODULE OrderLifecycle ---------------------------
(***************************************************************************)
(* The order vocabulary shared by every venue of the system: statuses, the *)
(* table of legal transitions and the reading of a venue payload.          *)
(* Source: core/trading/orders.py, core/foundation/domain.py and           *)
(* core/exchange/parsers.py.                                               *)
(***************************************************************************)
EXTENDS Naturals

Status == {"created", "submitting", "accepted", "partial", "filled",
           "cancel_pending", "canceled", "rejected", "no_position",
           "expired", "expired_unsubmitted", "unknown"}

TERMINAL_STATUSES ==
    {"filled", "canceled", "rejected", "no_position", "expired",
     "expired_unsubmitted"}

Allowed ==
    [created |-> {"submitting", "rejected", "no_position", "expired"},
     submitting |-> {"accepted", "partial", "filled", "canceled", "rejected",
                     "no_position", "expired", "expired_unsubmitted",
                     "unknown"},
     unknown |-> {"accepted", "partial", "filled", "canceled", "rejected",
                  "expired", "expired_unsubmitted"},
     accepted |-> {"partial", "filled", "cancel_pending", "canceled",
                   "rejected", "expired", "unknown"},
     partial |-> {"partial", "filled", "cancel_pending", "canceled",
                  "expired", "unknown"},
     cancel_pending |-> {"canceled", "accepted", "partial", "filled",
                         "expired", "unknown"},
     canceled |-> {"partial", "filled"},
     expired |-> {"partial", "filled"},
     expired_unsubmitted |-> {"partial", "filled"},
     filled |-> {}, rejected |-> {}, no_position |-> {}]

(* validate_transition raises ValueError exactly when this is FALSE. *)
ValidTransition(source, target) == source = target \/ target \in Allowed[source]

(* What a venue reports of an order.  "none" is a payload whose status is   *)
(* missing or not one the parser knows.                                     *)
RawStatus == {"open", "closed", "canceled", "expired", "rejected", "none"}

(* OrderParser.parse: the canonical status of a payload that reports        *)
(* `filled` out of `amount`, amount > 0.  A full fill wins over any status, *)
(* a terminal status wins over a partial fill.                              *)
ParsedStatus(raw, filled, amount) ==
    IF raw = "closed" \/ filled >= amount THEN "filled"
    ELSE IF raw \in {"expired", "canceled", "rejected"} THEN raw
    ELSE IF filled > 0 THEN "partial"
    ELSE IF raw = "open" THEN "accepted"
    ELSE "unknown"
=============================================================================
