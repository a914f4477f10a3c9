-------------------------- MODULE LiveOrders_proofs --------------------------
(***************************************************************************)
(* Proofs about LiveOrders for every set of orders, every quantity, every  *)
(* limit and every set of environment faults.                              *)
(***************************************************************************)
EXTENDS LiveOrders, FiniteSetTheorems, TLAPS

(* While a call is in progress it works on an order.                        *)
CurOK == pc \notin {"down", "idle", "recover"} => cur \in Orders

TypeInv == TypeOK /\ CurOK

USE DEF Status, PCs, Ops

-----------------------------------------------------------------------------
(* The parser returns a status, and never the one of an intent that has not *)
(* been sent.                                                               *)
LEMMA ParsedStatusType ==
    ASSUME NEW raw \in RawStatus, NEW filled \in Nat, NEW amount \in Nat \ {0}
    PROVE  ParsedStatus(raw, filled, amount) \in Status \ {"submitting"}
  BY DEF ParsedStatus, RawStatus

(* What the actions write into the orders table are rows. *)
LEMMA RowWrites ==
    ASSUME NEW r \in Row
    PROVE  /\ UnknownRow(r) \in Row /\ RejectedRow(r) \in Row /\ CancelPending(r) \in Row
           /\ [r EXCEPT !.attempted = TRUE, !.expired = FALSE] \in Row
           /\ [r EXCEPT !.status = "expired_unsubmitted", !.absent = FALSE,
                        !.expired = FALSE] \in Row
           /\ [r EXCEPT !.status = "unknown", !.absent = TRUE] \in Row
           /\ [r EXCEPT !.expired = TRUE] \in Row
           /\ [r EXCEPT !.absent = FALSE] \in Row
  BY DEF Row, UnknownRow, RejectedRow, CancelPending

LEMMA StoredRowType ==
    ASSUME NEW r \in Row, NEW p \in Payload
    PROVE  [r EXCEPT !.status = ParsedStatus(p.raw, p.filled, Qty),
                     !.exchangeId = TRUE, !.filled = p.filled,
                     !.absent = FALSE, !.expired = FALSE] \in Row
  <1>1. p.raw \in RawStatus /\ p.filled \in 0 .. Qty
    BY DEF Payload
  <1>2. ParsedStatus(p.raw, p.filled, Qty) \in Status
    BY <1>1, QtyAssumption, ParsedStatusType
  <1>3. QED
    BY <1>1, <1>2 DEF Row

LEMMA NoPayloadType == NoPayload \in Payload
  BY QtyAssumption DEF NoPayload, Payload, RawStatus

(* A call that writes a row of the right type and returns keeps the types.  *)
LEMMA TransitionTypes ==
    ASSUME TypeInv, NEW new \in Row, cur \in Orders, TransitionAndReturn(new)
    PROVE  /\ row' \in [Orders -> Row]
           /\ pc' \in PCs /\ op' \in Ops /\ cur' \in Orders \cup {NoOrder}
           /\ pay' \in Payload /\ todo' \subseteq Orders /\ raised' \in BOOLEAN
           /\ CurOK'
  BY NoPayloadType
  DEF TypeInv, TypeOK, CurOK, TransitionAndReturn, Return, Raise, GoIdle

(* resolve_as_unsubmitted keeps the types of the two tables it writes. *)
LEMMA ResolveTypes ==
    ASSUME TypeInv, NEW o \in Orders,
           NEW by \in {"submitting_ttl", "unknown_ttl", "operator"},
           ResolveAsUnsubmitted(o, by)
    PROVE  /\ row' \in [Orders -> Row]
           /\ resolution' \in [Orders -> {"none", "submitting_ttl", "unknown_ttl", "operator"}]
  <1>1. row' \in [Orders -> Row]
    BY RowWrites DEF ResolveAsUnsubmitted, TypeInv, TypeOK
  <1>2. QED
    BY <1>1 DEF ResolveAsUnsubmitted, TypeInv, TypeOK

LEMMA RequestCancelTypes ==
    ASSUME TypeInv, NEW o \in Orders, RequestCancel(o)
    PROVE  row' \in [Orders -> Row]
  BY RowWrites DEF RequestCancel, TypeInv, TypeOK

LEMMA CanceledAtVenueTypes ==
    ASSUME TypeInv, NEW o \in Orders, CanceledAtVenue(o)
    PROVE  venue' \in [Orders -> VenueFact]
  BY DEF CanceledAtVenue, TypeInv, TypeOK, VenueFact, VenueStatus

LEMMA TypeInit == Init => TypeInv
  <1> SUFFICES ASSUME Init PROVE TypeInv
    OBVIOUS
  <1>1. NewRow \in Row
    BY QtyAssumption DEF NewRow, Row
  <1>2. row \in [Orders -> Row]
    BY <1>1 DEF Init
  <1>3. venue \in [Orders -> VenueFact]
    BY QtyAssumption DEF Init, VenueFact, VenueStatus
  <1>4. fills \in [Orders -> [real : 0 .. Qty, synthetic : 0 .. Qty]]
    BY QtyAssumption DEF Init
  <1>5. crashes \in [all : 0 .. MaxCrashes, torn : 0 .. MaxCrashes] /\ crashes.torn <= crashes.all
    BY LimitAssumption DEF Init
  <1>6. QED
    BY <1>2, <1>3, <1>4, <1>5, NoPayloadType DEF Init, TypeInv, TypeOK, CurOK

(* One step per action. *)
LEMMA TypeStep == TypeInv /\ [Next]_vars => TypeInv'
  <1> SUFFICES ASSUME TypeInv, [Next]_vars
               PROVE  TypeInv'
    OBVIOUS
  <1> USE DEF TypeInv, TypeOK, CurOK, durable, outside, process
  <1>1. ASSUME NEW o \in Orders, Reserve(o) PROVE TypeInv'
    <2>1. dailyUsed' \in Nat
      BY <1>1 DEF Reserve
    <2>2. QED
      BY <1>1, <2>1 DEF Reserve
  <1>2. ASSUME NEW o \in Orders, Block(o) PROVE TypeInv'
    BY <1>2 DEF Block
  <1>3. ASSUME NEW o \in Orders, Resume(o) PROVE TypeInv'
    BY <1>3 DEF Resume
  <1>4. ASSUME NEW o \in Orders, Replay(o) PROVE TypeInv'
    BY <1>4 DEF Replay
  <1>5. ASSUME NEW o \in Orders, Cancel(o) PROVE TypeInv'
    <2>1. CASE RequestCancel(o) /\ raised' = FALSE
      BY <1>5, <2>1, RequestCancelTypes DEF Cancel, RequestCancel
    <2>2. CASE UNCHANGED row /\ Raise
      BY <1>5, <2>2, NoPayloadType DEF Cancel, Raise, GoIdle
    <2>3. QED
      BY <1>5, <2>1, <2>2 DEF Cancel
  <1>6. ASSUME NEW o \in Orders, CancelUnknown(o) PROVE TypeInv'
    BY <1>6 DEF CancelUnknown
  <1>7. CASE StartRecovery
    BY <1>7 DEF StartRecovery, list_non_terminal
  <1>8. ASSUME NEW o \in Orders, RecoverExpires(o) PROVE TypeInv'
    <2>1. row' \in [Orders -> Row] /\ resolution' \in [Orders -> {"none", "submitting_ttl", "unknown_ttl", "operator"}]
      BY <1>8, ResolveTypes DEF RecoverExpires
    <2>2. QED
      BY <1>8, <2>1 DEF RecoverExpires
  <1>9. ASSUME NEW o \in Orders, RecoverRaises(o) PROVE TypeInv'
    BY <1>9, NoPayloadType DEF RecoverRaises, Raise, GoIdle
  <1>10. ASSUME NEW o \in Orders, RecoverSkips(o) PROVE TypeInv'
    BY <1>10 DEF RecoverSkips
  <1>11. ASSUME NEW o \in Orders, RecoverReconciles(o) PROVE TypeInv'
    BY <1>11 DEF RecoverReconciles
  <1>12. CASE PrepareFails
    BY <1>12 DEF PrepareFails
  <1>13. CASE RejectLocally
    <2>1. cur \in Orders /\ row[cur] \in Row
      BY <1>13 DEF RejectLocally
    <2>2. RejectedRow(row[cur]) \in Row
      BY <1>13, <2>1, RowWrites
    <2>3. QED
      BY <1>13, <2>1, <2>2, TransitionTypes DEF RejectLocally
  <1>14. CASE CreateIntent
    BY <1>14 DEF CreateIntent
  <1>15. CASE CheckBlocks
    BY <1>15 DEF CheckBlocks
  <1>16. CASE mark_submission_attempted
    <2>1. row' \in [Orders -> Row]
      BY <1>16, RowWrites DEF mark_submission_attempted
    <2>2. QED
      BY <1>16, <2>1 DEF mark_submission_attempted
  <1>17. CASE Send
    BY <1>17 DEF Send
  <1>18. CASE CreateOrderResponse \/ FetchFinds
    <2>1. cur \in Orders /\ cur' = cur /\ pc' = "store" /\ op' = op /\ todo' = todo /\ raised' = raised
             /\ crashes' = crashes /\ UNCHANGED <<durable, outside>>
      BY <1>18 DEF CreateOrderResponse, FetchFinds, Answered
    <2>2. PICK p \in Responses(cur) : pay' = p
      BY <1>18 DEF CreateOrderResponse, FetchFinds, Answered
    <2>3. \A s \in Snapshots(cur) : s.filled \in 0 .. Qty
      BY <1>18, <2>1, QtyAssumption DEF Snapshots, VenueFact
    <2>4. pay' \in Payload
      BY <1>18, <2>2, <2>3, DetailsAssumption DEF Responses, Payload
    <2>5. QED
      BY <1>18, <2>1, <2>2, <2>3, <2>4
  <1>19. CASE CreateOrderAmbiguous
    <2>1. cur \in Orders /\ row[cur] \in Row
      BY <1>19 DEF CreateOrderAmbiguous
    <2>2. UnknownRow(row[cur]) \in Row
      BY <1>19, <2>1, RowWrites
    <2>3. QED
      BY <1>19, <2>1, <2>2, TransitionTypes DEF CreateOrderAmbiguous
  <1>20. CASE CreateOrderRefused
    <2>1. cur \in Orders /\ row[cur] \in Row
      BY <1>20 DEF CreateOrderRefused
    <2>2. RejectedRow(row[cur]) \in Row
      BY <1>20, <2>1, RowWrites
    <2>3. QED
      BY <1>20, <2>1, <2>2, TransitionTypes DEF CreateOrderRefused
  <1>21. CASE FetchFails
    <2>1. cur \in Orders /\ UnknownRow(row[cur]) \in Row
      BY <1>21, RowWrites DEF FetchFails
    <2>2. CASE row[cur].status = "unknown" /\ Return /\ UNCHANGED row
      BY <1>21, <2>2, <2>1, RowWrites, NoPayloadType DEF FetchFails, Return, GoIdle
    <2>3. CASE TransitionAndReturn(UnknownRow(row[cur]))
      BY <1>21, <2>3, <2>1, TransitionTypes DEF FetchFails
    <2>4. QED
      BY <1>21, <2>2, <2>3 DEF FetchFails
  <1>22. CASE FetchInconclusive
    <2>1. cur \in Orders /\ UnknownRow(row[cur]) \in Row
      BY <1>22, RowWrites DEF FetchInconclusive
    <2>2. CASE row' = [row EXCEPT ![cur] = [@ EXCEPT !.absent = FALSE]] /\ Return
      BY <1>22, <2>2, <2>1, RowWrites, NoPayloadType DEF FetchInconclusive, Return, GoIdle
    <2>3. CASE TransitionAndReturn(UnknownRow(row[cur]))
      BY <1>22, <2>3, <2>1, TransitionTypes DEF FetchInconclusive
    <2>4. QED
      BY <1>22, <2>2, <2>3 DEF FetchInconclusive
  <1>23. CASE FetchProvesAbsence
    <2>1. cur \in Orders /\ row[cur] \in Row
      BY <1>23 DEF FetchProvesAbsence
    <2>2. [row[cur] EXCEPT !.status = "unknown", !.absent = TRUE] \in Row
      BY <1>23, <2>1, RowWrites
    <2>3. QED
      BY <1>23, <2>1, <2>2, TransitionTypes DEF FetchProvesAbsence
  <1>24. CASE StoreMismatch
    <2>1. cur \in Orders /\ row[cur] \in Row
      BY <1>24 DEF StoreMismatch
    <2>2. UnknownRow(row[cur]) \in Row
      BY <1>24, <2>1, RowWrites
    <2>3. QED
      BY <1>24, <2>1, <2>2, TransitionTypes DEF StoreMismatch
  <1>25. CASE StoreTrade
    <2>1. fills' \in [Orders -> [real : 0 .. Qty, synthetic : 0 .. Qty]]
      BY <1>25, QtyAssumption DEF StoreTrade, MissingTrades, Payload
    <2>2. QED
      BY <1>25, <2>1 DEF StoreTrade
  <1>26. CASE StoreSynthetic
    <2>1. fills' \in [Orders -> [real : 0 .. Qty, synthetic : 0 .. Qty]]
      BY <1>26, QtyAssumption DEF StoreSynthetic, MissingSynthetic, Payload
    <2>2. QED
      BY <1>26, <2>1 DEF StoreSynthetic
  <1>27. CASE StoreIgnoresOlder
    BY <1>27, NoPayloadType DEF StoreIgnoresOlder, Return, GoIdle
  <1>28. CASE StoreRow
    <2>1. cur \in Orders /\ row[cur] \in Row /\ pay \in Payload
      BY <1>28 DEF StoreRow
    <2>2. [row[cur] EXCEPT !.status = ParsedStatus(pay.raw, pay.filled, Qty),
                     !.exchangeId = TRUE, !.filled = pay.filled,
                     !.absent = FALSE, !.expired = FALSE] \in Row
      BY <1>28, <2>1, StoredRowType
    <2>3. QED
      BY <1>28, <2>1, <2>2, TransitionTypes DEF StoreRow
  <1>29. CASE CancelResolved
    <2>1. CASE RequestCancel(cur) /\ UNCHANGED raised
      BY <1>29, <2>1, RequestCancelTypes DEF CancelResolved, RequestCancel
    <2>2. CASE GoIdle /\ UNCHANGED <<row, raised>>
      BY <1>29, <2>2, NoPayloadType DEF CancelResolved, GoIdle
    <2>3. QED
      BY <1>29, <2>1, <2>2 DEF CancelResolved
  <1>30. CASE CancelAnswered
    <2>1. cur \in Orders
      BY <1>30 DEF CancelAnswered
    <2>2. venue' \in [Orders -> VenueFact] /\ venue'[cur].status \in RawStatus
      BY <1>30, <2>1, CanceledAtVenueTypes DEF CancelAnswered, CanceledAtVenue, VenueKnows, VenueFact, VenueStatus, RawStatus
    <2>3. pay' \in Payload
      BY <1>30, <2>1, <2>2, DetailsAssumption DEF CancelAnswered, Payload, VenueFact
    <2>4. QED
      BY <1>30, <2>1, <2>2, <2>3 DEF CancelAnswered
  <1>31. CASE CancelFails
    <2>1. venue' \in [Orders -> VenueFact]
      BY <1>31, CanceledAtVenueTypes DEF CancelFails
    <2>2. QED
      BY <1>31, <2>1 DEF CancelFails
  <1>32. CASE RecoverDone
    BY <1>32, NoPayloadType DEF RecoverDone, GoIdle
  <1>33. CASE Restart
    BY <1>33 DEF Restart, list_non_terminal
  <1>34. CASE Crash
    <2>1. /\ crashes' \in [all : 0 .. MaxCrashes, torn : 0 .. MaxCrashes]
          /\ crashes'.torn <= crashes'.all
      BY <1>34, LimitAssumption DEF Crash
    <2>2. QED
      BY <1>34, <2>1, NoPayloadType DEF Crash
  <1>35. ASSUME NEW o \in Orders, TtlElapses(o) PROVE TypeInv'
    <2>1. row' \in [Orders -> Row]
      BY <1>35, RowWrites DEF TtlElapses
    <2>2. QED
      BY <1>35, <2>1 DEF TtlElapses
  <1>36. ASSUME NEW o \in Orders, OperatorResolves(o) PROVE TypeInv'
    <2>1. row' \in [Orders -> Row] /\ resolution' \in [Orders -> {"none", "submitting_ttl", "unknown_ttl", "operator"}]
      BY <1>36, ResolveTypes DEF OperatorResolves
    <2>2. QED
      BY <1>36, <2>1 DEF OperatorResolves
  <1>37. ASSUME NEW o \in Orders, RequestArrives(o) PROVE TypeInv'
    <2>1. venue' \in [Orders -> VenueFact]
      BY <1>37 DEF RequestArrives, VenueFact, VenueStatus
    <2>2. QED
      BY <1>37, <2>1 DEF RequestArrives
  <1>38. ASSUME NEW o \in Orders, RequestLost(o) PROVE TypeInv'
    BY <1>38 DEF RequestLost
  <1>39. ASSUME NEW o \in Orders, VenueFills(o) PROVE TypeInv'
    <2>1. venue' \in [Orders -> VenueFact]
      BY <1>39, QtyAssumption DEF VenueFills, VenueFact, VenueStatus
    <2>2. QED
      BY <1>39, <2>1 DEF VenueFills
  <1>40. ASSUME NEW o \in Orders, VenueEnds(o) PROVE TypeInv'
    <2>1. PICK s \in {"expired", "rejected"} : venue' = [venue EXCEPT ![o].status = s]
      BY <1>40 DEF VenueEnds
    <2>2. venue' \in [Orders -> VenueFact]
      BY <2>1 DEF VenueFact, VenueStatus
    <2>3. QED
      BY <1>40, <2>2 DEF VenueEnds
  <1>41. CASE UNCHANGED vars
    BY <1>41 DEF vars
  <1>42. QED
    BY <1>1, <1>2, <1>3, <1>4, <1>5, <1>6, <1>7, <1>8, <1>9, <1>10, <1>11, <1>12, <1>13, <1>14, <1>15, <1>16, <1>17, <1>18, <1>19, <1>20, <1>21, <1>22, <1>23, <1>24, <1>25, <1>26, <1>27, <1>28, <1>29, <1>30, <1>31, <1>32, <1>33, <1>34, <1>35, <1>36, <1>37, <1>38, <1>39, <1>40, <1>41
    DEF Next, Begin, Continue, Environment

(* Every reachable state of the order path has the types it should.         *)
THEOREM TypeCorrect == Spec => []TypeOK
  <1>1. TypeInv => TypeOK
    BY DEF TypeInv
  <1>2. QED
    BY TypeInit, TypeStep, <1>1, PTL DEF Spec

-----------------------------------------------------------------------------
(* The submission argument: an order whose attempt is not on record has not *)
(* been sent, the call that may send an order has not sent it yet, and no   *)
(* step takes a row back to the status of an intent.                        *)
BeforeSend == {"prepare", "check", "send"}
OnLedger == pc \notin {"down", "idle", "recover", "prepare"} => cur \in ledger

SubmissionInv ==
    /\ TypeInv
    /\ OnLedger /\ todo \subseteq ledger
    /\ \A o \in Orders :
         /\ o \notin ledger => row[o].status = "submitting" /\ ~row[o].attempted
         /\ ~row[o].attempted => sent[o] = 0
         /\ sent[o] <= 1
         /\ resolution[o] # "none" => o \in ledger /\ row[o].status # "submitting"
         /\ resolution[o] = "submitting_ttl" => sent[o] = 0
    /\ pc \in BeforeSend => row[cur].status = "submitting" /\ sent[cur] = 0
    /\ pc = "send" => row[cur].attempted

(* Most steps touch nothing the argument is about. *)
RowsQuiet ==
    \A o \in Orders : /\ o \notin ledger' => row'[o] = row[o]
                      /\ row'[o].attempted = row[o].attempted
                      /\ row'[o].status = "submitting" => row[o].status = "submitting"
ControlQuiet ==
    \/ pc' \notin BeforeSend /\ OnLedger'
    \/ UNCHANGED <<pc, cur, row, ledger>>
Quiet ==
    /\ UNCHANGED <<sent, resolution>>
    /\ ledger \subseteq ledger' /\ todo' \subseteq ledger'
    /\ RowsQuiet /\ ControlQuiet

LEMMA QuietStep == SubmissionInv /\ TypeInv' /\ Quiet => SubmissionInv'
  <1> SUFFICES ASSUME SubmissionInv, TypeInv', Quiet PROVE SubmissionInv'
    OBVIOUS
  <1>1. ASSUME NEW o \in Orders
        PROVE  /\ o \notin ledger' => row'[o].status = "submitting" /\ ~row'[o].attempted
               /\ ~row'[o].attempted => sent'[o] = 0
               /\ sent'[o] <= 1
               /\ resolution'[o] # "none" => o \in ledger' /\ row'[o].status # "submitting"
               /\ resolution'[o] = "submitting_ttl" => sent'[o] = 0
    BY DEF SubmissionInv, Quiet, RowsQuiet
  <1>2. OnLedger' /\ todo' \subseteq ledger'
    BY DEF SubmissionInv, Quiet, ControlQuiet, OnLedger
  <1>3. /\ pc' \in BeforeSend => row'[cur'].status = "submitting" /\ sent'[cur'] = 0
        /\ pc' = "send" => row'[cur'].attempted
    BY DEF SubmissionInv, Quiet, ControlQuiet, BeforeSend
  <1>4. QED
    BY <1>1, <1>2, <1>3 DEF SubmissionInv

(* What a reading of the venue or of the clock writes into a row. *)
QuietRow(r, new) == new.attempted = r.attempted /\ (new.status = "submitting" => r.status = "submitting")

LEMMA QuietWrites ==
    ASSUME NEW r \in Row
    PROVE  /\ QuietRow(r, UnknownRow(r)) /\ QuietRow(r, RejectedRow(r))
           /\ QuietRow(r, CancelPending(r))
           /\ QuietRow(r, [r EXCEPT !.status = "unknown", !.absent = TRUE])
           /\ QuietRow(r, [r EXCEPT !.expired = TRUE])
           /\ QuietRow(r, [r EXCEPT !.absent = FALSE])
  BY DEF QuietRow, Row, UnknownRow, RejectedRow, CancelPending

LEMMA QuietStore ==
    ASSUME NEW r \in Row, NEW p \in Payload
    PROVE  QuietRow(r, [r EXCEPT !.status = ParsedStatus(p.raw, p.filled, Qty),
                                 !.exchangeId = TRUE, !.filled = p.filled,
                                 !.absent = FALSE, !.expired = FALSE])
  <1>1. p.raw \in RawStatus /\ p.filled \in Nat
    BY QtyAssumption DEF Payload
  <1>2. ParsedStatus(p.raw, p.filled, Qty) # "submitting"
    BY <1>1, QtyAssumption, ParsedStatusType
  <1>3. QED
    BY <1>2 DEF QuietRow, Row

LEMMA RowQuiet ==
    ASSUME TypeInv, NEW o \in ledger', ledger' \subseteq Orders, NEW new, QuietRow(row[o], new),
           row' = [row EXCEPT ![o] = new]
    PROVE  RowsQuiet
  BY DEF TypeInv, TypeOK, RowsQuiet, QuietRow

LEMMA TransitionQuiet ==
    ASSUME SubmissionInv, cur \in ledger, NEW new, QuietRow(row[cur], new),
           TransitionAndReturn(new), UNCHANGED <<ledger, sent, resolution>>
    PROVE  Quiet
  <1> ledger \subseteq Orders
    BY DEF SubmissionInv, TypeInv, TypeOK
  <1>1. RowsQuiet
    BY RowQuiet DEF TransitionAndReturn, SubmissionInv, RowsQuiet
  <1>2. ControlQuiet /\ todo' \subseteq ledger'
    BY DEF TransitionAndReturn, Return, Raise, GoIdle, ControlQuiet, OnLedger, BeforeSend, SubmissionInv
  <1>3. QED
    BY <1>1, <1>2 DEF Quiet

LEMMA RequestCancelQuiet ==
    ASSUME SubmissionInv, NEW o \in ledger, RequestCancel(o), UNCHANGED <<ledger, sent, resolution>>
    PROVE  Quiet
  <1> ledger \subseteq Orders /\ row[o] \in Row
    BY DEF SubmissionInv, TypeInv, TypeOK
  <1>1. RowsQuiet
    BY RowQuiet, QuietWrites DEF RequestCancel, SubmissionInv
  <1>2. QED
    BY <1>1 DEF Quiet, RequestCancel, ControlQuiet, OnLedger, BeforeSend, SubmissionInv

LEMMA ResolvedRow ==
    ASSUME SubmissionInv, NEW o \in Orders, NEW by, ResolveAsUnsubmitted(o, by)
    PROVE  row'[o].attempted = row[o].attempted /\ row'[o].status = "expired_unsubmitted"
  BY DEF ResolveAsUnsubmitted, SubmissionInv, TypeInv, TypeOK, Row

LEMMA SubmissionInit == Init => SubmissionInv
  <1>1. Init => TypeInv
    BY TypeInit
  <1>2. QED
    BY <1>1 DEF Init, SubmissionInv, OnLedger, BeforeSend, NewRow

(* One step per action: seven concern the argument, the others are quiet. *)
LEMMA SubmissionStep == SubmissionInv /\ [Next]_vars => SubmissionInv'
  <1> SUFFICES ASSUME SubmissionInv, [Next]_vars PROVE SubmissionInv'
    OBVIOUS
  <1>t. TypeInv'
    BY TypeStep DEF SubmissionInv
  <1>q. Quiet => SubmissionInv'
    BY <1>t, QuietStep
  <1> USE DEF durable, outside, process
  <1>1. ASSUME NEW o \in Orders, Reserve(o) PROVE SubmissionInv'
    BY <1>1, <1>t DEF Reserve, SubmissionInv, TypeInv, TypeOK, OnLedger, BeforeSend
  <1>2. ASSUME NEW o \in Orders, Block(o) PROVE SubmissionInv'
    <2>1. Quiet
      BY <1>2 DEF Block, Quiet, RowsQuiet, ControlQuiet, OnLedger, BeforeSend, SubmissionInv
    <2>2. QED
      BY <2>1, <1>q
  <1>3. ASSUME NEW o \in Orders, Resume(o) PROVE SubmissionInv'
    BY <1>3, <1>t DEF Resume, PreSubmit, SubmissionInv, TypeInv, TypeOK, OnLedger, BeforeSend
  <1>4. ASSUME NEW o \in Orders, Replay(o) PROVE SubmissionInv'
    <2>1. Quiet
      BY <1>4 DEF Replay, Quiet, RowsQuiet, ControlQuiet, OnLedger, BeforeSend, SubmissionInv
    <2>2. QED
      BY <2>1, <1>q
  <1>5. ASSUME NEW o \in Orders, Cancel(o) PROVE SubmissionInv'
    <2>1. o \in ledger /\ row[o] \in Row /\ UNCHANGED <<ledger, sent, resolution>>
      BY <1>5 DEF Cancel, list_non_terminal, SubmissionInv, TypeInv, TypeOK
    <2>2. CASE RequestCancel(o)
      BY <1>5, <2>2, <1>q, <2>1, RequestCancelQuiet
    <2>3. CASE UNCHANGED row /\ Raise
      BY <1>5, <2>3, <1>q, <2>1 DEF Raise, GoIdle, Quiet, RowsQuiet, ControlQuiet, OnLedger, BeforeSend, SubmissionInv
    <2>4. QED
      BY <1>5, <2>2, <2>3, <1>q DEF Cancel
  <1>6. ASSUME NEW o \in Orders, CancelUnknown(o) PROVE SubmissionInv'
    <2>1. Quiet
      BY <1>6 DEF CancelUnknown, Quiet, RowsQuiet, ControlQuiet, OnLedger, BeforeSend, SubmissionInv
    <2>2. QED
      BY <2>1, <1>q
  <1>7. CASE StartRecovery
    <2>1. Quiet
      BY <1>7 DEF StartRecovery, list_non_terminal, Quiet, RowsQuiet, ControlQuiet, OnLedger, BeforeSend, SubmissionInv
    <2>2. QED
      BY <2>1, <1>q
  <1>8. ASSUME NEW o \in Orders, RecoverExpires(o) PROVE SubmissionInv'
    <2>1. o \in ledger /\ row[o] \in Row /\ pc' = pc /\ pc \notin BeforeSend /\ OnLedger'
          /\ UNCHANGED <<ledger, sent>> /\ todo' \subseteq ledger
      BY <1>8 DEF RecoverExpires, SubmissionInv, TypeInv, TypeOK, OnLedger, BeforeSend
    <2>2. row'[o].attempted = row[o].attempted /\ row'[o].status = "expired_unsubmitted"
      BY <1>8, <2>1, ResolvedRow DEF RecoverExpires
    <2>3. \A p \in Orders : p # o => row'[p] = row[p] /\ resolution'[p] = resolution[p]
      BY <1>8 DEF RecoverExpires, ResolveAsUnsubmitted, SubmissionInv, TypeInv, TypeOK
    <2>4. resolution'[o] = "submitting_ttl" => sent[o] = 0
      BY <1>8 DEF RecoverExpires, ResolveAsUnsubmitted, PreSubmit, SubmissionInv, TypeInv, TypeOK
    <2>5. QED
      BY <2>1, <2>2, <2>3, <2>4, <1>t DEF SubmissionInv, BeforeSend
  <1>9. ASSUME NEW o \in Orders, RecoverRaises(o) PROVE SubmissionInv'
    <2>1. Quiet
      BY <1>9 DEF RecoverRaises, Raise, GoIdle, Quiet, RowsQuiet, ControlQuiet, OnLedger, BeforeSend, SubmissionInv
    <2>2. QED
      BY <2>1, <1>q
  <1>10. ASSUME NEW o \in Orders, RecoverSkips(o) PROVE SubmissionInv'
    <2>1. Quiet
      BY <1>10 DEF RecoverSkips, Quiet, RowsQuiet, ControlQuiet, OnLedger, BeforeSend, SubmissionInv
    <2>2. QED
      BY <2>1, <1>q
  <1>11. ASSUME NEW o \in Orders, RecoverReconciles(o) PROVE SubmissionInv'
    <2>1. Quiet
      BY <1>11 DEF RecoverReconciles, Quiet, RowsQuiet, ControlQuiet, OnLedger, BeforeSend, SubmissionInv
    <2>2. QED
      BY <2>1, <1>q
  <1>12. CASE PrepareFails
    <2>1. Quiet
      BY <1>12 DEF PrepareFails, Quiet, RowsQuiet, ControlQuiet, OnLedger, BeforeSend, SubmissionInv
    <2>2. QED
      BY <2>1, <1>q
  <1>13. CASE RejectLocally
    <2>1. cur \in ledger /\ row[cur] \in Row
      BY <1>13 DEF RejectLocally, SubmissionInv, OnLedger, TypeInv, TypeOK
    <2>2. Quiet
      BY <1>13, <2>1, QuietWrites, TransitionQuiet DEF RejectLocally
    <2>3. QED
      BY <1>13, <2>2, <1>q
  <1>14. CASE CreateIntent
    BY <1>14, <1>t DEF CreateIntent, SubmissionInv, TypeInv, TypeOK, OnLedger, BeforeSend
  <1>15. CASE CheckBlocks
    <2>1. Quiet
      BY <1>15 DEF CheckBlocks, Quiet, RowsQuiet, ControlQuiet, OnLedger, BeforeSend, SubmissionInv
    <2>2. QED
      BY <2>1, <1>q
  <1>16. CASE mark_submission_attempted
    <2>1. cur \in ledger /\ cur \in Orders /\ row[cur] \in Row
      BY <1>16 DEF mark_submission_attempted, SubmissionInv, TypeInv, TypeOK, OnLedger, BeforeSend, CurOK
    <2>2. row'[cur].attempted /\ row'[cur].status = row[cur].status
      BY <1>16, <2>1 DEF mark_submission_attempted, SubmissionInv, TypeInv, TypeOK, Row
    <2>3. \A o \in Orders : o # cur => row'[o] = row[o]
      BY <1>16 DEF mark_submission_attempted, SubmissionInv, TypeInv, TypeOK
    <2>4. QED
      BY <1>16, <2>1, <2>2, <2>3, <1>t DEF mark_submission_attempted, SubmissionInv, OnLedger, BeforeSend
  <1>17. CASE Send
    <2>1. cur \in Orders /\ sent[cur] = 0 /\ row[cur].attempted /\ resolution[cur] = "none"
      BY <1>17 DEF Send, SubmissionInv, TypeInv, TypeOK, OnLedger, BeforeSend, CurOK
    <2>2. QED
      BY <1>17, <2>1, <1>t DEF Send, SubmissionInv, TypeInv, TypeOK, OnLedger, BeforeSend
  <1>18. CASE CreateOrderResponse \/ FetchFinds
    <2>1. Quiet
      BY <1>18 DEF CreateOrderResponse, FetchFinds, Answered, Quiet, RowsQuiet, ControlQuiet, OnLedger, BeforeSend, SubmissionInv
    <2>2. QED
      BY <1>18, <2>1, <1>q
  <1>19. CASE CreateOrderAmbiguous
    <2>1. cur \in ledger /\ row[cur] \in Row
      BY <1>19 DEF CreateOrderAmbiguous, SubmissionInv, OnLedger, TypeInv, TypeOK
    <2>2. Quiet
      BY <1>19, <2>1, QuietWrites, TransitionQuiet DEF CreateOrderAmbiguous
    <2>3. QED
      BY <1>19, <2>2, <1>q
  <1>20. CASE CreateOrderRefused
    <2>1. cur \in ledger /\ row[cur] \in Row
      BY <1>20 DEF CreateOrderRefused, SubmissionInv, OnLedger, TypeInv, TypeOK
    <2>2. Quiet
      BY <1>20, <2>1, QuietWrites, TransitionQuiet DEF CreateOrderRefused
    <2>3. QED
      BY <1>20, <2>2, <1>q
  <1>21. CASE FetchFails
    <2>1. cur \in ledger /\ row[cur] \in Row
      BY <1>21 DEF FetchFails, SubmissionInv, OnLedger, TypeInv, TypeOK
    <2>2. CASE row[cur].status = "unknown" /\ Return /\ UNCHANGED row
      BY <1>21, <2>2, <1>q, <2>1 DEF FetchFails, Return, GoIdle, Quiet, RowsQuiet, ControlQuiet, OnLedger, BeforeSend, SubmissionInv
    <2>3. CASE TransitionAndReturn(UnknownRow(row[cur]))
      BY <1>21, <2>3, <1>q, <2>1, QuietWrites, TransitionQuiet DEF FetchFails
    <2>4. QED
      BY <1>21, <2>2, <2>3, <1>q DEF FetchFails
  <1>22. CASE FetchInconclusive
    <2>1. cur \in ledger /\ row[cur] \in Row /\ ledger \subseteq Orders /\ TypeInv
      BY <1>22 DEF FetchInconclusive, SubmissionInv, OnLedger, TypeInv, TypeOK
    <2>2. ASSUME row' = [row EXCEPT ![cur] = [@ EXCEPT !.absent = FALSE]] PROVE RowsQuiet
      BY <1>22, <2>2, <2>1, QuietWrites, RowQuiet DEF FetchInconclusive
    <2>3. CASE row' = [row EXCEPT ![cur] = [@ EXCEPT !.absent = FALSE]] /\ Return
      BY <1>22, <2>3, <1>q, <2>1, <2>2 DEF FetchInconclusive, Return, GoIdle, Quiet, ControlQuiet, OnLedger, BeforeSend, SubmissionInv
    <2>4. CASE TransitionAndReturn(UnknownRow(row[cur]))
      BY <1>22, <2>4, <1>q, <2>1, QuietWrites, TransitionQuiet DEF FetchInconclusive
    <2>5. QED
      BY <1>22, <2>3, <2>4, <1>q DEF FetchInconclusive
  <1>23. CASE FetchProvesAbsence
    <2>1. cur \in ledger /\ row[cur] \in Row
      BY <1>23 DEF FetchProvesAbsence, SubmissionInv, OnLedger, TypeInv, TypeOK
    <2>2. Quiet
      BY <1>23, <2>1, QuietWrites, TransitionQuiet DEF FetchProvesAbsence
    <2>3. QED
      BY <1>23, <2>2, <1>q
  <1>24. CASE StoreMismatch
    <2>1. cur \in ledger /\ row[cur] \in Row
      BY <1>24 DEF StoreMismatch, SubmissionInv, OnLedger, TypeInv, TypeOK
    <2>2. Quiet
      BY <1>24, <2>1, QuietWrites, TransitionQuiet DEF StoreMismatch
    <2>3. QED
      BY <1>24, <2>2, <1>q
  <1>25. CASE StoreTrade
    <2>1. Quiet
      BY <1>25 DEF StoreTrade, Quiet, RowsQuiet, ControlQuiet, OnLedger, BeforeSend, SubmissionInv
    <2>2. QED
      BY <2>1, <1>q
  <1>26. CASE StoreSynthetic
    <2>1. Quiet
      BY <1>26 DEF StoreSynthetic, Quiet, RowsQuiet, ControlQuiet, OnLedger, BeforeSend, SubmissionInv
    <2>2. QED
      BY <2>1, <1>q
  <1>27. CASE StoreIgnoresOlder
    <2>1. Quiet
      BY <1>27 DEF StoreIgnoresOlder, Return, GoIdle, Quiet, RowsQuiet, ControlQuiet, OnLedger, BeforeSend, SubmissionInv
    <2>2. QED
      BY <2>1, <1>q
  <1>28. CASE StoreRow
    <2>1. cur \in ledger /\ row[cur] \in Row /\ pay \in Payload
      BY <1>28 DEF StoreRow, SubmissionInv, OnLedger, TypeInv, TypeOK
    <2>2. Quiet
      BY <1>28, <2>1, QuietStore, TransitionQuiet DEF StoreRow
    <2>3. QED
      BY <1>28, <2>2, <1>q
  <1>29. CASE CancelResolved
    <2>1. cur \in ledger /\ UNCHANGED <<ledger, sent, resolution>>
      BY <1>29 DEF CancelResolved, SubmissionInv, OnLedger
    <2>2. CASE RequestCancel(cur)
      BY <1>29, <2>2, <1>q, <2>1, RequestCancelQuiet
    <2>3. CASE GoIdle /\ UNCHANGED <<row, raised>>
      BY <1>29, <2>3, <1>q, <2>1 DEF GoIdle, Quiet, RowsQuiet, ControlQuiet, OnLedger, BeforeSend, SubmissionInv
    <2>4. QED
      BY <1>29, <2>2, <2>3, <1>q DEF CancelResolved
  <1>30. CASE CancelAnswered
    <2>1. Quiet
      BY <1>30 DEF CancelAnswered, Quiet, RowsQuiet, ControlQuiet, OnLedger, BeforeSend, SubmissionInv
    <2>2. QED
      BY <2>1, <1>q
  <1>31. CASE CancelFails
    <2>1. Quiet
      BY <1>31 DEF CancelFails, Quiet, RowsQuiet, ControlQuiet, OnLedger, BeforeSend, SubmissionInv
    <2>2. QED
      BY <2>1, <1>q
  <1>32. CASE RecoverDone
    <2>1. Quiet
      BY <1>32 DEF RecoverDone, GoIdle, Quiet, RowsQuiet, ControlQuiet, OnLedger, BeforeSend, SubmissionInv
    <2>2. QED
      BY <2>1, <1>q
  <1>33. CASE Restart
    <2>1. Quiet
      BY <1>33 DEF Restart, list_non_terminal, Quiet, RowsQuiet, ControlQuiet, OnLedger, BeforeSend, SubmissionInv
    <2>2. QED
      BY <2>1, <1>q
  <1>34. CASE Crash
    <2>1. Quiet
      BY <1>34 DEF Crash, Quiet, RowsQuiet, ControlQuiet, OnLedger, BeforeSend, SubmissionInv
    <2>2. QED
      BY <2>1, <1>q
  <1>35. ASSUME NEW o \in Orders, TtlElapses(o) PROVE SubmissionInv'
    <2>1. o \in ledger /\ row[o] \in Row /\ ledger \subseteq Orders /\ TypeInv
      BY <1>35 DEF TtlElapses, list_non_terminal, SubmissionInv, TypeInv, TypeOK
    <2>2. RowsQuiet
      BY <1>35, <2>1, QuietWrites, RowQuiet DEF TtlElapses
    <2>3. Quiet
      BY <1>35, <2>2 DEF TtlElapses, Quiet, ControlQuiet, OnLedger, BeforeSend, SubmissionInv
    <2>4. QED
      BY <1>35, <2>3, <1>q
  <1>36. ASSUME NEW o \in Orders, OperatorResolves(o) PROVE SubmissionInv'
    <2>1. o \in ledger /\ row[o] \in Row /\ pc' = pc /\ pc \notin BeforeSend /\ OnLedger'
          /\ UNCHANGED <<ledger, sent>> /\ todo' \subseteq ledger
      BY <1>36 DEF OperatorResolves, SubmissionInv, TypeInv, TypeOK, OnLedger, BeforeSend
    <2>2. row'[o].attempted = row[o].attempted /\ row'[o].status = "expired_unsubmitted"
      BY <1>36, <2>1, ResolvedRow DEF OperatorResolves
    <2>3. \A p \in Orders : p # o => row'[p] = row[p] /\ resolution'[p] = resolution[p]
      BY <1>36 DEF OperatorResolves, ResolveAsUnsubmitted, SubmissionInv, TypeInv, TypeOK
    <2>4. resolution'[o] = "operator"
      BY <1>36 DEF OperatorResolves, ResolveAsUnsubmitted, SubmissionInv, TypeInv, TypeOK
    <2>5. QED
      BY <2>1, <2>2, <2>3, <2>4, <1>t DEF SubmissionInv, BeforeSend
  <1>37. ASSUME NEW o \in Orders, RequestArrives(o) PROVE SubmissionInv'
    <2>1. Quiet
      BY <1>37 DEF RequestArrives, Quiet, RowsQuiet, ControlQuiet, OnLedger, BeforeSend, SubmissionInv
    <2>2. QED
      BY <2>1, <1>q
  <1>38. ASSUME NEW o \in Orders, RequestLost(o) PROVE SubmissionInv'
    <2>1. Quiet
      BY <1>38 DEF RequestLost, Quiet, RowsQuiet, ControlQuiet, OnLedger, BeforeSend, SubmissionInv
    <2>2. QED
      BY <2>1, <1>q
  <1>39. ASSUME NEW o \in Orders, VenueFills(o) PROVE SubmissionInv'
    <2>1. Quiet
      BY <1>39 DEF VenueFills, Quiet, RowsQuiet, ControlQuiet, OnLedger, BeforeSend, SubmissionInv
    <2>2. QED
      BY <2>1, <1>q
  <1>40. ASSUME NEW o \in Orders, VenueEnds(o) PROVE SubmissionInv'
    <2>1. Quiet
      BY <1>40 DEF VenueEnds, Quiet, RowsQuiet, ControlQuiet, OnLedger, BeforeSend, SubmissionInv
    <2>2. QED
      BY <2>1, <1>q
  <1>41. CASE UNCHANGED vars
    <2>1. Quiet
      BY <1>41 DEF vars, Quiet, RowsQuiet, ControlQuiet, OnLedger, BeforeSend, SubmissionInv
    <2>2. QED
      BY <2>1, <1>q
  <1>42. QED
    BY <1>1, <1>2, <1>3, <1>4, <1>5, <1>6, <1>7, <1>8, <1>9, <1>10, <1>11, <1>12, <1>13, <1>14, <1>15, <1>16, <1>17, <1>18, <1>19, <1>20, <1>21, <1>22, <1>23, <1>24, <1>25, <1>26, <1>27, <1>28, <1>29, <1>30, <1>31, <1>32, <1>33, <1>34, <1>35, <1>36, <1>37, <1>38, <1>39, <1>40, <1>41
    DEF Next, Begin, Continue, Environment

LEMMA SubmissionInvariant == Spec => []SubmissionInv
  BY SubmissionInit, SubmissionStep, PTL DEF Spec

(* No order is ever sent to the venue twice, whatever crashes, replays,     *)
(* lost answers and recoveries happen in between.                           *)
THEOREM NeverSentTwice == Spec => []AtMostOneSubmission
  <1>1. SubmissionInv => AtMostOneSubmission
    BY DEF SubmissionInv, AtMostOneSubmission
  <1>2. QED
    BY SubmissionInvariant, <1>1, PTL

(* An order the pre-submit TTL wrote off was never sent, before or after.   *)
THEOREM ExpiredIntentNeverSent == Spec => []TtlExpiredNeverSent
  <1>1. SubmissionInv => TtlExpiredNeverSent
    BY DEF SubmissionInv, TtlExpiredNeverSent
  <1>2. QED
    BY SubmissionInvariant, <1>1, PTL

-----------------------------------------------------------------------------
(***************************************************************************)
(* The shape of the process: where a call stands tells what the row it     *)
(* works on can be, and recovery works through orders that are not settled *)
(* yet.                                                                    *)
(***************************************************************************)
Sending == {"reject", "prepare", "check", "send", "await"}
Attempting == {"fetch", "store", "cancel", "precancel"}

Unsent == {"submitting", "rejected", "expired_unsubmitted"}

RowsInv ==
    \A o \in Orders :
        /\ ~row[o].attempted => row[o].status \in Unsent
        /\ row[o].status = "expired_unsubmitted" => row[o].filled = 0
CallInv ==
    /\ pc \in {"idle", "down"} => op = "none"
    /\ pc \in {"idle", "down", "recover"} => cur = NoOrder
    /\ pc \in Sending => op = "submit"
    /\ pc = "recover" => op = "recover"
    /\ pc = "precancel" => op = "precancel"
    /\ op # "recover" => todo = {}
    /\ todo \subseteq list_non_terminal /\ cur \notin todo
HandInv ==
    /\ pc \in {"reject", "prepare", "check"} => PreSubmit(cur)
    /\ pc \in {"send", "await"} => row[cur].status = "submitting" /\ row[cur].attempted
    /\ pc \in Attempting => row[cur].attempted
ControlInv == SubmissionInv /\ RowsInv /\ CallInv /\ HandInv

(* A row written by the call in progress that fits the shape. *)
FitRow(r, new) ==
    /\ new.attempted = r.attempted
    /\ ~new.attempted => new.status \in Unsent
    /\ new.status = "expired_unsubmitted" => new.filled = 0

LEMMA TransitionControl ==
    ASSUME ControlInv, cur \in Orders, NEW new \in Row, FitRow(row[cur], new),
           pc \in {"reject", "await", "fetch", "store"},
           TransitionAndReturn(new), ledger' = ledger
    PROVE  RowsInv' /\ CallInv' /\ HandInv'
  <1> USE DEF ControlInv
  <1>1. RowsInv'
    BY DEF RowsInv, TransitionAndReturn, FitRow, SubmissionInv, TypeInv, TypeOK
  <1>2. \A o \in Orders : o # cur => row'[o] = row[o]
    BY DEF TransitionAndReturn, SubmissionInv, TypeInv, TypeOK
  <1>3. todo' \subseteq todo
    BY DEF TransitionAndReturn, Return, Raise, GoIdle
  <1>4. NoOrder \notin todo /\ todo \subseteq Orders
    BY OrdersAssumption DEF SubmissionInv, TypeInv, TypeOK
  <1>5. todo' \subseteq list_non_terminal'
    BY <1>2, <1>3, <1>4 DEF CallInv, list_non_terminal
  <1>6. CallInv'
    BY <1>3, <1>4, <1>5 DEF CallInv, Sending, TransitionAndReturn, Return, Raise, GoIdle
  <1>7. pc \notin {"reject"} => row'[cur].attempted
    BY DEF HandInv, TransitionAndReturn, FitRow, Attempting, SubmissionInv, TypeInv, TypeOK
  <1>8. HandInv'
    BY <1>7 DEF HandInv, CallInv, Sending, Attempting, TransitionAndReturn, Return, Raise, GoIdle
  <1>9. QED
    BY <1>1, <1>6, <1>8

(* What the broker and the venue's answers write fits. *)
LEMMA FitWrites ==
    ASSUME NEW r \in Row
    PROVE  /\ r.attempted => FitRow(r, UnknownRow(r)) /\ FitRow(r, CancelPending(r))
           /\ FitRow(r, RejectedRow(r))
           /\ r.attempted => FitRow(r, [r EXCEPT !.status = "unknown", !.absent = TRUE])
  BY DEF FitRow, Row, UnknownRow, RejectedRow, CancelPending, Unsent

LEMMA ParsedNotUnsubmitted ==
    ASSUME NEW raw \in RawStatus, NEW filled \in Nat, NEW amount \in Nat \ {0}
    PROVE  ParsedStatus(raw, filled, amount) # "expired_unsubmitted"
  BY DEF ParsedStatus, RawStatus

StoredRow(r, p) ==
    [r EXCEPT !.status = ParsedStatus(p.raw, p.filled, Qty),
              !.exchangeId = TRUE, !.filled = p.filled,
              !.absent = FALSE, !.expired = FALSE]

LEMMA FitStore ==
    ASSUME NEW r \in Row, r.attempted, NEW p \in Payload
    PROVE  FitRow(r, StoredRow(r, p))
  <1>1. p.raw \in RawStatus /\ p.filled \in Nat
    BY QtyAssumption DEF Payload
  <1>2. ParsedStatus(p.raw, p.filled, Qty) # "expired_unsubmitted"
    BY <1>1, QtyAssumption, ParsedNotUnsubmitted
  <1>3. QED
    BY <1>2 DEF FitRow, StoredRow, Row

(* Only a status that allows it is taken to cancel_pending: the order was   *)
(* sent.                                                                    *)
LEMMA RequestCancelControl ==
    ASSUME ControlInv, NEW o \in Orders, RequestCancel(o), op # "recover", UNCHANGED ledger
    PROVE  RowsInv' /\ CallInv' /\ HandInv'
  <1> USE DEF ControlInv
  <1>1. row[o] \in Row /\ row'[o] = CancelPending(row[o])
        /\ \A p \in Orders : p # o => row'[p] = row[p]
    BY DEF RequestCancel, SubmissionInv, TypeInv, TypeOK
  <1>2. row[o].status \notin Unsent
    BY DEF RequestCancel, ValidTransition, Allowed, Unsent
  <1>3. row[o].attempted
    BY <1>2 DEF RowsInv
  <1>4. row'[o].attempted /\ row'[o].status = "cancel_pending"
    BY <1>1, <1>3 DEF CancelPending, Row
  <1>5. RowsInv'
    BY <1>1, <1>4 DEF RowsInv
  <1>6. todo' = {}
    BY DEF CallInv, RequestCancel
  <1>7. QED
    BY <1>4, <1>5, <1>6 DEF CallInv, HandInv, RequestCancel, Sending, Attempting

LEMMA ResolveControl ==
    ASSUME ControlInv, NEW o \in Orders, NEW by, ResolveAsUnsubmitted(o, by)
    PROVE  /\ RowsInv'
           /\ \A p \in Orders : p # o => row'[p] = row[p]
  <1>1. row[o] \in Row /\ row[o].filled = 0 /\ \A p \in Orders : p # o => row'[p] = row[p]
    BY DEF ControlInv, ResolveAsUnsubmitted, MayResolveAsUnsubmitted, SubmissionInv, TypeInv, TypeOK
  <1>2. row'[o].status = "expired_unsubmitted" /\ row'[o].filled = 0
    BY <1>1 DEF ResolveAsUnsubmitted, Row, ControlInv, SubmissionInv, TypeInv, TypeOK
  <1>3. QED
    BY <1>1, <1>2 DEF RowsInv, Unsent, ControlInv

LEMMA ControlInit == Init => ControlInv
  <1> SUFFICES ASSUME Init PROVE ControlInv
    OBVIOUS
  <1>1. SubmissionInv
    BY SubmissionInit
  <1>2. \A o \in Orders : row[o] = NewRow
    BY DEF Init
  <1>3. RowsInv
    BY <1>2 DEF RowsInv, Unsent, NewRow
  <1>4. QED
    BY <1>1, <1>3 DEF Init, ControlInv, CallInv, HandInv, Sending, Attempting, list_non_terminal

LEMMA ControlStep == ControlInv /\ [Next]_vars => ControlInv'
  <1> SUFFICES ASSUME ControlInv, [Next]_vars PROVE ControlInv'
    OBVIOUS
  <1>s. SubmissionInv'
    BY SubmissionStep DEF ControlInv
  <1>t. /\ ledger \subseteq Orders /\ todo \subseteq ledger /\ row \in [Orders -> Row] /\ pay \in Payload
        /\ pc \notin {"down", "idle", "recover"} => cur \in Orders
    BY DEF ControlInv, SubmissionInv, TypeInv, TypeOK, CurOK
  <1>g. SUFFICES RowsInv' /\ CallInv' /\ HandInv'
    BY <1>s DEF ControlInv
  <1> USE DEF ControlInv, durable, outside, process
  <1>r. UNCHANGED row => RowsInv'
    BY DEF RowsInv
  <1>l. UNCHANGED <<ledger, row>> => list_non_terminal' = list_non_terminal
    BY DEF list_non_terminal
  <1>o. \A o \in Orders : o \notin ledger => PreSubmit(o)
    BY DEF SubmissionInv, PreSubmit
  <1>1. ASSUME NEW o \in Orders, Reserve(o) PROVE CallInv' /\ HandInv'
    BY <1>1, <1>l, <1>o DEF Reserve, CallInv, HandInv, Sending, Attempting, PreSubmit
  <1>2. ASSUME NEW o \in Orders, Block(o) PROVE CallInv' /\ HandInv'
    BY <1>2, <1>o DEF Block, CallInv, HandInv, Sending, Attempting, PreSubmit, list_non_terminal
  <1>3. ASSUME NEW o \in Orders, Resume(o) PROVE CallInv' /\ HandInv'
    BY <1>3, <1>l DEF Resume, CallInv, HandInv, Sending, Attempting, PreSubmit
  <1>4. ASSUME NEW o \in Orders, Replay(o) PROVE CallInv' /\ HandInv'
    BY <1>4, <1>l DEF Replay, NeedsLookup, CallInv, HandInv, Sending, Attempting
  <1>5. ASSUME NEW o \in Orders, Cancel(o) PROVE RowsInv' /\ CallInv' /\ HandInv'
    <2>1. CASE RequestCancel(o)
      BY <1>5, <2>1, RequestCancelControl DEF Cancel, CallInv
    <2>2. CASE UNCHANGED row /\ Raise
      BY <1>5, <2>2, <1>r DEF Cancel, Raise, GoIdle, CallInv, HandInv, Sending, Attempting
    <2>3. QED
      BY <1>5, <2>1, <2>2 DEF Cancel
  <1>6. ASSUME NEW o \in Orders, CancelUnknown(o) PROVE CallInv' /\ HandInv'
    <2>1. row[o].attempted
      BY <1>6 DEF CancelUnknown, RowsInv, Unsent
    <2>2. QED
      BY <1>6, <2>1, <1>l DEF CancelUnknown, CallInv, HandInv, Sending, Attempting
  <1>7. ASSUME StartRecovery PROVE CallInv' /\ HandInv'
    <2>1. NoOrder \notin ledger
      BY <1>t, OrdersAssumption
    <2>2. QED
      BY <1>7, <2>1, <1>l DEF StartRecovery, CallInv, HandInv, Sending, Attempting, list_non_terminal
  <1>8. ASSUME NEW o \in Orders, RecoverExpires(o) PROVE RowsInv' /\ CallInv' /\ HandInv'
    <2>1. RowsInv' /\ \A p \in Orders : p # o => row'[p] = row[p]
      BY <1>8, ResolveControl DEF RecoverExpires
    <2>2. todo' \subseteq list_non_terminal'
      BY <1>8, <2>1, <1>t DEF RecoverExpires, CallInv, list_non_terminal
    <2>3. QED
      BY <1>8, <2>1, <2>2 DEF RecoverExpires, CallInv, HandInv, Sending, Attempting
  <1>9. ASSUME NEW o \in Orders, RecoverRaises(o) PROVE CallInv' /\ HandInv'
    BY <1>9 DEF RecoverRaises, Raise, GoIdle, CallInv, HandInv, Sending, Attempting
  <1>10. ASSUME NEW o \in Orders, RecoverSkips(o) PROVE CallInv' /\ HandInv'
    BY <1>10, <1>l DEF RecoverSkips, CallInv, HandInv, Sending, Attempting
  <1>11. ASSUME NEW o \in Orders, RecoverReconciles(o) PROVE CallInv' /\ HandInv'
    <2>1. row[o].attempted
      BY <1>11 DEF RecoverReconciles, CallInv, list_non_terminal, RowsInv, Unsent, PreSubmit, TERMINAL_STATUSES
    <2>2. QED
      BY <1>11, <2>1, <1>l DEF RecoverReconciles, CallInv, HandInv, Sending, Attempting
  <1>12. ASSUME PrepareFails PROVE CallInv' /\ HandInv'
    BY <1>12 DEF PrepareFails, CallInv, HandInv, Sending, Attempting, PreSubmit, list_non_terminal
  <1>13. CASE RejectLocally
    <2>1. cur \in Orders /\ row[cur] \in Row /\ ~row[cur].attempted
      BY <1>13, <1>t DEF RejectLocally, HandInv, PreSubmit
    <2>2. RejectedRow(row[cur]) \in Row /\ FitRow(row[cur], RejectedRow(row[cur]))
      BY <2>1, RowWrites, FitWrites
    <2>3. QED
      BY <1>13, <2>1, <2>2, TransitionControl DEF RejectLocally
  <1>14. ASSUME CreateIntent PROVE CallInv' /\ HandInv'
    BY <1>14 DEF CreateIntent, CallInv, HandInv, Sending, Attempting, PreSubmit, list_non_terminal
  <1>15. ASSUME CheckBlocks PROVE CallInv' /\ HandInv'
    BY <1>15, <1>l DEF PreSubmit, CheckBlocks, CallInv, HandInv, Sending, Attempting
  <1>16. CASE mark_submission_attempted
    <2>1. cur \in Orders /\ row[cur] \in Row /\ row[cur].status = "submitting" /\ todo' = {}
      BY <1>16, <1>t DEF mark_submission_attempted, CallInv, HandInv, PreSubmit, Sending
    <2>2. row'[cur].attempted /\ row'[cur].status = "submitting"
      BY <1>16, <2>1, <1>t DEF mark_submission_attempted, Row
    <2>3. \A o \in Orders : o # cur => row'[o] = row[o]
      BY <1>16, <1>t DEF mark_submission_attempted
    <2>4. RowsInv'
      BY <2>2, <2>3 DEF RowsInv
    <2>5. QED
      BY <1>16, <2>1, <2>2, <2>4 DEF mark_submission_attempted, CallInv, HandInv, Sending, Attempting
  <1>17. ASSUME Send PROVE CallInv' /\ HandInv'
    BY <1>17, <1>l DEF Send, CallInv, HandInv, Sending, Attempting
  <1>18. ASSUME CreateOrderResponse \/ FetchFinds PROVE CallInv' /\ HandInv'
    BY <1>18, <1>l DEF CreateOrderResponse, FetchFinds, Answered, CallInv, HandInv, Sending, Attempting
  <1>19. CASE CreateOrderAmbiguous
    <2>1. cur \in Orders /\ row[cur] \in Row /\ row[cur].attempted
      BY <1>19, <1>t DEF CreateOrderAmbiguous, HandInv
    <2>2. UnknownRow(row[cur]) \in Row /\ FitRow(row[cur], UnknownRow(row[cur]))
      BY <2>1, RowWrites, FitWrites
    <2>3. QED
      BY <1>19, <2>1, <2>2, TransitionControl DEF CreateOrderAmbiguous
  <1>20. CASE CreateOrderRefused
    <2>1. cur \in Orders /\ row[cur] \in Row
      BY <1>20, <1>t DEF CreateOrderRefused
    <2>2. RejectedRow(row[cur]) \in Row /\ FitRow(row[cur], RejectedRow(row[cur]))
      BY <2>1, RowWrites, FitWrites
    <2>3. QED
      BY <1>20, <2>1, <2>2, TransitionControl DEF CreateOrderRefused
  <1>21. CASE FetchFails \/ FetchInconclusive \/ FetchProvesAbsence \/ StoreMismatch
    <2>1. cur \in Orders /\ row[cur] \in Row /\ row[cur].attempted /\ pc \in {"fetch", "store"} /\ ledger' = ledger
      BY <1>21, <1>t DEF FetchFails, FetchInconclusive, FetchProvesAbsence, StoreMismatch, HandInv, Attempting
    <2>2. UnknownRow(row[cur]) \in Row /\ FitRow(row[cur], UnknownRow(row[cur]))
      BY <2>1, RowWrites, FitWrites
    <2>3. CASE TransitionAndReturn(UnknownRow(row[cur]))
      BY <2>1, <2>2, <2>3, TransitionControl
    <2>4. CASE FetchProvesAbsence
      <3>1. [row[cur] EXCEPT !.status = "unknown", !.absent = TRUE] \in Row
            /\ FitRow(row[cur], [row[cur] EXCEPT !.status = "unknown", !.absent = TRUE])
        BY <2>1, RowWrites, FitWrites
      <3>2. QED
        BY <2>1, <2>4, <3>1, TransitionControl DEF FetchProvesAbsence
    <2>5. CASE UNCHANGED row /\ Return
      BY <2>1, <2>5, <1>l, <1>r, <1>t, OrdersAssumption DEF Return, GoIdle, CallInv, HandInv, Sending, Attempting
    <2>6. CASE row[cur].status = "unknown" /\ row' = [row EXCEPT ![cur] = [@ EXCEPT !.absent = FALSE]] /\ Return
      <3>1. /\ row'[cur].status = row[cur].status /\ row'[cur].attempted = row[cur].attempted
            /\ row'[cur].filled = row[cur].filled /\ \A o \in Orders : o # cur => row'[o] = row[o]
        BY <2>1, <2>6, <1>t DEF Row
      <3>2. RowsInv' /\ list_non_terminal' = list_non_terminal
        BY <2>1, <3>1, <1>t DEF RowsInv, list_non_terminal
      <3>3. QED
        BY <2>1, <2>6, <3>1, <3>2, <1>t, OrdersAssumption DEF Return, GoIdle, CallInv, HandInv, Sending, Attempting
    <2>7. QED
      BY <1>21, <2>3, <2>4, <2>5, <2>6 DEF FetchFails, FetchInconclusive, StoreMismatch
  <1>25. ASSUME StoreTrade \/ StoreSynthetic PROVE CallInv' /\ HandInv'
    BY <1>25, <1>l, <1>r DEF StoreTrade, StoreSynthetic, CallInv, HandInv, Sending, Attempting
  <1>27. ASSUME StoreIgnoresOlder PROVE CallInv' /\ HandInv'
    BY <1>27, <1>l, <1>t, OrdersAssumption DEF StoreIgnoresOlder, Return, GoIdle, CallInv, HandInv, Sending, Attempting
  <1>28. CASE StoreRow
    <2>1. cur \in Orders /\ row[cur] \in Row /\ row[cur].attempted
      BY <1>28, <1>t DEF StoreRow, HandInv, Attempting
    <2>2. StoredRow(row[cur], pay) \in Row /\ FitRow(row[cur], StoredRow(row[cur], pay))
      BY <2>1, <1>t, StoredRowType, FitStore DEF StoredRow
    <2>3. QED
      BY <1>28, <2>1, <2>2, TransitionControl DEF StoreRow, StoredRow
  <1>29. CASE CancelResolved
    <2>1. CASE RequestCancel(cur)
      BY <1>29, <2>1, <1>t, RequestCancelControl DEF CancelResolved, CallInv
    <2>2. CASE GoIdle /\ UNCHANGED <<row, raised>>
      BY <1>29, <2>2, <1>r DEF CancelResolved, GoIdle, CallInv, HandInv, Sending, Attempting
    <2>3. QED
      BY <1>29, <2>1, <2>2 DEF CancelResolved
  <1>30. ASSUME CancelAnswered \/ CancelFails PROVE CallInv' /\ HandInv'
    BY <1>30, <1>l DEF CancelAnswered, CancelFails, CallInv, HandInv, Sending, Attempting
  <1>32. ASSUME RecoverDone PROVE CallInv' /\ HandInv'
    BY <1>32 DEF RecoverDone, GoIdle, CallInv, HandInv, Sending, Attempting
  <1>33. ASSUME Restart PROVE CallInv' /\ HandInv'
    BY <1>33, <1>l, <1>t, OrdersAssumption DEF Restart, CallInv, HandInv, Sending, Attempting, list_non_terminal
  <1>34. ASSUME Crash PROVE CallInv' /\ HandInv'
    BY <1>34 DEF Crash, CallInv, HandInv, Sending, Attempting
  <1>35. ASSUME NEW o \in Orders, TtlElapses(o) PROVE RowsInv' /\ CallInv' /\ HandInv'
    <2>1. /\ row'[o].status = row[o].status /\ row'[o].attempted = row[o].attempted
          /\ row'[o].filled = row[o].filled /\ \A p \in Orders : p # o => row'[p] = row[p]
      BY <1>35, <1>t DEF TtlElapses, Row
    <2>2. RowsInv' /\ list_non_terminal' = list_non_terminal
      BY <1>35, <2>1, <1>t DEF TtlElapses, RowsInv, list_non_terminal
    <2>3. QED
      BY <1>35, <2>2 DEF TtlElapses, CallInv, HandInv, Sending, Attempting
  <1>36. ASSUME NEW o \in Orders, OperatorResolves(o) PROVE RowsInv' /\ CallInv' /\ HandInv'
    <2>1. RowsInv'
      BY <1>36, ResolveControl DEF OperatorResolves
    <2>2. QED
      BY <1>36, <2>1 DEF OperatorResolves, CallInv, HandInv, Sending, Attempting
  <1>37. ASSUME NEW o \in Orders, RequestArrives(o) \/ RequestLost(o) \/ VenueFills(o) \/ VenueEnds(o)
         PROVE CallInv' /\ HandInv'
    BY <1>37, <1>l DEF PreSubmit, RequestArrives, RequestLost, VenueFills, VenueEnds, CallInv, HandInv, Sending, Attempting
  <1>41. ASSUME UNCHANGED vars PROVE CallInv' /\ HandInv'
    BY <1>41, <1>l DEF PreSubmit, vars, CallInv, HandInv, Sending, Attempting
  <1>r1. ASSUME NEW o \in Orders, Reserve(o) \/ Block(o) \/ Resume(o) \/ Replay(o) \/ CancelUnknown(o)
                                 \/ RecoverRaises(o) \/ RecoverSkips(o) \/ RecoverReconciles(o)
                                 \/ RequestArrives(o) \/ RequestLost(o) \/ VenueFills(o) \/ VenueEnds(o)
         PROVE UNCHANGED row
    BY <1>r1 DEF Reserve, Block, Resume, Replay, CancelUnknown, RecoverRaises, RecoverSkips, RecoverReconciles,
                 RequestArrives, RequestLost, VenueFills, VenueEnds
  <1>r2. ASSUME StartRecovery \/ PrepareFails \/ CreateIntent \/ CheckBlocks \/ Send \/ CreateOrderResponse
                \/ FetchFinds \/ StoreTrade \/ StoreSynthetic \/ StoreIgnoresOlder \/ CancelAnswered \/ CancelFails \/ RecoverDone
                \/ Restart \/ Crash \/ UNCHANGED vars
         PROVE UNCHANGED row
    BY <1>r2 DEF StartRecovery, PrepareFails, CreateIntent, CheckBlocks, Send, CreateOrderResponse, FetchFinds,
                 Answered, StoreTrade, StoreSynthetic, StoreIgnoresOlder, CancelAnswered, CancelFails, RecoverDone, Restart, Crash, vars
  <1>42. QED
    BY <1>1, <1>2, <1>3, <1>4, <1>5, <1>6, <1>7, <1>8, <1>9, <1>10, <1>11, <1>12, <1>13, <1>14, <1>15, <1>16,
       <1>17, <1>18, <1>19, <1>20, <1>21, <1>25, <1>27, <1>28, <1>29, <1>30, <1>32, <1>33, <1>34, <1>35, <1>36,
       <1>37, <1>41, <1>r, <1>r1, <1>r2
    DEF Next, Begin, Continue, Environment

LEMMA ControlInvariant == Spec => []ControlInv
  BY ControlInit, ControlStep, PTL DEF Spec

-----------------------------------------------------------------------------
(* What the venue holds and what the ledger knows of it: a request under    *)
(* way has not arrived, what the venue executes never shrinks, and neither  *)
(* rows, trades nor the payload in hand are ahead of it.                    *)
VenueInv ==
    \A o \in Orders :
        /\ o \in inFlight => venue[o].status = "nothing" /\ sent[o] # 0
        /\ sent[o] = 0 => venue[o].status = "nothing"
        /\ venue[o].status = "nothing" => venue[o].filled = 0
        /\ venue[o].status = "open" => venue[o].filled < Qty
TrailInv ==
    /\ LedgerTrailsVenue
    /\ pc = "store" => VenueKnows(cur) /\ pay.filled <= venue[cur].filled
FactsInv == ControlInv /\ VenueInv /\ TrailInv

(* The venue never takes back a fill. *)
VenueGrows == \A o \in Orders : /\ venue'[o].filled >= venue[o].filled
                                /\ venue[o].status # "nothing" => venue'[o].status # "nothing"

LEMMA SnapshotsTrail ==
    ASSUME FactsInv, NEW o \in Orders, VenueKnows(o), NEW p, Genuine(o, p)
    PROVE  p.filled <= venue[o].filled
  <1>1. venue[o].filled \in Nat
    BY QtyAssumption DEF FactsInv, ControlInv, SubmissionInv, TypeInv, TypeOK, VenueFact
  <1>2. \A s \in Snapshots(o) : s.filled <= venue[o].filled
    BY <1>1 DEF Snapshots
  <1>3. QED
    BY <1>2 DEF Genuine

LEMMA VenueInit == Init => FactsInv
  <1> SUFFICES ASSUME Init PROVE FactsInv
    OBVIOUS
  <1>1. ControlInv
    BY ControlInit
  <1>2. VenueInv /\ TrailInv
    BY QtyAssumption DEF Init, VenueInv, TrailInv, LedgerTrailsVenue, NewRow
  <1>3. QED
    BY <1>1, <1>2 DEF FactsInv

LEMMA VenueStep == FactsInv /\ [Next]_vars => VenueInv' /\ VenueGrows
  <1> SUFFICES ASSUME FactsInv, [Next]_vars PROVE VenueInv' /\ VenueGrows
    OBVIOUS
  <1>t. /\ venue \in [Orders -> VenueFact] /\ sent \in [Orders -> Nat] /\ VenueInv
        /\ pc \notin {"down", "idle", "recover"} => cur \in Orders
        /\ \A o \in Orders : venue[o].filled \in Nat /\ venue[o].filled <= Qty /\ Qty > 0
        /\ Qty \in Nat
    BY QtyAssumption DEF FactsInv, ControlInv, SubmissionInv, TypeInv, TypeOK, CurOK, VenueFact
  <1> USE DEF durable, outside, process
  <1>u. ASSUME UNCHANGED <<venue, inFlight, sent>> PROVE VenueInv' /\ VenueGrows
    BY <1>u, <1>t DEF VenueInv, VenueGrows
  <1>1. CASE Send
    <2>1. sent[cur] = 0 /\ cur \in Orders
      BY <1>1, <1>t DEF Send, FactsInv, ControlInv, SubmissionInv, BeforeSend
    <2>2. QED
      BY <1>1, <2>1, <1>t DEF Send, VenueInv, VenueGrows
  <1>2. CASE CreateOrderRefused
    BY <1>2, <1>t DEF CreateOrderRefused, VenueInv, VenueGrows
  <1>3. CASE CancelAnswered \/ CancelFails
    <2>1. cur \in Orders /\ UNCHANGED <<inFlight, sent>>
      BY <1>3, <1>t DEF CancelAnswered, CancelFails
    <2>2. CASE VenueKnows(cur) /\ CanceledAtVenue(cur)
      <3>1. /\ venue'[cur].filled = venue[cur].filled /\ venue'[cur].status # "nothing"
            /\ venue'[cur].status # "open"
            /\ \A o \in Orders : o # cur => venue'[o] = venue[o]
        BY <2>1, <2>2, <1>t DEF VenueKnows, CanceledAtVenue, VenueFact
      <3>2. sent[cur] # 0 /\ cur \notin inFlight
        BY <2>1, <2>2, <1>t DEF VenueKnows, VenueInv
      <3>3. QED
        BY <2>1, <3>1, <3>2, <1>t DEF VenueInv, VenueGrows
    <2>3. QED
      BY <1>3, <1>u, <2>1, <2>2 DEF CancelAnswered, CancelFails
  <1>4. ASSUME NEW o \in Orders, RequestArrives(o) PROVE VenueInv' /\ VenueGrows
    BY <1>4, <1>t DEF RequestArrives, VenueInv, VenueGrows, VenueFact
  <1>5. ASSUME NEW o \in Orders, RequestLost(o) PROVE VenueInv' /\ VenueGrows
    BY <1>5, <1>t DEF RequestLost, VenueInv, VenueGrows
  <1>6. ASSUME NEW o \in Orders, VenueFills(o) PROVE VenueInv' /\ VenueGrows
    <2>1. /\ venue'[o].filled = venue[o].filled + 1 /\ venue'[o].status # "nothing"
          /\ venue[o].status # "nothing"
          /\ venue'[o].status = "open" => venue'[o].filled < Qty
          /\ \A p \in Orders : p # o => venue'[p] = venue[p]
      BY <1>6, <1>t DEF VenueFills, VenueFact
    <2>2. QED
      BY <1>6, <2>1, <1>t DEF VenueFills, VenueInv, VenueGrows
  <1>7. ASSUME NEW o \in Orders, VenueEnds(o) PROVE VenueInv' /\ VenueGrows
    <2>1. /\ venue'[o].filled = venue[o].filled /\ venue'[o].status \in {"expired", "rejected"}
          /\ venue[o].status = "open"
          /\ \A p \in Orders : p # o => venue'[p] = venue[p]
      BY <1>7, <1>t DEF VenueEnds, VenueFact
    <2>2. QED
      BY <1>7, <2>1, <1>t DEF VenueEnds, VenueInv, VenueGrows
  <1>8. ASSUME NEW o \in Orders, Reserve(o) \/ Block(o) \/ Resume(o) \/ Replay(o) \/ Cancel(o)
               \/ CancelUnknown(o) \/ RecoverExpires(o) \/ RecoverRaises(o) \/ RecoverSkips(o)
               \/ RecoverReconciles(o) \/ TtlElapses(o) \/ OperatorResolves(o)
        PROVE  UNCHANGED <<venue, inFlight, sent>>
    BY <1>8 DEF Reserve, Block, Resume, Replay, Cancel, CancelUnknown, RecoverExpires, RecoverRaises,
                RecoverSkips, RecoverReconciles, TtlElapses, OperatorResolves
  <1>9. ASSUME StartRecovery \/ PrepareFails \/ RejectLocally \/ CreateIntent \/ CheckBlocks
               \/ mark_submission_attempted \/ CreateOrderResponse \/ CreateOrderAmbiguous \/ FetchFails
               \/ FetchInconclusive \/ FetchProvesAbsence \/ FetchFinds \/ StoreMismatch \/ StoreTrade
               \/ StoreSynthetic \/ StoreIgnoresOlder \/ StoreRow \/ CancelResolved \/ RecoverDone
               \/ Restart \/ Crash \/ UNCHANGED vars
        PROVE  UNCHANGED <<venue, inFlight, sent>>
    BY <1>9 DEF StartRecovery, PrepareFails, RejectLocally, CreateIntent, CheckBlocks,
                mark_submission_attempted, CreateOrderResponse, CreateOrderAmbiguous, FetchFails,
                FetchInconclusive, FetchProvesAbsence, FetchFinds, Answered, StoreMismatch, StoreTrade,
                StoreSynthetic, StoreIgnoresOlder, StoreRow, CancelResolved, RecoverDone, Restart, Crash, vars
  <1>10. QED
    BY <1>u, <1>1, <1>2, <1>3, <1>4, <1>5, <1>6, <1>7, <1>8, <1>9 DEF Next, Begin, Continue, Environment

(* What a step writes of fills and rows: only a payload in hand raises      *)
(* them, and only as far as the payload says.                               *)
FillsStep ==
    \/ /\ UNCHANGED fills
       /\ \A o \in Orders : row'[o].filled = row[o].filled
    \/ /\ pc = "store" /\ pay.identity /\ UNCHANGED row
       /\ \A o \in Orders : o # cur => fills'[o] = fills[o]
       /\ \/ fills'[cur].real = fills[cur].real + 1 /\ fills'[cur].synthetic = fills[cur].synthetic
             /\ fills[cur].real < pay.filled /\ pay.detail = "trades"
          \/ fills'[cur].real = fills[cur].real /\ pay.detail = "average"
             /\ fills'[cur].synthetic = pay.filled - fills[cur].real
             /\ fills[cur].real + fills[cur].synthetic < pay.filled
    \/ /\ pc = "store" /\ UNCHANGED fills
       /\ ~MissingTrades /\ ~MissingSynthetic
       /\ \A o \in Orders : o # cur => row'[o] = row[o]
       /\ row'[cur].filled = pay.filled /\ pay.filled >= row[cur].filled

LEMMA FilledWrites ==
    ASSUME NEW r \in Row
    PROVE  /\ UnknownRow(r).filled = r.filled /\ RejectedRow(r).filled = r.filled
           /\ CancelPending(r).filled = r.filled
           /\ [r EXCEPT !.status = "unknown", !.absent = TRUE].filled = r.filled
           /\ [r EXCEPT !.absent = FALSE].filled = r.filled
           /\ [r EXCEPT !.expired = TRUE].filled = r.filled
           /\ [r EXCEPT !.attempted = TRUE, !.expired = FALSE].filled = r.filled
           /\ [r EXCEPT !.status = "expired_unsubmitted", !.absent = FALSE, !.expired = FALSE].filled = r.filled
           /\ \A p : StoredRow(r, p).filled = p.filled
  BY DEF Row, UnknownRow, RejectedRow, CancelPending, StoredRow

LEMMA FillsSteps == ControlInv /\ [Next]_vars => FillsStep
  <1> SUFFICES ASSUME ControlInv, [Next]_vars PROVE FillsStep
    OBVIOUS
  <1>t. /\ row \in [Orders -> Row] /\ pay \in Payload
        /\ fills \in [Orders -> [real : 0 .. Qty, synthetic : 0 .. Qty]]
        /\ pc \notin {"down", "idle", "recover"} => cur \in Orders
    BY DEF ControlInv, SubmissionInv, TypeInv, TypeOK, CurOK
  <1>k. ASSUME UNCHANGED fills, NEW o \in Orders, NEW new, new.filled = row[o].filled,
               row' = [row EXCEPT ![o] = new]
        PROVE  FillsStep
    BY <1>k, <1>t DEF FillsStep
  <1>m. ASSUME UNCHANGED fills, cur \in Orders, NEW new, new.filled = row[cur].filled, TransitionAndReturn(new)
        PROVE  FillsStep
    <2>1. CASE row' = [row EXCEPT ![cur] = new]
      BY <1>m, <2>1, <1>k
    <2>2. CASE UNCHANGED row
      BY <1>m, <2>2 DEF FillsStep
    <2>3. QED
      BY <1>m, <2>1, <2>2 DEF TransitionAndReturn
  <1> USE DEF durable, outside, process
  <1>u. ASSUME UNCHANGED <<row, fills>> PROVE FillsStep
    BY <1>u DEF FillsStep
  <1>1. ASSUME NEW o \in Orders, Cancel(o) \/ RecoverExpires(o) \/ TtlElapses(o) \/ OperatorResolves(o)
        PROVE  FillsStep
    <2>1. row[o] \in Row /\ UNCHANGED fills
      BY <1>1, <1>t DEF Cancel, RecoverExpires, TtlElapses, OperatorResolves
    <2>2. CASE UNCHANGED row
      BY <2>1, <2>2, <1>u
    <2>3. CASE RequestCancel(o)
      BY <2>1, <2>3, <1>k, FilledWrites DEF RequestCancel
    <2>4. CASE row' = [row EXCEPT ![o] = [row[o] EXCEPT !.expired = TRUE]]
      BY <2>1, <2>4, <1>k, FilledWrites
    <2>5. CASE row' = [row EXCEPT ![o] = [row[o] EXCEPT !.status = "expired_unsubmitted", !.absent = FALSE, !.expired = FALSE]]
      BY <2>1, <2>5, <1>k, FilledWrites
    <2>6. QED
      BY <1>1, <2>2, <2>3, <2>4, <2>5 DEF Cancel, RecoverExpires, TtlElapses, OperatorResolves, ResolveAsUnsubmitted
  <1>2. CASE RejectLocally \/ CreateOrderAmbiguous \/ CreateOrderRefused \/ FetchFails \/ FetchInconclusive
             \/ FetchProvesAbsence \/ StoreMismatch
    <2>1. cur \in Orders /\ row[cur] \in Row /\ UNCHANGED fills
      BY <1>2, <1>t DEF RejectLocally, CreateOrderAmbiguous, CreateOrderRefused, FetchFails, FetchInconclusive,
                        FetchProvesAbsence, StoreMismatch
    <2>2. CASE UNCHANGED row
      BY <2>1, <2>2, <1>u
    <2>3. CASE \/ TransitionAndReturn(UnknownRow(row[cur])) \/ TransitionAndReturn(RejectedRow(row[cur]))
               \/ TransitionAndReturn([row[cur] EXCEPT !.status = "unknown", !.absent = TRUE])
      BY <2>1, <2>3, <1>m, FilledWrites
    <2>4. CASE row' = [row EXCEPT ![cur] = [row[cur] EXCEPT !.absent = FALSE]]
      BY <2>1, <2>4, <1>k, FilledWrites
    <2>5. QED
      BY <1>2, <2>2, <2>3, <2>4 DEF RejectLocally, CreateOrderAmbiguous, CreateOrderRefused, FetchFails,
                                    FetchInconclusive, FetchProvesAbsence, StoreMismatch
  <1>3. CASE mark_submission_attempted
    <2>1. cur \in Orders /\ row[cur] \in Row /\ UNCHANGED fills
      BY <1>3, <1>t DEF mark_submission_attempted
    <2>2. row' = [row EXCEPT ![cur] = [row[cur] EXCEPT !.attempted = TRUE, !.expired = FALSE]]
      BY <1>3 DEF mark_submission_attempted
    <2>3. QED
      BY <2>1, <2>2, <1>k, FilledWrites
  <1>4. CASE StoreTrade
    BY <1>4, <1>t DEF StoreTrade, MissingTrades, FillsStep
  <1>5. CASE StoreSynthetic
    BY <1>5, <1>t DEF StoreSynthetic, MissingSynthetic, FillsStep
  <1>6. CASE StoreRow
    <2>1. cur \in Orders /\ row[cur] \in Row /\ UNCHANGED fills
      BY <1>6, <1>t DEF StoreRow
    <2>2. CASE row' = [row EXCEPT ![cur] = StoredRow(row[cur], pay)]
      BY <1>6, <2>1, <2>2, <1>t, FilledWrites DEF StoreRow, FillsStep
    <2>3. CASE UNCHANGED row
      BY <2>1, <2>3, <1>u
    <2>4. QED
      BY <1>6, <2>2, <2>3 DEF StoreRow, TransitionAndReturn, StoredRow
  <1>7. CASE CancelResolved
    <2>1. cur \in Orders /\ row[cur] \in Row /\ UNCHANGED fills
      BY <1>7, <1>t DEF CancelResolved
    <2>2. CASE UNCHANGED row
      BY <2>1, <2>2, <1>u
    <2>3. CASE RequestCancel(cur)
      BY <2>1, <2>3, <1>k, FilledWrites DEF RequestCancel
    <2>4. QED
      BY <1>7, <2>2, <2>3 DEF CancelResolved
  <1>8. ASSUME NEW o \in Orders, Reserve(o) \/ Block(o) \/ Resume(o) \/ Replay(o)
               \/ CancelUnknown(o) \/ RecoverRaises(o) \/ RecoverSkips(o) \/ RecoverReconciles(o)
               \/ RequestArrives(o) \/ RequestLost(o) \/ VenueFills(o) \/ VenueEnds(o)
        PROVE  UNCHANGED <<row, fills>>
    BY <1>8 DEF Reserve, Block, Resume, Replay, CancelUnknown, RecoverRaises, RecoverSkips, RecoverReconciles,
                RequestArrives, RequestLost, VenueFills, VenueEnds
  <1>9. ASSUME StartRecovery \/ PrepareFails \/ CreateIntent \/ CheckBlocks \/ Send \/ CreateOrderResponse
               \/ FetchFinds \/ StoreIgnoresOlder \/ CancelAnswered \/ CancelFails \/ RecoverDone
               \/ Restart \/ Crash \/ UNCHANGED vars
        PROVE  UNCHANGED <<row, fills>>
    BY <1>9 DEF StartRecovery, PrepareFails, CreateIntent, CheckBlocks, Send, CreateOrderResponse, FetchFinds,
                Answered, StoreIgnoresOlder, CancelAnswered, CancelFails, RecoverDone, Restart, Crash, vars
  <1>10. QED
    BY <1>u, <1>1, <1>2, <1>3, <1>4, <1>5, <1>6, <1>7, <1>8, <1>9 DEF Next, Begin, Continue, Environment

(* Where the payload in hand comes from: it was there before, or the venue  *)
(* has just given it about an order it knows.                               *)
HandStep ==
    pc' = "store" =>
        /\ cur' = cur /\ cur \in Orders /\ UNCHANGED row
        /\ \/ pc = "store" /\ UNCHANGED pay
           \/ /\ pc \in {"await", "fetch"} /\ UNCHANGED venue
              /\ VenueKnows(cur) /\ Genuine(cur, pay') /\ pay'.detail \in Details
           \/ /\ pc = "cancel" /\ VenueKnows(cur) /\ CanceledAtVenue(cur)
              /\ pay'.raw = venue'[cur].status /\ pay'.filled = venue[cur].filled
              /\ pay'.detail \in Details

LEMMA HandSteps == ControlInv /\ [Next]_vars => HandStep
  <1> SUFFICES ASSUME ControlInv, [Next]_vars PROVE HandStep
    OBVIOUS
  <1>t. pc \notin {"down", "idle", "recover"} => cur \in Orders
    BY DEF ControlInv, SubmissionInv, TypeInv, CurOK
  <1> USE DEF durable, outside, process
  <1>1. CASE CreateOrderResponse \/ FetchFinds
    <2>1. PICK p \in Responses(cur) : Answered(p) /\ pc \in {"await", "fetch"}
      BY <1>1 DEF CreateOrderResponse, FetchFinds
    <2>2. p.detail \in Details
      BY DEF Responses
    <2>3. QED
      BY <2>1, <2>2, <1>t DEF Answered, HandStep
  <1>2. CASE CancelAnswered
    BY <1>2, <1>t DEF CancelAnswered, HandStep
  <1>3. CASE StoreTrade \/ StoreSynthetic
    BY <1>3, <1>t DEF StoreTrade, StoreSynthetic, HandStep
  <1>4. ASSUME NEW o \in Orders, RequestArrives(o) \/ RequestLost(o) \/ VenueFills(o) \/ VenueEnds(o)
        PROVE  HandStep
    BY <1>4, <1>t DEF RequestArrives, RequestLost, VenueFills, VenueEnds, HandStep
  <1>5. CASE UNCHANGED vars
    BY <1>5, <1>t DEF vars, HandStep
  <1>6. ASSUME NEW new, TransitionAndReturn(new) PROVE pc' # "store"
    BY <1>6 DEF TransitionAndReturn, Return, Raise, GoIdle
  <1>7. CASE RejectLocally \/ CreateOrderAmbiguous \/ CreateOrderRefused \/ FetchFails \/ FetchInconclusive
             \/ FetchProvesAbsence \/ StoreMismatch \/ StoreIgnoresOlder \/ StoreRow
    <2>1. (\E new : TransitionAndReturn(new)) \/ Return
      BY <1>7 DEF RejectLocally, CreateOrderAmbiguous, CreateOrderRefused, FetchFails, FetchInconclusive,
                  FetchProvesAbsence, StoreMismatch, StoreIgnoresOlder, StoreRow
    <2>2. Return => pc' # "store"
      BY DEF Return, GoIdle
    <2>3. QED
      BY <2>1, <2>2, <1>6 DEF HandStep
  <1>8. ASSUME NEW o \in Orders, Reserve(o) \/ Block(o) \/ Resume(o) \/ Replay(o) \/ Cancel(o)
               \/ CancelUnknown(o) \/ RecoverExpires(o) \/ RecoverRaises(o) \/ RecoverSkips(o)
               \/ RecoverReconciles(o) \/ TtlElapses(o) \/ OperatorResolves(o)
        PROVE  pc' # "store"
    BY <1>8 DEF Reserve, Block, Resume, Replay, Cancel, RequestCancel, CancelUnknown, RecoverExpires, RecoverRaises,
                RecoverSkips, RecoverReconciles, TtlElapses, OperatorResolves, Raise, GoIdle
  <1>9. ASSUME StartRecovery \/ PrepareFails \/ CreateIntent \/ CheckBlocks \/ mark_submission_attempted
               \/ Send \/ CancelResolved \/ CancelFails \/ RecoverDone \/ Restart \/ Crash
        PROVE  pc' # "store"
    BY <1>9 DEF StartRecovery, PrepareFails, CreateIntent, CheckBlocks, mark_submission_attempted, Send,
                CancelResolved, RequestCancel, GoIdle, CancelFails, RecoverDone, Restart, Crash
  <1>10. QED
    BY <1>1, <1>2, <1>3, <1>4, <1>5, <1>7, <1>8, <1>9 DEF Next, Begin, Continue, Environment, HandStep

LEMMA TrailStep == FactsInv /\ [Next]_vars => TrailInv'
  <1> SUFFICES ASSUME FactsInv, [Next]_vars PROVE TrailInv'
    OBVIOUS
  <1>1. VenueGrows /\ FillsStep /\ HandStep
    BY VenueStep, FillsSteps, HandSteps DEF FactsInv
  <1>t. /\ row \in [Orders -> Row] /\ pay \in Payload /\ pay' \in Payload
        /\ fills \in [Orders -> [real : 0 .. Qty, synthetic : 0 .. Qty]]
        /\ venue \in [Orders -> VenueFact] /\ venue' \in [Orders -> VenueFact]
        /\ pc \notin {"down", "idle", "recover"} => cur \in Orders
    BY TypeStep DEF FactsInv, ControlInv, SubmissionInv, TypeInv, TypeOK, CurOK
  <1>n. /\ Qty \in Nat /\ pay.filled \in Nat
        /\ \A o \in Orders : /\ venue[o].filled \in Nat /\ venue'[o].filled \in Nat
                             /\ row[o].filled \in Nat /\ fills[o].real \in Nat
    BY <1>t, QtyAssumption DEF VenueFact, Row, Payload
  <1>2. LedgerTrailsVenue'
    <2>1. CASE UNCHANGED fills /\ \A o \in Orders : row'[o].filled = row[o].filled
      BY <2>1, <1>1, <1>n DEF FactsInv, TrailInv, LedgerTrailsVenue, VenueGrows
    <2>2. CASE pc = "store" /\ UNCHANGED row /\ \A o \in Orders : o # cur => fills'[o] = fills[o]
      <3>1. cur \in Orders /\ pay.filled <= venue[cur].filled
        BY <2>2, <1>t DEF FactsInv, TrailInv
      <3>2. CASE fills'[cur].real = fills[cur].real
        BY <2>2, <3>1, <3>2, <1>1, <1>n DEF FactsInv, TrailInv, LedgerTrailsVenue, VenueGrows
      <3>3. CASE fills'[cur].real = fills[cur].real + 1 /\ fills[cur].real < pay.filled
        <4>1. fills'[cur].real <= venue'[cur].filled
          BY <3>1, <3>3, <1>1, <1>n DEF VenueGrows
        <4>2. QED
          BY <2>2, <3>1, <4>1, <1>1, <1>n DEF FactsInv, TrailInv, LedgerTrailsVenue, VenueGrows
      <3>4. CASE UNCHANGED fills
        BY <2>2, <3>4, <1>1, <1>n DEF FactsInv, TrailInv, LedgerTrailsVenue, VenueGrows
      <3>5. QED
        BY <2>2, <3>2, <3>3, <3>4, <1>1 DEF FillsStep
    <2>3. CASE /\ pc = "store" /\ UNCHANGED fills /\ row'[cur].filled = pay.filled
               /\ \A o \in Orders : o # cur => row'[o] = row[o]
      <3>1. cur \in Orders /\ pay.filled <= venue[cur].filled
        BY <2>3, <1>t DEF FactsInv, TrailInv
      <3>2. QED
        BY <2>3, <3>1, <1>1, <1>n DEF FactsInv, TrailInv, LedgerTrailsVenue, VenueGrows
    <2>4. QED
      BY <2>1, <2>2, <2>3, <1>1 DEF FillsStep
  <1>3. ASSUME pc' = "store" PROVE VenueKnows(cur)' /\ pay'.filled <= venue'[cur'].filled
    <2>1. cur' = cur /\ cur \in Orders
      BY <1>1, <1>3 DEF HandStep
    <2>2. VenueKnows(cur) /\ pay'.filled <= venue[cur].filled
      BY <1>1, <1>3, <1>n, <2>1, SnapshotsTrail DEF HandStep, FactsInv, TrailInv
    <2>3. pay'.filled \in Nat
      BY <1>t, QtyAssumption DEF Payload
    <2>4. QED
      BY <2>1, <2>2, <2>3, <1>1, <1>n DEF VenueGrows, VenueKnows
  <1>4. QED
    BY <1>2, <1>3 DEF TrailInv

LEMMA FactsStep == FactsInv /\ [Next]_vars => FactsInv'
  BY ControlStep, VenueStep, TrailStep DEF FactsInv

LEMMA FactsInvariant == Spec => []FactsInv
  BY VenueInit, FactsStep, PTL DEF Spec

(* The ledger never says more than the venue executed: neither the row nor  *)
(* the trades on record, however stale the lookups and whatever crashes     *)
(* between the fills and the row.                                           *)
THEOREM LedgerNeverAhead == Spec => []LedgerTrailsVenue
  <1>1. FactsInv => LedgerTrailsVenue
    BY DEF FactsInv, TrailInv
  <1>2. QED
    BY FactsInvariant, <1>1, PTL

(* A row never shows more than the fill records say, when every payload     *)
(* with a fill carries its trades or an average price to make one from.     *)
Priced == "none" \notin Details
BackInv == FactsInv /\ FillsBackRow /\ (pc = "store" => pay.detail \in Details)

LEMMA BackStep == Priced /\ BackInv /\ [Next]_vars => BackInv'
  <1> SUFFICES ASSUME Priced, BackInv, [Next]_vars PROVE BackInv'
    OBVIOUS
  <1>1. FactsInv' /\ FillsStep /\ HandStep
    BY FactsStep, FillsSteps, HandSteps DEF BackInv, FactsInv
  <1>t. /\ row \in [Orders -> Row] /\ pay \in Payload
        /\ fills \in [Orders -> [real : 0 .. Qty, synthetic : 0 .. Qty]]
        /\ pc \notin {"down", "idle", "recover"} => cur \in Orders
    BY DEF BackInv, FactsInv, ControlInv, SubmissionInv, TypeInv, TypeOK, CurOK
  <1>n. /\ Qty \in Nat /\ pay.filled \in Nat
        /\ \A o \in Orders : /\ fills[o].synthetic \in Nat /\ fills[o].real \in Nat
                             /\ row[o].filled \in Nat
    BY <1>t, QtyAssumption DEF Row, Payload
  <1>2. FillsBackRow'
    <2>1. CASE UNCHANGED fills /\ \A o \in Orders : row'[o].filled = row[o].filled
      BY <2>1 DEF BackInv, FillsBackRow
    <2>2. CASE /\ UNCHANGED row /\ \A o \in Orders : o # cur => fills'[o] = fills[o]
               /\ fills'[cur].real + fills'[cur].synthetic >= fills[cur].real + fills[cur].synthetic
               /\ fills'[cur].real + fills'[cur].synthetic \in Nat
      BY <2>2, <1>n DEF BackInv, FillsBackRow
    <2>3. CASE /\ pc = "store" /\ UNCHANGED fills /\ ~MissingTrades /\ ~MissingSynthetic
               /\ row'[cur].filled = pay.filled
               /\ \A o \in Orders : o # cur => row'[o] = row[o]
      <3>1. cur \in Orders /\ pay.detail \in {"trades", "average"}
        BY <2>3, <1>t, DetailsAssumption DEF BackInv, Priced
      <3>2. pay.filled <= fills[cur].real + fills[cur].synthetic
        BY <2>3, <3>1, <1>n DEF MissingTrades, MissingSynthetic
      <3>3. QED
        BY <2>3, <3>1, <3>2 DEF BackInv, FillsBackRow
    <2>4. ASSUME pc = "store",
                 \/ /\ fills'[cur].real = fills[cur].real + 1
                    /\ fills'[cur].synthetic = fills[cur].synthetic
                 \/ /\ fills'[cur].real = fills[cur].real
                    /\ fills'[cur].synthetic = pay.filled - fills[cur].real
                    /\ fills[cur].real + fills[cur].synthetic < pay.filled
          PROVE  /\ fills'[cur].real + fills'[cur].synthetic >= fills[cur].real + fills[cur].synthetic
                 /\ fills'[cur].real + fills'[cur].synthetic \in Nat
      <3>1. cur \in Orders
        BY <2>4, <1>t
      <3>2. QED
        BY <2>4, <3>1, <1>n
    <2>5. QED
      BY <2>1, <2>2, <2>3, <2>4, <1>1 DEF FillsStep
  <1>3. pc' = "store" => pay'.detail \in Details
    BY <1>1 DEF HandStep, BackInv
  <1>4. QED
    BY <1>1, <1>2, <1>3 DEF BackInv

(* What the ledger says is executed is on record and true, at every crash   *)
(* point between the fills and the row (_persist_fills, then                *)
(* _persist_exchange_payload).                                              *)
THEOREM LedgerIsSound == Priced /\ Spec => []LedgerSound
  <1> SUFFICES ASSUME Priced PROVE Spec => []LedgerSound
    OBVIOUS
  <1>1. Init => BackInv
    <2>1. ASSUME Init PROVE FillsBackRow
      BY <2>1 DEF Init, FillsBackRow, NewRow
    <2>2. QED
      BY VenueInit, <2>1 DEF Init, BackInv
  <1>2. BackInv => LedgerSound
    BY DEF BackInv, FactsInv, TrailInv, LedgerSound
  <1>3. BackInv /\ [Next]_vars => BackInv'
    BY BackStep
  <1>4. QED
    BY <1>1, <1>2, <1>3, PTL DEF Spec

(* An observed fill is never taken back.                                    *)
THEOREM FillsAreNeverTakenBack == Spec => FilledNeverShrinks
  <1>1. ControlInv /\ [Next]_vars => [\A o \in Orders : row'[o].filled >= row[o].filled]_vars
    <2> SUFFICES ASSUME ControlInv, [Next]_vars PROVE \A o \in Orders : row'[o].filled >= row[o].filled
      OBVIOUS
    <2>1. FillsStep
      BY FillsSteps
    <2>2. \A o \in Orders : row[o].filled \in Nat
      BY QtyAssumption DEF ControlInv, SubmissionInv, TypeInv, TypeOK, Row
    <2>3. QED
      BY <2>1, <2>2 DEF FillsStep
  <1>2. QED
    BY ControlInvariant, <1>1, PTL DEF Spec, FilledNeverShrinks

-----------------------------------------------------------------------------
(* What a step can do to the orders table: nothing that matters, the mark,  *)
(* a move of one row to one of four statuses, or the payload in hand.       *)
SameRows ==
    \A o \in Orders : /\ row'[o].status = row[o].status /\ row'[o].attempted = row[o].attempted
                      /\ row'[o].filled = row[o].filled /\ (row'[o].absent => row[o].absent)

Moved(o, s) ==
    /\ row[o].status = s \/ s \in Allowed[row[o].status]
    /\ row'[o].status = s /\ row'[o].attempted = row[o].attempted
    /\ row'[o].filled = row[o].filled
    /\ row'[o].absent => row[o].absent \/ (s = "unknown" /\ "absence" \in Faults)
    /\ \A p \in Orders : p # o => row'[p] = row[p]
    /\ UNCHANGED <<ledger, fills, dailyUsed, venue, sent>>

MovedUnknown(o) == Moved(o, "unknown") /\ UNCHANGED inFlight
MovedCancel(o) == Moved(o, "cancel_pending") /\ UNCHANGED inFlight
MovedRejected(o) ==
    /\ Moved(o, "rejected") /\ o = cur
    /\ \/ pc = "reject" /\ UNCHANGED inFlight
       \/ pc = "await" /\ o \in inFlight /\ inFlight' = inFlight \ {o}
MovedUnsubmitted(o) ==
    /\ Moved(o, "expired_unsubmitted") /\ UNCHANGED inFlight /\ MayResolveAsUnsubmitted(o)
    /\ \/ PreSubmit(o)
       \/ ProvenAbsent(o)
       \/ (VenueKnows(o) \/ o \in inFlight) => "operator_error" \in Faults

Stored ==
    /\ pc = "store" /\ cur \in Orders /\ pay.filled >= row[cur].filled
    /\ ~MissingTrades /\ ~MissingSynthetic
    /\ ValidTransition(row[cur].status, ParsedStatus(pay.raw, pay.filled, Qty))
    /\ row' = [row EXCEPT ![cur] = StoredRow(row[cur], pay)]
    /\ UNCHANGED <<ledger, fills, dailyUsed, outside>>

RowStep ==
    \/ SameRows
    \/ mark_submission_attempted
    \/ \E o \in ledger : MovedUnknown(o) \/ MovedCancel(o) \/ MovedRejected(o) \/ MovedUnsubmitted(o)
    \/ Stored

LEMMA MovedWrites ==
    ASSUME NEW o \in Orders, row \in [Orders -> Row],
           UNCHANGED <<ledger, fills, dailyUsed, venue, sent>>
    PROVE  /\ (/\ ValidTransition(row[o].status, "unknown")
               /\ row' = [row EXCEPT ![o] = UnknownRow(row[o])])
                => Moved(o, "unknown")
           /\ (/\ ValidTransition(row[o].status, "unknown") /\ "absence" \in Faults
               /\ row' = [row EXCEPT ![o] = [row[o] EXCEPT !.status = "unknown", !.absent = TRUE]])
                => Moved(o, "unknown")
           /\ (/\ ValidTransition(row[o].status, "cancel_pending")
               /\ row' = [row EXCEPT ![o] = CancelPending(row[o])])
                => Moved(o, "cancel_pending")
           /\ (/\ ValidTransition(row[o].status, "rejected")
               /\ row' = [row EXCEPT ![o] = RejectedRow(row[o])])
                => Moved(o, "rejected")
           /\ (/\ MayResolveAsUnsubmitted(o)
               /\ row' = [row EXCEPT ![o] = [@ EXCEPT !.status = "expired_unsubmitted",
                                                       !.absent = FALSE, !.expired = FALSE]])
                => Moved(o, "expired_unsubmitted")
  <1>1. row[o] \in Row
    OBVIOUS
  <1>2. MayResolveAsUnsubmitted(o) => "expired_unsubmitted" \in Allowed[row[o].status]
    BY DEF MayResolveAsUnsubmitted, Allowed
  <1>3. ASSUME NEW new, NEW s, row' = [row EXCEPT ![o] = new], row[o].status = s \/ s \in Allowed[row[o].status],
               new.status = s, new.attempted = row[o].attempted, new.filled = row[o].filled,
               new.absent => row[o].absent \/ (s = "unknown" /\ "absence" \in Faults)
        PROVE  Moved(o, s)
    BY <1>3 DEF Moved
  <1> DEFINE Gone == [row[o] EXCEPT !.status = "unknown", !.absent = TRUE]
             Unsub == [row[o] EXCEPT !.status = "expired_unsubmitted", !.absent = FALSE, !.expired = FALSE]
  <1>4. /\ UnknownRow(row[o]).status = "unknown" /\ UnknownRow(row[o]).attempted = row[o].attempted
        /\ UnknownRow(row[o]).filled = row[o].filled /\ ~UnknownRow(row[o]).absent
        /\ CancelPending(row[o]).status = "cancel_pending" /\ CancelPending(row[o]).attempted = row[o].attempted
        /\ CancelPending(row[o]).filled = row[o].filled /\ CancelPending(row[o]).absent = row[o].absent
        /\ RejectedRow(row[o]).status = "rejected" /\ RejectedRow(row[o]).attempted = row[o].attempted
        /\ RejectedRow(row[o]).filled = row[o].filled /\ ~RejectedRow(row[o]).absent
        /\ Gone.status = "unknown" /\ Gone.attempted = row[o].attempted /\ Gone.filled = row[o].filled
        /\ Unsub.status = "expired_unsubmitted" /\ Unsub.attempted = row[o].attempted
        /\ Unsub.filled = row[o].filled /\ ~Unsub.absent
    BY <1>1 DEF UnknownRow, CancelPending, RejectedRow, Row
  <1>5. (ValidTransition(row[o].status, "unknown") /\ row' = [row EXCEPT ![o] = UnknownRow(row[o])])
          => Moved(o, "unknown")
    BY <1>3, <1>4 DEF ValidTransition
  <1>6. (/\ ValidTransition(row[o].status, "unknown") /\ "absence" \in Faults
         /\ row' = [row EXCEPT ![o] = Gone]) => Moved(o, "unknown")
    BY <1>3, <1>4 DEF ValidTransition
  <1>7. (ValidTransition(row[o].status, "cancel_pending") /\ row' = [row EXCEPT ![o] = CancelPending(row[o])])
          => Moved(o, "cancel_pending")
    BY <1>3, <1>4 DEF ValidTransition
  <1>8. (ValidTransition(row[o].status, "rejected") /\ row' = [row EXCEPT ![o] = RejectedRow(row[o])])
          => Moved(o, "rejected")
    BY <1>3, <1>4 DEF ValidTransition
  <1>9. (MayResolveAsUnsubmitted(o) /\ row' = [row EXCEPT ![o] = Unsub]) => Moved(o, "expired_unsubmitted")
    BY <1>2, <1>3, <1>4
  <1>10. QED
    BY <1>5, <1>6, <1>7, <1>8, <1>9

LEMMA RowSteps == ControlInv /\ [Next]_vars => RowStep
  <1> SUFFICES ASSUME ControlInv, [Next]_vars PROVE RowStep
    OBVIOUS
  <1>t. /\ row \in [Orders -> Row] /\ ledger \subseteq Orders /\ todo \subseteq ledger
        /\ pc \notin {"down", "idle", "recover"} => cur \in Orders
        /\ pc \notin {"down", "idle", "recover", "prepare"} => cur \in ledger
    BY DEF ControlInv, SubmissionInv, OnLedger, TypeInv, TypeOK, CurOK
  <1> USE DEF durable, outside, process
  <1>u. ASSUME UNCHANGED row PROVE RowStep
    BY <1>u DEF RowStep, SameRows
  <1>a. ASSUME NEW o \in Orders, row' = [row EXCEPT ![o] = [@ EXCEPT !.absent = FALSE]] PROVE SameRows
    BY <1>a, <1>t DEF SameRows, Row
  <1>1. ASSUME NEW o \in Orders, Cancel(o) PROVE RowStep
    <2>1. o \in ledger /\ UNCHANGED <<ledger, fills, dailyUsed, outside>>
      BY <1>1 DEF Cancel, list_non_terminal
    <2>2. CASE RequestCancel(o)
      BY <2>1, <2>2, <1>t, MovedWrites DEF RequestCancel, RowStep, MovedCancel
    <2>3. QED
      BY <1>1, <2>2, <1>u DEF Cancel
  <1>2. ASSUME NEW o \in Orders, RecoverExpires(o) PROVE RowStep
    BY <1>2, <1>t, MovedWrites DEF RecoverExpires, ResolveAsUnsubmitted, RowStep, MovedUnsubmitted
  <1>3. ASSUME NEW o \in Orders, OperatorResolves(o) PROVE RowStep
    BY <1>3, <1>t, MovedWrites DEF OperatorResolves, ResolveAsUnsubmitted, RowStep, MovedUnsubmitted
  <1>4. ASSUME NEW o \in Orders, TtlElapses(o) PROVE RowStep
    <2>1. row[o] \in Row /\ row' = [row EXCEPT ![o] = [@ EXCEPT !.expired = TRUE]]
      BY <1>4, <1>t DEF TtlElapses
    <2>2. SameRows
      BY <2>1, <1>t DEF SameRows, Row
    <2>3. QED
      BY <2>2 DEF RowStep
  <1>5. CASE RejectLocally
    <2>1. CASE UNCHANGED row
      BY <2>1, <1>u
    <2>2. CASE row' = [row EXCEPT ![cur] = RejectedRow(row[cur])] /\ ValidTransition(row[cur].status, "rejected")
      BY <1>5, <2>2, <1>t, MovedWrites DEF RejectLocally, RowStep, MovedRejected
    <2>3. row[cur] \in Row /\ RejectedRow(row[cur]).status = "rejected"
      BY <1>5, <1>t DEF RejectLocally, RejectedRow, Row
    <2>4. QED
      BY <1>5, <2>1, <2>2, <2>3 DEF RejectLocally, TransitionAndReturn
  <1>6. CASE CreateOrderRefused
    <2>1. CASE UNCHANGED row
      BY <2>1, <1>u
    <2>2. CASE row' = [row EXCEPT ![cur] = RejectedRow(row[cur])] /\ ValidTransition(row[cur].status, "rejected")
      BY <1>6, <2>2, <1>t, MovedWrites DEF CreateOrderRefused, RowStep, MovedRejected
    <2>3. row[cur] \in Row /\ RejectedRow(row[cur]).status = "rejected"
      BY <1>6, <1>t DEF CreateOrderRefused, RejectedRow, Row
    <2>4. QED
      BY <1>6, <2>1, <2>2, <2>3 DEF CreateOrderRefused, TransitionAndReturn
  <1>7. CASE CreateOrderAmbiguous \/ FetchFails \/ FetchInconclusive \/ FetchProvesAbsence \/ StoreMismatch
    <2>1. cur \in ledger /\ row[cur] \in Row /\ UNCHANGED <<ledger, fills, dailyUsed, outside>>
      BY <1>7, <1>t DEF CreateOrderAmbiguous, FetchFails, FetchInconclusive, FetchProvesAbsence, StoreMismatch
    <2>2. CASE UNCHANGED row
      BY <2>2, <1>u
    <2>3. CASE row' = [row EXCEPT ![cur] = [@ EXCEPT !.absent = FALSE]]
      BY <2>1, <2>3, <1>a, <1>t DEF RowStep
    <2>4. CASE row' = [row EXCEPT ![cur] = UnknownRow(row[cur])] /\ ValidTransition(row[cur].status, "unknown")
      BY <2>1, <2>4, <1>t, MovedWrites DEF RowStep, MovedUnknown
    <2>5. CASE /\ row' = [row EXCEPT ![cur] = [row[cur] EXCEPT !.status = "unknown", !.absent = TRUE]]
               /\ ValidTransition(row[cur].status, "unknown") /\ "absence" \in Faults
      BY <2>1, <2>5, <1>t, MovedWrites DEF RowStep, MovedUnknown
    <2>6. /\ UnknownRow(row[cur]).status = "unknown"
          /\ [row[cur] EXCEPT !.status = "unknown", !.absent = TRUE].status = "unknown"
      BY <2>1 DEF UnknownRow, Row
    <2>7. QED
      BY <1>7, <2>2, <2>3, <2>4, <2>5, <2>6
      DEF CreateOrderAmbiguous, FetchFails, FetchInconclusive, FetchProvesAbsence, StoreMismatch, TransitionAndReturn
  <1>8. CASE StoreRow
    <2>1. cur \in Orders /\ row[cur] \in Row
      BY <1>8, <1>t DEF StoreRow
    <2>2. StoredRow(row[cur], pay).status = ParsedStatus(pay.raw, pay.filled, Qty)
      BY <2>1 DEF StoredRow, Row
    <2>3. QED
      BY <1>8, <2>1, <2>2, <1>u DEF StoreRow, StoredRow, TransitionAndReturn, RowStep, Stored
  <1>9. CASE CancelResolved
    <2>1. cur \in ledger /\ UNCHANGED <<ledger, fills, dailyUsed, outside>>
      BY <1>9, <1>t DEF CancelResolved
    <2>2. CASE RequestCancel(cur)
      BY <2>1, <2>2, <1>t, MovedWrites DEF RequestCancel, RowStep, MovedCancel
    <2>3. QED
      BY <1>9, <2>2, <1>u DEF CancelResolved
  <1>10. CASE mark_submission_attempted
    BY <1>10 DEF RowStep
  <1>11. ASSUME NEW o \in Orders, Reserve(o) \/ Block(o) \/ Resume(o) \/ Replay(o)
               \/ CancelUnknown(o) \/ RecoverRaises(o) \/ RecoverSkips(o) \/ RecoverReconciles(o)
               \/ RequestArrives(o) \/ RequestLost(o) \/ VenueFills(o) \/ VenueEnds(o)
        PROVE  UNCHANGED row
    BY <1>11 DEF Reserve, Block, Resume, Replay, CancelUnknown, RecoverRaises, RecoverSkips, RecoverReconciles,
                RequestArrives, RequestLost, VenueFills, VenueEnds
  <1>12. ASSUME StartRecovery \/ PrepareFails \/ CreateIntent \/ CheckBlocks \/ Send \/ CreateOrderResponse
               \/ FetchFinds \/ StoreTrade \/ StoreSynthetic \/ StoreIgnoresOlder \/ CancelAnswered
               \/ CancelFails \/ RecoverDone \/ Restart \/ Crash \/ UNCHANGED vars
        PROVE  UNCHANGED row
    BY <1>12 DEF StartRecovery, PrepareFails, CreateIntent, CheckBlocks, Send, CreateOrderResponse, FetchFinds,
                Answered, StoreTrade, StoreSynthetic, StoreIgnoresOlder, CancelAnswered, CancelFails, RecoverDone,
                Restart, Crash, vars
  <1>13. QED
    BY <1>u, <1>1, <1>2, <1>3, <1>4, <1>5, <1>6, <1>7, <1>8, <1>9, <1>10, <1>11, <1>12
    DEF Next, Begin, Continue, Environment

(* The orders that work at the venue or are on their way there.             *)
Working == {o \in Orders : o \in inFlight \/ venue[o].status = "open"}

(* Which steps leave alone what: the calls that take an intent as far as    *)
(* the network, and the rest.                                               *)
Intents(o) == Reserve(o) \/ Block(o) \/ Resume(o)
Approach == PrepareFails \/ RejectLocally \/ CreateIntent \/ CheckBlocks \/ mark_submission_attempted
Elsewhere ==
    \/ pc \notin {"reject", "check", "prepare"} /\ pc' \notin {"prepare", "check", "send"}
    \/ UNCHANGED <<pc, cur>> /\ Working' \subseteq Working
    \/ Crash

LEMMA ElsewhereStep ==
    ControlInv /\ [Next]_vars =>
        \/ \E o \in Orders : Intents(o)
        \/ Approach
        \/ Elsewhere /\ UNCHANGED <<ledger, dailyUsed>>
  <1> SUFFICES ASSUME ControlInv, [Next]_vars
               PROVE  \/ \E o \in Orders : Intents(o)
                      \/ Approach
                      \/ Elsewhere /\ UNCHANGED <<ledger, dailyUsed>>
    OBVIOUS
  <1> USE DEF durable, outside, process
  <1>t. venue \in [Orders -> VenueFact]
    BY DEF ControlInv, SubmissionInv, TypeInv, TypeOK
  <1>r. ASSUME NEW new, pc \in {"await", "fetch", "store"}, TransitionAndReturn(new) \/ Return
        PROVE  Elsewhere
    BY <1>r DEF TransitionAndReturn, Return, Raise, GoIdle, Elsewhere
  <1>1. ASSUME NEW o \in Orders, Replay(o) \/ Cancel(o) \/ CancelUnknown(o) \/ RecoverExpires(o)
               \/ RecoverRaises(o) \/ RecoverSkips(o) \/ RecoverReconciles(o)
        PROVE  Elsewhere /\ UNCHANGED <<ledger, dailyUsed>>
    BY <1>1 DEF Replay, Cancel, RequestCancel, CancelUnknown, RecoverExpires, RecoverRaises, RecoverSkips,
                RecoverReconciles, Raise, GoIdle, Elsewhere
  <1>2. ASSUME StartRecovery \/ Send \/ CreateOrderResponse \/ FetchFinds \/ StoreTrade \/ StoreSynthetic
               \/ CancelResolved \/ CancelAnswered \/ CancelFails \/ RecoverDone \/ Restart \/ Crash
        PROVE  Elsewhere /\ UNCHANGED <<ledger, dailyUsed>>
    BY <1>2 DEF StartRecovery, Send, CreateOrderResponse, FetchFinds, Answered, StoreTrade, StoreSynthetic,
                CancelResolved, RequestCancel, GoIdle, CancelAnswered, CancelFails, RecoverDone, Restart, Crash,
                Elsewhere
  <1>3. ASSUME CreateOrderAmbiguous \/ CreateOrderRefused \/ FetchFails \/ FetchInconclusive
               \/ FetchProvesAbsence \/ StoreMismatch \/ StoreIgnoresOlder \/ StoreRow
        PROVE  Elsewhere /\ UNCHANGED <<ledger, dailyUsed>>
    BY <1>3, <1>r DEF CreateOrderAmbiguous, CreateOrderRefused, FetchFails, FetchInconclusive,
                FetchProvesAbsence, StoreMismatch, StoreIgnoresOlder, StoreRow
  <1>4. ASSUME NEW o \in Orders, TtlElapses(o) \/ OperatorResolves(o) \/ RequestLost(o)
        PROVE  Elsewhere /\ UNCHANGED <<ledger, dailyUsed>>
    BY <1>4 DEF TtlElapses, OperatorResolves, RequestLost, Elsewhere, Working
  <1>5. ASSUME NEW o \in Orders, RequestArrives(o) \/ VenueFills(o) \/ VenueEnds(o)
        PROVE  Elsewhere /\ UNCHANGED <<ledger, dailyUsed>>
    <2>1. \A p \in Orders : p # o => venue'[p] = venue[p]
      BY <1>5, <1>t DEF RequestArrives, VenueFills, VenueEnds
    <2>2. o \in Working \/ (venue'[o].status # "open" /\ inFlight' = inFlight)
      BY <1>5, <1>t DEF RequestArrives, VenueFills, VenueEnds, Working, VenueFact
    <2>3. inFlight' \subseteq inFlight /\ UNCHANGED <<pc, cur, ledger, dailyUsed>>
      BY <1>5 DEF RequestArrives, VenueFills, VenueEnds
    <2>4. Working' \subseteq Working
      BY <2>1, <2>2, <2>3 DEF Working
    <2>5. QED
      BY <2>3, <2>4 DEF Elsewhere
  <1>6. CASE UNCHANGED vars
    BY <1>6 DEF vars, Elsewhere, Working
  <1>7. QED
    BY <1>1, <1>2, <1>3, <1>4, <1>5, <1>6 DEF Next, Begin, Continue, Environment, Intents, Approach

-----------------------------------------------------------------------------
(* The budget argument: an order that was attempted, an intent that may be  *)
(* resumed and the call that is on its way to send have each had a share of *)
(* the daily budget taken.                                                  *)
Spoken(o) ==
    \/ row[o].attempted
    \/ o \in ledger /\ PreSubmit(o) /\ ~(pc = "reject" /\ cur = o)
    \/ pc \in {"prepare", "check"} /\ cur = o
(* What was taken of the budget, and what crashes let past it.              *)
Budget == dailyUsed + crashes.torn
ReserveInv == ControlInv /\ Cardinality({o \in Orders : Spoken(o)}) <= Budget

LEMMA BudgetType == ControlInv => dailyUsed \in Nat /\ crashes.torn \in Nat /\ Budget \in Nat
  BY LimitAssumption DEF Budget, ControlInv, SubmissionInv, TypeInv, TypeOK

LEMMA CrashesCounted == [Next]_vars => Crash \/ UNCHANGED crashes
  <1> SUFFICES ASSUME [Next]_vars PROVE Crash \/ UNCHANGED crashes
    OBVIOUS
  <1>1. ASSUME Begin PROVE UNCHANGED crashes
    BY <1>1 DEF Begin, Reserve, Block, Resume, Replay, Cancel, RequestCancel, CancelUnknown, StartRecovery
  <1>2. ASSUME Approach \/ Send \/ RecoverDone \/ Restart
               \/ \E o \in Orders : RecoverExpires(o) \/ RecoverRaises(o) \/ RecoverSkips(o)
                                    \/ RecoverReconciles(o)
        PROVE  UNCHANGED crashes
    BY <1>2 DEF Approach, PrepareFails, RejectLocally, CreateIntent, CheckBlocks, Send,
                mark_submission_attempted, RecoverDone, Restart, RecoverExpires, RecoverRaises,
                RecoverSkips, RecoverReconciles
  <1>3. ASSUME CreateOrderResponse \/ CreateOrderAmbiguous \/ CreateOrderRefused
               \/ FetchFails \/ FetchInconclusive \/ FetchProvesAbsence \/ FetchFinds
        PROVE  UNCHANGED crashes
    BY <1>3 DEF CreateOrderResponse, CreateOrderAmbiguous, CreateOrderRefused, FetchFails,
                FetchInconclusive, FetchProvesAbsence, FetchFinds, Answered
  <1>4. ASSUME StoreMismatch \/ StoreTrade \/ StoreSynthetic \/ StoreIgnoresOlder \/ StoreRow
               \/ CancelResolved \/ CancelAnswered \/ CancelFails
        PROVE  UNCHANGED crashes
    BY <1>4 DEF StoreMismatch, StoreTrade, StoreSynthetic, StoreIgnoresOlder, StoreRow,
                CancelResolved, RequestCancel, CancelAnswered, CancelFails
  <1>5. ASSUME NEW o \in Orders, TtlElapses(o) \/ OperatorResolves(o) \/ RequestArrives(o)
                                 \/ RequestLost(o) \/ VenueFills(o) \/ VenueEnds(o)
        PROVE  UNCHANGED crashes
    BY <1>5 DEF TtlElapses, OperatorResolves, RequestArrives, RequestLost, VenueFills, VenueEnds
  <1>6. QED
    BY <1>1, <1>2, <1>3, <1>4, <1>5 DEF Next, Continue, Environment, Approach, vars

(* Without the mark no order becomes attempted, or an intent again.         *)
LEMMA IntentsShrink ==
    ASSUME ControlInv, RowStep, ~mark_submission_attempted, pay \in Payload
    PROVE  \A o \in Orders : row'[o].attempted = row[o].attempted /\ (PreSubmit(o)' => PreSubmit(o))
  <1>t. row \in [Orders -> Row] /\ ledger \subseteq Orders
    BY DEF ControlInv, SubmissionInv, TypeInv, TypeOK
  <1>1. CASE SameRows
    BY <1>1 DEF SameRows, PreSubmit
  <1>2. ASSUME NEW o \in ledger, MovedUnknown(o) \/ MovedCancel(o) \/ MovedRejected(o) \/ MovedUnsubmitted(o)
        PROVE  \A p \in Orders : row'[p].attempted = row[p].attempted /\ (PreSubmit(p)' => PreSubmit(p))
    BY <1>2, <1>t DEF MovedUnknown, MovedCancel, MovedRejected, MovedUnsubmitted, Moved, PreSubmit
  <1>3. CASE Stored
    <2>1. row[cur] \in Row /\ QuietRow(row[cur], StoredRow(row[cur], pay))
      BY <1>3, <1>t, QuietStore DEF Stored, StoredRow
    <2>2. QED
      BY <1>3, <2>1, <1>t DEF Stored, QuietRow, PreSubmit
  <1>4. QED
    BY <1>1, <1>2, <1>3 DEF RowStep

(* Every step that says more takes a share, or is a crash that tears a      *)
(* rejection.                                                               *)
LEMMA SpokenStep ==
    ASSUME ControlInv, [Next]_vars
    PROVE  \/ \E o \in Orders : Reserve(o)
           \/ Crash /\ pc = "reject"
           \/ /\ UNCHANGED dailyUsed /\ crashes.torn' = crashes.torn
              /\ \A o \in Orders : Spoken(o)' => Spoken(o)
  <1>t. /\ row \in [Orders -> Row] /\ ledger \subseteq Orders /\ pay \in Payload
        /\ pc \notin {"down", "idle", "recover"} => cur \in Orders
        /\ pc \notin {"down", "idle", "recover", "prepare"} => cur \in ledger
    BY DEF ControlInv, SubmissionInv, OnLedger, TypeInv, TypeOK, CurOK
  <1> USE DEF durable, outside, process
  <1>1. ASSUME NEW o \in Orders, Block(o) \/ Resume(o)
        PROVE  UNCHANGED dailyUsed /\ \A p \in Orders : Spoken(p)' => Spoken(p)
    BY <1>1 DEF Block, Resume, Spoken, PreSubmit
  <1>2. ASSUME PrepareFails \/ CreateIntent \/ CheckBlocks
        PROVE  UNCHANGED dailyUsed /\ \A o \in Orders : Spoken(o)' => Spoken(o)
    BY <1>2 DEF PrepareFails, CreateIntent, CheckBlocks, Spoken, PreSubmit
  <1>3. ASSUME mark_submission_attempted
        PROVE  UNCHANGED dailyUsed /\ \A o \in Orders : Spoken(o)' => Spoken(o)
    <2>1. \A o \in Orders : o # cur => row'[o] = row[o]
      BY <1>3, <1>t DEF mark_submission_attempted
    <2>2. Spoken(cur)
      BY <1>3 DEF mark_submission_attempted, Spoken
    <2>3. QED
      BY <1>3, <2>1, <2>2 DEF mark_submission_attempted, Spoken, PreSubmit
  <1>4. ASSUME RejectLocally
        PROVE  UNCHANGED dailyUsed /\ \A o \in Orders : Spoken(o)' => Spoken(o)
    <2>1. cur \in Orders /\ row[cur] \in Row /\ row[cur].status = "submitting" /\ op = "submit"
      BY <1>4, <1>t DEF RejectLocally, ControlInv, HandInv, CallInv, PreSubmit, Sending
    <2>2. RejectedRow(row[cur]).status = "rejected" /\ RejectedRow(row[cur]).attempted = row[cur].attempted
      BY <2>1 DEF RejectedRow, Row
    <2>3. ValidTransition(row[cur].status, "rejected")
      BY <2>1 DEF ValidTransition, Allowed
    <2>4. row' = [row EXCEPT ![cur] = RejectedRow(row[cur])] /\ pc' = "idle" /\ UNCHANGED <<ledger, dailyUsed>>
      BY <1>4, <2>1, <2>2, <2>3 DEF RejectLocally, TransitionAndReturn, Return, GoIdle
    <2>5. QED
      BY <2>1, <2>2, <2>4, <1>t DEF Spoken, PreSubmit
  <1>5. ASSUME Elsewhere, UNCHANGED <<ledger, dailyUsed>>, ~(Crash /\ pc = "reject")
        PROVE  UNCHANGED dailyUsed /\ \A o \in Orders : Spoken(o)' => Spoken(o)
    <2>1. ~mark_submission_attempted => \A o \in Orders : row'[o].attempted = row[o].attempted /\ (PreSubmit(o)' => PreSubmit(o))
      BY <1>t, RowSteps, IntentsShrink
    <2>2. CASE mark_submission_attempted
      BY <1>3, <2>2
    <2>3. CASE ~mark_submission_attempted /\ pc \notin {"reject", "check", "prepare"} /\ pc' \notin {"prepare", "check"}
      BY <1>5, <2>1, <2>3 DEF Spoken
    <2>4. CASE ~mark_submission_attempted /\ UNCHANGED <<pc, cur>>
      BY <1>5, <2>1, <2>4 DEF Spoken
    <2>5. CASE Crash /\ pc # "reject"
      BY <2>5 DEF Crash, Spoken, PreSubmit
    <2>6. QED
      BY <1>5, <2>2, <2>3, <2>4, <2>5 DEF Elsewhere
  <1>6. ~(Crash /\ pc = "reject") => crashes.torn' = crashes.torn
    BY CrashesCounted DEF Crash
  <1>7. QED
    BY <1>1, <1>2, <1>3, <1>4, <1>5, <1>6, ElsewhereStep DEF Intents, Approach

LEMMA ReserveStep == ReserveInv /\ [Next]_vars => ReserveInv'
  <1> SUFFICES ASSUME ReserveInv, [Next]_vars PROVE ReserveInv'
    OBVIOUS
  <1> DEFINE P == {o \in Orders : Spoken(o)}
             Q == {o \in Orders : Spoken(o)'}
  <1>c. ControlInv /\ ControlInv'
    BY ControlStep DEF ReserveInv
  <1>1. IsFiniteSet(P) /\ Cardinality(P) \in Nat /\ Budget \in Nat /\ Cardinality(P) <= Budget
    <2>1. P \in SUBSET Orders
      OBVIOUS
    <2>2. IsFiniteSet(P)
      BY <2>1, OrdersAssumption, FS_Subset
    <2>3. QED
      BY <2>2, <1>c, FS_CardinalityType, BudgetType DEF ReserveInv
  <1>2. ASSUME UNCHANGED dailyUsed, crashes.torn' = crashes.torn,
               \A o \in Orders : Spoken(o)' => Spoken(o)
        PROVE  ReserveInv'
    <2>1. Q \in SUBSET P
      BY <1>2
    <2>2. Cardinality(Q) <= Cardinality(P) /\ Cardinality(Q) \in Nat
      BY <1>1, <2>1, FS_Subset, FS_CardinalityType
    <2>3. Budget' = Budget
      BY <1>2 DEF Budget
    <2>4. Cardinality(Q) <= Budget'
      BY <1>1, <2>2, <2>3
    <2>5. QED
      BY <2>4, <1>c DEF ReserveInv
  <1>3. ASSUME NEW o, \A p \in Orders : Spoken(p)' => Spoken(p) \/ p = o, Budget' = Budget + 1
        PROVE  ReserveInv'
    <2>1. Q \in SUBSET (P \cup {o})
      BY <1>3
    <2>2. IsFiniteSet(P \cup {o}) /\ Cardinality(P \cup {o}) <= Cardinality(P) + 1
      <3> HIDE DEF P
      <3>1. /\ IsFiniteSet(P \cup {o})
            /\ Cardinality(P \cup {o}) = IF o \in P THEN Cardinality(P) ELSE Cardinality(P) + 1
        BY <1>1, FS_AddElement
      <3>2. QED
        BY <1>1, <3>1
    <2>3. IsFiniteSet(Q) /\ Cardinality(Q) <= Cardinality(P \cup {o})
      BY <2>1, <2>2, FS_Subset
    <2>4. Cardinality(Q) \in Nat /\ Cardinality(P \cup {o}) \in Nat
      BY <2>2, <2>3, FS_CardinalityType
    <2>5. Cardinality(Q) <= Budget'
      BY <1>1, <1>3, <2>2, <2>3, <2>4
    <2>6. QED
      BY <2>5, <1>c DEF ReserveInv
  <1>4. ASSUME NEW o \in Orders, Reserve(o) PROVE ReserveInv'
    <2>1. \A p \in Orders : Spoken(p)' => Spoken(p) \/ p = o
      BY <1>4 DEF Reserve, Spoken, PreSubmit
    <2>2. Budget' = Budget + 1
      BY <1>4, <1>c, BudgetType DEF Reserve, Budget
    <2>3. QED
      BY <1>3, <2>1, <2>2
  <1>5. CASE Crash /\ pc = "reject"
    <2>1. \A p \in Orders : Spoken(p)' => Spoken(p) \/ p = cur
      BY <1>5 DEF Crash, Spoken, PreSubmit, durable
    <2>2. Budget' = Budget + 1
      BY <1>5, <1>c, BudgetType DEF Crash, Budget, durable
    <2>3. QED
      BY <1>3, <2>1, <2>2
  <1>6. QED
    BY <1>c, <1>2, <1>4, <1>5, SpokenStep

(* Every order that went out had its share of the daily budget taken first, *)
(* across crashes and resumed intents, but for one order at most for each   *)
(* crash between the two writes of a local rejection.                       *)
THEOREM SubmissionsAreReserved == Spec => []EverySubmissionReserved
  <1>1. Init => ReserveInv
    <2> SUFFICES ASSUME Init PROVE ReserveInv
      OBVIOUS
    <2>1. {o \in Orders : Spoken(o)} = {}
      BY DEF Init, Spoken, NewRow
    <2>2. Budget = 0
      BY DEF Init, Budget
    <2>3. QED
      BY <2>1, <2>2, ControlInit, FS_EmptySet DEF ReserveInv
  <1>2. ReserveInv /\ [Next]_vars => ReserveInv'
    BY ReserveStep
  <1>3. ReserveInv => EverySubmissionReserved
    <2> SUFFICES ASSUME ReserveInv PROVE EverySubmissionReserved
      OBVIOUS
    <2> DEFINE P == {o \in Orders : Spoken(o)}
               Q == {o \in Orders : sent[o] > 0}
    <2>1. \A o \in Orders : sent[o] > 0 => row[o].attempted
      BY DEF ReserveInv, ControlInv, SubmissionInv
    <2>2. Q \in SUBSET P
      BY <2>1 DEF Spoken
    <2>3. IsFiniteSet(P)
      BY OrdersAssumption, FS_Subset
    <2>4. Cardinality(Q) <= Cardinality(P) /\ Cardinality(Q) \in Nat /\ Cardinality(P) \in Nat
      BY <2>2, <2>3, FS_Subset, FS_CardinalityType
    <2>5. Budget \in Nat /\ Cardinality(P) <= Budget
      BY BudgetType DEF ReserveInv
    <2>6. QED
      BY <2>4, <2>5 DEF EverySubmissionReserved, SubmittedOrders, Budget
  <1>4. QED
    BY <1>1, <1>2, <1>3, PTL DEF Spec

-----------------------------------------------------------------------------
(* One working opening per symbol: the ledger may trail the venue, but an   *)
(* order that works there is never settled in the ledger, so that the last  *)
(* look before the mark sees it.                                            *)
PayloadInv ==
    pc = "store" =>
        /\ ParsedStatus(pay.raw, pay.filled, Qty) \in TERMINAL_STATUSES => venue[cur].status # "open"
        /\ pay.raw \in {"canceled", "expired"} => venue[cur].status = pay.raw
SettledInv ==
    \A o \in Orders : ~row[o].absent /\ (row[o].status \in TERMINAL_STATUSES => o \notin Working)
AloneInv ==
    /\ pc = "send" => \A o \in Working : SymbolOf[o] # SymbolOf[cur]
    /\ OneWorkingOpening
OpeningInv == FactsInv /\ PayloadInv /\ SettledInv /\ AloneInv

(* Nothing proves an absence wrongly, and the operator reads the venue right. *)
EvidenceIsSound == Faults \cap {"absence", "operator_error"} = {}

(* An order that has ended at the venue has ended for good, and only Send   *)
(* puts an order on its way.                                                *)
LEMMA EndsStep ==
    FactsInv /\ [Next]_vars =>
        /\ \A o \in Orders : venue[o].status \in {"closed", "canceled", "expired", "rejected"}
                               => venue'[o].status = venue[o].status
        /\ \A o \in Orders : venue[o].status # "nothing" /\ venue'[o].status = "open" => venue[o].status = "open"
        /\ ~Send => Working' \subseteq Working
        /\ Send => Working' = Working \cup {cur} /\ cur \in Orders
  <1> SUFFICES ASSUME FactsInv, [Next]_vars
               PROVE  /\ \A o \in Orders : venue[o].status \in {"closed", "canceled", "expired", "rejected"}
                                             => venue'[o].status = venue[o].status
                      /\ \A o \in Orders : venue[o].status # "nothing" /\ venue'[o].status = "open"
                                             => venue[o].status = "open"
                      /\ ~Send => Working' \subseteq Working
                      /\ Send => Working' = Working \cup {cur} /\ cur \in Orders
    OBVIOUS
  <1>t. /\ venue \in [Orders -> VenueFact] /\ VenueInv /\ inFlight \subseteq Orders
        /\ pc \notin {"down", "idle", "recover"} => cur \in Orders
    BY DEF FactsInv, ControlInv, SubmissionInv, TypeInv, TypeOK, CurOK
  <1> USE DEF durable, outside, process
  <1>0. CASE UNCHANGED <<venue, inFlight>> /\ ~Send
    BY <1>0, <1>t DEF Working
  <1>1. CASE Send
    BY <1>1, <1>t DEF Send, Working
  <1>2. CASE CreateOrderRefused
    BY <1>2, <1>t DEF CreateOrderRefused, Send, Working
  <1>3. CASE CancelAnswered \/ CancelFails
    <2>1. cur \in Orders /\ inFlight' = inFlight /\ ~Send
      BY <1>3, <1>t DEF CancelAnswered, CancelFails, Send
    <2>2. CASE CanceledAtVenue(cur)
      BY <2>1, <2>2, <1>t DEF CanceledAtVenue, Working, VenueFact
    <2>3. QED
      BY <1>0, <1>3, <2>1, <2>2 DEF CancelAnswered, CancelFails
  <1>4. ASSUME NEW o \in Orders, RequestArrives(o) \/ VenueFills(o) \/ VenueEnds(o) \/ RequestLost(o)
        PROVE  /\ \A p \in Orders : venue[p].status \in {"closed", "canceled", "expired", "rejected"}
                                      => venue'[p].status = venue[p].status
               /\ \A p \in Orders : venue[p].status # "nothing" /\ venue'[p].status = "open"
                                      => venue[p].status = "open"
               /\ ~Send /\ Working' \subseteq Working
    <2>1. inFlight' \subseteq inFlight /\ ~Send /\ \A p \in Orders : p # o => venue'[p] = venue[p]
      BY <1>4, <1>t DEF RequestArrives, VenueFills, VenueEnds, RequestLost, Send
    <2>2. CASE RequestArrives(o)
      <3>1. venue[o].status = "nothing" /\ o \in inFlight
        BY <2>2, <1>t DEF RequestArrives, VenueInv
      <3>2. QED
        BY <2>1, <3>1 DEF Working
    <2>3. CASE VenueFills(o)
      <3>1. venue'[o].status \in {venue[o].status, "closed"} /\ venue[o].status \in {"open", "canceled"}
            /\ (venue[o].status = "canceled" => venue'[o].status = "canceled")
        BY <2>3, <1>t DEF VenueFills, VenueFact
      <3>2. QED
        BY <2>1, <3>1 DEF Working
    <2>4. CASE VenueEnds(o)
      <3>1. venue'[o].status # "open" /\ venue[o].status = "open"
        BY <2>4, <1>t DEF VenueEnds, VenueFact
      <3>2. QED
        BY <2>1, <3>1 DEF Working
    <2>5. CASE RequestLost(o)
      BY <2>1, <2>5 DEF RequestLost, Working
    <2>6. QED
      BY <1>4, <2>2, <2>3, <2>4, <2>5
  <1>5. ASSUME NEW o \in Orders, Reserve(o) \/ Block(o) \/ Resume(o) \/ Replay(o) \/ Cancel(o)
               \/ CancelUnknown(o) \/ RecoverExpires(o) \/ RecoverRaises(o) \/ RecoverSkips(o)
               \/ RecoverReconciles(o) \/ TtlElapses(o) \/ OperatorResolves(o)
        PROVE  UNCHANGED <<venue, inFlight>>
    BY <1>5 DEF Reserve, Block, Resume, Replay, Cancel, CancelUnknown, RecoverExpires, RecoverRaises,
                RecoverSkips, RecoverReconciles, TtlElapses, OperatorResolves
  <1>6. ASSUME StartRecovery \/ PrepareFails \/ RejectLocally \/ CreateIntent \/ CheckBlocks
               \/ mark_submission_attempted \/ CreateOrderResponse \/ CreateOrderAmbiguous \/ FetchFails
               \/ FetchInconclusive \/ FetchProvesAbsence \/ FetchFinds \/ StoreMismatch \/ StoreTrade
               \/ StoreSynthetic \/ StoreIgnoresOlder \/ StoreRow \/ CancelResolved \/ RecoverDone
               \/ Restart \/ Crash \/ UNCHANGED vars
        PROVE  UNCHANGED <<venue, inFlight>>
    BY <1>6 DEF StartRecovery, PrepareFails, RejectLocally, CreateIntent, CheckBlocks,
                mark_submission_attempted, CreateOrderResponse, CreateOrderAmbiguous, FetchFails,
                FetchInconclusive, FetchProvesAbsence, FetchFinds, Answered, StoreMismatch, StoreTrade,
                StoreSynthetic, StoreIgnoresOlder, StoreRow, CancelResolved, RecoverDone, Restart, Crash, vars
  <1>7. QED
    BY <1>0, <1>1, <1>2, <1>3, <1>4, <1>5, <1>6 DEF Next, Begin, Continue, Environment

(* A snapshot that says an order has ended is the present one.              *)
LEMMA EndedSnapshots ==
    ASSUME FactsInv, NEW o \in Orders, NEW p \in Payload, Genuine(o, p)
    PROVE  /\ ParsedStatus(p.raw, p.filled, Qty) \in TERMINAL_STATUSES => venue[o].status # "open"
           /\ p.raw \in {"canceled", "expired"} => venue[o].status = p.raw
  <1>1. PICK s \in Snapshots(o) : p.raw \in {s.status, "none"} /\ p.filled = s.filled
    BY DEF Genuine
  <1>2. /\ venue[o].filled \in Nat /\ Qty \in Nat /\ p.filled \in Nat
        /\ venue[o].status = "open" => venue[o].filled < Qty
    BY QtyAssumption DEF FactsInv, ControlInv, SubmissionInv, TypeInv, TypeOK, VenueFact, VenueInv, Payload
  <1>3. s.filled <= venue[o].filled /\ (s.status # "open" => s.status = venue[o].status)
    BY <1>2 DEF Snapshots
  <1>4. CASE p.raw \in {"closed", "canceled", "expired", "rejected"}
    BY <1>1, <1>3, <1>4
  <1>5. CASE p.filled >= Qty
    BY <1>1, <1>2, <1>3, <1>5
  <1>6. CASE p.raw \notin {"closed", "canceled", "expired", "rejected"} /\ ~(p.filled >= Qty)
    <2>1. ParsedStatus(p.raw, p.filled, Qty) \in {"partial", "accepted", "unknown"}
      BY <1>6 DEF ParsedStatus
    <2>2. QED
      BY <1>6, <2>1 DEF TERMINAL_STATUSES
  <1>7. QED
    BY <1>4, <1>5, <1>6

LEMMA PayloadStep == FactsInv /\ PayloadInv /\ [Next]_vars => PayloadInv'
  <1> SUFFICES ASSUME FactsInv, PayloadInv, [Next]_vars, pc' = "store" PROVE PayloadInv'
    BY DEF PayloadInv
  <1>1. HandStep /\ pay' \in Payload /\ cur' = cur /\ cur \in Orders
    BY HandSteps, TypeStep DEF HandStep, FactsInv, ControlInv, SubmissionInv, TypeInv, TypeOK
  <1>2. /\ \A o \in Orders : venue[o].status \in {"closed", "canceled", "expired", "rejected"}
                               => venue'[o].status = venue[o].status
        /\ \A o \in Orders : venue[o].status # "nothing" /\ venue'[o].status = "open" => venue[o].status = "open"
    BY EndsStep
  <1>3. CASE pc = "store" /\ UNCHANGED pay
    BY <1>1, <1>2, <1>3 DEF PayloadInv, FactsInv, TrailInv, VenueKnows
  <1>4. CASE UNCHANGED venue /\ Genuine(cur, pay')
    BY <1>1, <1>4, EndedSnapshots DEF PayloadInv
  <1>5. CASE CanceledAtVenue(cur) /\ pay'.raw = venue'[cur].status
    BY <1>1, <1>5 DEF PayloadInv, CanceledAtVenue, FactsInv, ControlInv, SubmissionInv, TypeInv, TypeOK, VenueFact
  <1>6. QED
    BY <1>1, <1>3, <1>4, <1>5 DEF HandStep

LEMMA SettledStep == EvidenceIsSound /\ OpeningInv /\ [Next]_vars => SettledInv'
  <1> SUFFICES ASSUME EvidenceIsSound, OpeningInv, [Next]_vars PROVE SettledInv'
    OBVIOUS
  <1>t. /\ row \in [Orders -> Row] /\ ledger \subseteq Orders /\ pay \in Payload
        /\ ControlInv /\ VenueInv /\ SettledInv /\ inFlight \subseteq Orders
        /\ pc \notin {"down", "idle", "recover"} => cur \in Orders
    BY DEF OpeningInv, FactsInv, ControlInv, SubmissionInv, TypeInv, TypeOK, CurOK
  <1>e. "absence" \notin Faults /\ "operator_error" \notin Faults
    BY DEF EvidenceIsSound
  <1>w. /\ RowStep /\ (~Send => Working' \subseteq Working)
        /\ Send => Working' = Working \cup {cur} /\ cur \in Orders
    BY EndsStep, RowSteps DEF OpeningInv, FactsInv
  <1>u. \A o \in Orders : ~row[o].attempted => o \notin Working
    BY <1>t DEF ControlInv, SubmissionInv, VenueInv, Working
  <1>1. CASE SameRows
    <2>1. Send => row[cur].status = "submitting"
      BY <1>t DEF Send, ControlInv, HandInv
    <2>2. QED
      BY <1>1, <1>t, <1>w, <2>1 DEF SameRows, SettledInv, TERMINAL_STATUSES
  <1>2. CASE mark_submission_attempted
    <2>1. cur \in Orders /\ row[cur].status = "submitting" /\ ~Send
      BY <1>2, <1>t DEF mark_submission_attempted, Send, ControlInv, HandInv, PreSubmit
    <2>2. row'[cur].status = "submitting" /\ row'[cur].absent = row[cur].absent
          /\ \A o \in Orders : o # cur => row'[o] = row[o]
      BY <1>2, <1>t, <2>1 DEF mark_submission_attempted, Row
    <2>3. QED
      BY <1>t, <1>w, <2>1, <2>2 DEF SettledInv, TERMINAL_STATUSES
  <1>3. ASSUME NEW o \in ledger, MovedUnknown(o) \/ MovedCancel(o) \/ MovedRejected(o) \/ MovedUnsubmitted(o)
        PROVE  SettledInv'
    <2>1. /\ o \in Orders /\ ~row'[o].absent /\ Working' \subseteq Working
          /\ \A p \in Orders : p # o => row'[p] = row[p]
      BY <1>3, <1>e, <1>t DEF MovedUnknown, MovedCancel, MovedRejected, MovedUnsubmitted, Moved, SettledInv, Working
    <2>2. CASE MovedUnknown(o) \/ MovedCancel(o)
      BY <2>1, <2>2, <1>t DEF MovedUnknown, MovedCancel, Moved, SettledInv, TERMINAL_STATUSES
    <2>3. CASE MovedRejected(o)
      <3>1. o \notin Working'
        <4>1. CASE pc = "reject"
          BY <2>1, <2>3, <4>1, <1>t, <1>u DEF MovedRejected, ControlInv, HandInv, PreSubmit
        <4>2. CASE pc = "await" /\ o \in inFlight /\ inFlight' = inFlight \ {o}
          BY <2>1, <2>3, <4>2, <1>t DEF MovedRejected, Moved, VenueInv, Working
        <4>3. QED
          BY <2>3, <4>1, <4>2 DEF MovedRejected
      <3>2. QED
        BY <2>1, <3>1, <1>t DEF SettledInv
    <2>4. CASE MovedUnsubmitted(o)
      <3>1. o \notin Working
        BY <2>1, <2>4, <1>e, <1>t, <1>u DEF MovedUnsubmitted, PreSubmit, ProvenAbsent, SettledInv, VenueKnows, Working
      <3>2. QED
        BY <2>1, <3>1, <1>t DEF SettledInv
    <2>5. QED
      BY <1>3, <2>2, <2>3, <2>4
  <1>4. CASE Stored
    <2>1. /\ cur \in Orders /\ row[cur] \in Row /\ UNCHANGED <<venue, inFlight>>
          /\ \A o \in Orders : o # cur => row'[o] = row[o]
      BY <1>4, <1>t DEF Stored, outside
    <2>2. row'[cur].status = ParsedStatus(pay.raw, pay.filled, Qty) /\ ~row'[cur].absent
      BY <1>4, <2>1, <1>t DEF Stored, StoredRow, Row
    <2>3. venue[cur].status # "nothing" /\ cur \notin inFlight
      BY <1>4, <2>1, <1>t DEF Stored, OpeningInv, FactsInv, TrailInv, VenueKnows, VenueInv
    <2>4. row'[cur].status \in TERMINAL_STATUSES => cur \notin Working
      BY <1>4, <2>2, <2>3 DEF Stored, OpeningInv, PayloadInv, Working
    <2>5. QED
      BY <2>1, <2>2, <2>4, <1>t DEF SettledInv, Working
  <1>5. QED
    BY <1>1, <1>2, <1>3, <1>4, <1>w DEF RowStep

LEMMA AloneStep == OpeningInv /\ [Next]_vars => AloneInv'
  <1> SUFFICES ASSUME OpeningInv, [Next]_vars PROVE AloneInv'
    OBVIOUS
  <1>t. /\ ControlInv /\ VenueInv /\ TrailInv /\ SettledInv /\ AloneInv /\ ledger \subseteq Orders
        /\ row \in [Orders -> Row]
        /\ pc \notin {"down", "idle", "recover"} => cur \in Orders
    BY DEF OpeningInv, FactsInv, ControlInv, SubmissionInv, TypeInv, TypeOK, CurOK
  <1>w. /\ ~Send => Working' \subseteq Working
        /\ Send => Working' = Working \cup {cur} /\ cur \in Orders
    BY EndsStep DEF OpeningInv
  <1>o. OneWorkingOpening <=> \A o, p \in Working : SymbolOf[o] = SymbolOf[p] => o = p
    BY DEF OneWorkingOpening, Working
  <1>p. OneWorkingOpening' <=> \A o, p \in Working' : SymbolOf[o] = SymbolOf[p] => o = p
    BY DEF OneWorkingOpening, Working
  <1>1. OneWorkingOpening'
    <2>1. CASE ~Send
      BY <2>1, <1>w, <1>o, <1>p, <1>t DEF AloneInv
    <2>2. CASE Send
      BY <2>2, <1>w, <1>o, <1>p, <1>t DEF AloneInv, Send
    <2>3. QED
      BY <2>1, <2>2
  <1>2. ASSUME pc' = "send" PROVE \A o \in Working' : SymbolOf[o] # SymbolOf[cur']
    <2>1. ~Send
      BY <1>2 DEF Send
    <2>2. CASE mark_submission_attempted
      <3>1. cur \in Orders /\ cur' = cur /\ ~HasOtherActiveOpenOrder(cur) /\ ~row[cur].attempted
        BY <2>2, <1>t DEF mark_submission_attempted, ControlInv, HandInv, PreSubmit
      <3>2. ASSUME NEW o \in Working PROVE o \in list_non_terminal \ {cur} /\ row[o].filled < Qty
        <4>1. o \in Orders /\ sent[o] # 0
          BY <1>t DEF Working, VenueInv
        <4>2. row[o].attempted
          BY <4>1, <1>t DEF ControlInv, SubmissionInv
        <4>3. o \in ledger /\ o # cur
          BY <3>1, <4>1, <4>2, <1>t DEF ControlInv, SubmissionInv
        <4>4. row[o].status \notin TERMINAL_STATUSES
          BY <4>1, <1>t DEF SettledInv
        <4>5. venue[o].filled < Qty
          BY <4>1, <1>t, QtyAssumption DEF Working, VenueInv
        <4>6. row[o].filled <= venue[o].filled /\ row[o].filled \in Nat /\ venue[o].filled \in Nat /\ Qty \in Nat
          BY <4>1, <1>t, QtyAssumption DEF TrailInv, LedgerTrailsVenue, ControlInv, SubmissionInv, TypeInv, TypeOK, Row, VenueFact
        <4>7. QED
          BY <4>3, <4>4, <4>5, <4>6 DEF list_non_terminal
      <3>3. \A o \in Working : SymbolOf[o] # SymbolOf[cur]
        BY <3>1, <3>2 DEF HasOtherActiveOpenOrder
      <3>4. QED
        BY <2>1, <3>1, <3>3, <1>w
    <2>3. CASE Elsewhere
      <3>1. UNCHANGED <<pc, cur>>
        BY <1>2, <2>3 DEF Elsewhere, Crash
      <3>2. QED
        BY <1>2, <2>1, <3>1, <1>w, <1>t DEF AloneInv
    <2>4. ASSUME NEW o \in Orders, Intents(o) PROVE FALSE
      BY <1>2, <2>4 DEF Intents, Reserve, Block, Resume
    <2>5. CASE PrepareFails \/ RejectLocally \/ CreateIntent \/ CheckBlocks
      BY <1>2, <2>5 DEF PrepareFails, RejectLocally, CreateIntent, CheckBlocks, TransitionAndReturn, Return, Raise, GoIdle
    <2>6. QED
      BY <2>2, <2>3, <2>4, <2>5, <1>t, ElsewhereStep DEF Approach
  <1>3. QED
    BY <1>1, <1>2 DEF AloneInv

(* Of the opening orders of a symbol at most one is working at the venue or *)
(* on its way there, however stale the answers and whatever crashes, when   *)
(* no lookup proves an absence and the operator does not err.               *)
THEOREM OpeningsWorkAlone == EvidenceIsSound /\ Spec => []OneWorkingOpening
  <1> SUFFICES ASSUME EvidenceIsSound PROVE Spec => []OneWorkingOpening
    OBVIOUS
  <1>1. Init => OpeningInv
    <2> SUFFICES ASSUME Init PROVE OpeningInv
      OBVIOUS
    <2>1. FactsInv
      BY VenueInit
    <2>2. Working = {} /\ OneWorkingOpening
      BY DEF Init, Working, OneWorkingOpening
    <2>3. QED
      BY <2>1, <2>2 DEF Init, OpeningInv, PayloadInv, SettledInv, AloneInv, NewRow
  <1>2. OpeningInv /\ [Next]_vars => OpeningInv'
    BY FactsStep, PayloadStep, SettledStep, AloneStep DEF OpeningInv
  <1>3. OpeningInv => OneWorkingOpening
    BY DEF OpeningInv, AloneInv
  <1>4. QED
    BY <1>1, <1>2, <1>3, PTL DEF Spec

-----------------------------------------------------------------------------
(* The order path implements OrderPromise.  A settled order that is looked  *)
(* up again shows in the ledger what it showed at the venue, so that a row  *)
(* leaves a final status only when more is executed; a lookup that may      *)
(* miss the status or serve an older one is kept from settled orders by     *)
(* never writing synthetic fills.                                           *)
NoReopening == "average" \notin Details \/ Faults \cap {"stale_read", "bare_status"} = {}

EndedRows ==
    \A o \in Orders : row[o].status \in {"canceled", "expired"} => venue[o].status = row[o].status
NoSecondLook ==
    /\ \A o \in Orders : fills[o].synthetic = 0
    /\ pc = "store" => pay.detail \in Details
    /\ pc \in {"fetch", "store", "cancel"} => row[cur].status \notin TERMINAL_STATUSES
SameLook ==
    pc = "store" /\ row[cur].status \in {"canceled", "expired"} => pay.raw = row[cur].status
PromiseInv ==
    /\ FactsInv /\ PayloadInv /\ EndedRows
    /\ "average" \notin Details => NoSecondLook
    /\ Faults \cap {"stale_read", "bare_status"} = {} => SameLook

LEMMA EndedStep == PromiseInv /\ [Next]_vars => EndedRows'
  <1> SUFFICES ASSUME PromiseInv, [Next]_vars PROVE EndedRows'
    OBVIOUS
  <1>t. row \in [Orders -> Row] /\ ledger \subseteq Orders /\ pay \in Payload /\ ControlInv /\ EndedRows
    BY DEF PromiseInv, FactsInv, ControlInv, SubmissionInv, TypeInv, TypeOK
  <1>w. /\ RowStep
        /\ \A o \in Orders : venue[o].status \in {"closed", "canceled", "expired", "rejected"}
                               => venue'[o].status = venue[o].status
    BY EndsStep, RowSteps DEF PromiseInv, FactsInv
  <1>1. CASE SameRows
    BY <1>1, <1>t, <1>w DEF SameRows, EndedRows
  <1>2. CASE mark_submission_attempted
    <2>1. \A o \in Orders : row'[o].status = row[o].status
      BY <1>2, <1>t DEF mark_submission_attempted, Row
    <2>2. QED
      BY <2>1, <1>t, <1>w DEF EndedRows
  <1>3. ASSUME NEW o \in ledger, MovedUnknown(o) \/ MovedCancel(o) \/ MovedRejected(o) \/ MovedUnsubmitted(o)
        PROVE  EndedRows'
    <2>1. row'[o].status \notin {"canceled", "expired"} /\ \A p \in Orders : p # o => row'[p] = row[p]
      BY <1>3 DEF MovedUnknown, MovedCancel, MovedRejected, MovedUnsubmitted, Moved
    <2>2. QED
      BY <2>1, <1>t, <1>w DEF EndedRows
  <1>4. CASE Stored
    <2>1. cur \in Orders /\ row[cur] \in Row /\ UNCHANGED venue /\ \A o \in Orders : o # cur => row'[o] = row[o]
      BY <1>4, <1>t DEF Stored, outside
    <2>2. row'[cur].status = ParsedStatus(pay.raw, pay.filled, Qty)
      BY <1>4, <2>1, <1>t DEF Stored, StoredRow, Row
    <2>3. row'[cur].status \in {"canceled", "expired"} => pay.raw = row'[cur].status
      BY <2>2 DEF ParsedStatus
    <2>4. QED
      BY <1>4, <2>1, <2>3, <1>t DEF Stored, EndedRows, PromiseInv, PayloadInv
  <1>5. QED
    BY <1>1, <1>2, <1>3, <1>4, <1>w DEF RowStep

(* The calls that ask the venue about an order, or answer it, change no row *)
(* except to mark it cancel_pending.                                        *)
LEMMA LookStep ==
    ControlInv /\ [Next]_vars =>
        /\ pc' = "fetch" =>
             /\ UNCHANGED row
             /\ \/ cur' = cur /\ pc \in {"fetch", "cancel"}
                \/ cur' \in list_non_terminal
                \/ cur' \in Orders /\ NeedsLookup(cur')
        /\ pc' = "cancel" => \/ UNCHANGED <<row, pc, cur>>
                             \/ cur' \in Orders /\ row'[cur'].status = "cancel_pending"
  <1> SUFFICES ASSUME ControlInv, [Next]_vars
               PROVE  /\ pc' = "fetch" =>
                           /\ UNCHANGED row
                           /\ \/ cur' = cur /\ pc \in {"fetch", "cancel"}
                              \/ cur' \in list_non_terminal
                              \/ cur' \in Orders /\ NeedsLookup(cur')
                      /\ pc' = "cancel" => \/ UNCHANGED <<row, pc, cur>>
                                           \/ cur' \in Orders /\ row'[cur'].status = "cancel_pending"
    OBVIOUS
  <1>t. /\ row \in [Orders -> Row] /\ ledger \subseteq Orders /\ todo \subseteq list_non_terminal
        /\ pc \notin {"down", "idle", "recover"} => cur \in Orders
    BY DEF ControlInv, SubmissionInv, CallInv, TypeInv, TypeOK, CurOK
  <1> USE DEF durable, outside, process
  <1>0. CASE pc' \notin {"fetch", "cancel"}
    BY <1>0
  <1>1. ASSUME NEW o \in Orders, RequestCancel(o) PROVE pc' = "cancel" /\ cur' = o /\ row'[o].status = "cancel_pending"
    BY <1>1, <1>t DEF RequestCancel, CancelPending, Row
  <1>2. ASSUME NEW o \in Orders, Cancel(o) PROVE pc' = "idle" \/ RequestCancel(o)
    BY <1>2 DEF Cancel, Raise, GoIdle
  <1>3. CASE CancelResolved
    BY <1>1, <1>3, <1>t DEF CancelResolved, GoIdle
  <1>4. ASSUME NEW o \in Orders, Replay(o) \/ CancelUnknown(o) \/ RecoverReconciles(o)
        PROVE  /\ pc' # "cancel" /\ UNCHANGED row
               /\ pc' = "fetch" => cur' \in list_non_terminal \/ (cur' \in Orders /\ NeedsLookup(cur'))
    BY <1>4, <1>t DEF Replay, CancelUnknown, RecoverReconciles
  <1>5. CASE CancelFails
    BY <1>5 DEF CancelFails
  <1>6. ASSUME NEW new, TransitionAndReturn(new) \/ Return PROVE pc' \notin {"fetch", "cancel"}
    BY <1>6 DEF TransitionAndReturn, Return, Raise, GoIdle
  <1>7. CASE RejectLocally \/ CreateOrderAmbiguous \/ CreateOrderRefused \/ FetchFails \/ FetchInconclusive
             \/ FetchProvesAbsence \/ StoreMismatch \/ StoreIgnoresOlder \/ StoreRow
    BY <1>0, <1>6, <1>7 DEF RejectLocally, CreateOrderAmbiguous, CreateOrderRefused, FetchFails, FetchInconclusive,
                FetchProvesAbsence, StoreMismatch, StoreIgnoresOlder, StoreRow
  <1>8. ASSUME NEW o \in Orders, Reserve(o) \/ Block(o) \/ Resume(o) \/ RecoverExpires(o)
               \/ RecoverRaises(o) \/ RecoverSkips(o) \/ TtlElapses(o) \/ OperatorResolves(o)
        PROVE  pc' \notin {"fetch", "cancel"}
    BY <1>8 DEF Reserve, Block, Resume, RecoverExpires, RecoverRaises, RecoverSkips, TtlElapses, OperatorResolves,
                Raise, GoIdle
  <1>9. ASSUME NEW o \in Orders, RequestArrives(o) \/ RequestLost(o) \/ VenueFills(o) \/ VenueEnds(o)
        PROVE  UNCHANGED <<row, pc, cur>>
    BY <1>9 DEF RequestArrives, RequestLost, VenueFills, VenueEnds
  <1>10. ASSUME StartRecovery \/ PrepareFails \/ CreateIntent \/ CheckBlocks \/ mark_submission_attempted
               \/ Send \/ CreateOrderResponse \/ FetchFinds \/ StoreTrade \/ StoreSynthetic \/ CancelAnswered
               \/ RecoverDone \/ Restart \/ Crash
        PROVE  pc' \notin {"fetch", "cancel"}
    BY <1>10 DEF StartRecovery, PrepareFails, CreateIntent, CheckBlocks, mark_submission_attempted, Send,
                 CreateOrderResponse, FetchFinds, Answered, StoreTrade, StoreSynthetic, CancelAnswered, RecoverDone,
                 GoIdle, Restart, Crash
  <1>11. CASE UNCHANGED vars
    BY <1>11 DEF vars
  <1>12. QED
    BY <1>0, <1>1, <1>2, <1>3, <1>4, <1>5, <1>7, <1>8, <1>9, <1>10, <1>11 DEF Next, Begin, Continue, Environment

LEMMA NoSecondLookStep ==
    ASSUME PromiseInv, "average" \notin Details, [Next]_vars
    PROVE  NoSecondLook'
  <1>t. /\ row \in [Orders -> Row] /\ ControlInv /\ NoSecondLook
        /\ fills \in [Orders -> [real : 0 .. Qty, synthetic : 0 .. Qty]]
        /\ pc \notin {"down", "idle", "recover"} => cur \in Orders
    BY DEF PromiseInv, FactsInv, ControlInv, SubmissionInv, TypeInv, TypeOK, CurOK
  <1>w. HandStep /\ FillsStep
    BY <1>t, HandSteps, FillsSteps
  <1>1. \A o \in Orders : fills'[o].synthetic = 0
    BY <1>w, <1>t DEF NoSecondLook, FillsStep
  <1>2. pc' = "store" => pay'.detail \in Details /\ row'[cur'].status \notin TERMINAL_STATUSES
    BY <1>w, <1>t DEF NoSecondLook, HandStep, ControlInv, HandInv, TERMINAL_STATUSES
  <1>3. pc' = "fetch" => row'[cur'].status \notin TERMINAL_STATUSES
    BY <1>t, LookStep DEF NoSecondLook, list_non_terminal, NeedsLookup
  <1>4. pc' = "cancel" => row'[cur'].status \notin TERMINAL_STATUSES
    BY <1>t, LookStep DEF NoSecondLook, TERMINAL_STATUSES
  <1>5. QED
    BY <1>1, <1>2, <1>3, <1>4 DEF NoSecondLook

LEMMA SameLookStep ==
    ASSUME PromiseInv, Faults \cap {"stale_read", "bare_status"} = {}, [Next]_vars
    PROVE  SameLook'
  <1> SUFFICES ASSUME pc' = "store", row'[cur'].status \in {"canceled", "expired"}
               PROVE  pay'.raw = row'[cur'].status
    BY DEF SameLook
  <1>1. HandStep /\ cur' = cur /\ cur \in Orders /\ row' = row
    BY HandSteps DEF HandStep, PromiseInv, FactsInv
  <1>2. venue[cur].status = row[cur].status
    BY <1>1 DEF PromiseInv, EndedRows
  <1>3. CASE pc = "store" /\ UNCHANGED pay
    BY <1>1, <1>3 DEF PromiseInv, SameLook
  <1>4. CASE Genuine(cur, pay')
    <2>1. Snapshots(cur) = {venue[cur]} /\ pay'.raw # "none"
      BY <1>4 DEF Snapshots, Genuine
    <2>2. QED
      BY <1>1, <1>2, <1>4, <2>1 DEF Genuine
  <1>5. CASE CanceledAtVenue(cur) /\ pay'.raw = venue'[cur].status
    BY <1>1, <1>2, <1>5 DEF CanceledAtVenue, PromiseInv, FactsInv, ControlInv, SubmissionInv, TypeInv, TypeOK, VenueFact
  <1>6. QED
    BY <1>1, <1>3, <1>4, <1>5 DEF HandStep

LEMMA PromiseInvariant == Spec => []PromiseInv
  <1>1. Init => PromiseInv
    <2> SUFFICES ASSUME Init PROVE PromiseInv
      OBVIOUS
    <2>1. FactsInv
      BY VenueInit
    <2>2. QED
      BY <2>1 DEF Init, PromiseInv, PayloadInv, EndedRows, NoSecondLook, SameLook, NewRow
  <1>2. PromiseInv /\ [Next]_vars => PromiseInv'
    BY FactsStep, PayloadStep, EndedStep, NoSecondLookStep, SameLookStep DEF PromiseInv
  <1>3. QED
    BY <1>1, <1>2, PTL DEF Spec

(* Of the ledger, the orders table and the calls made, a step changes one.  *)
LEMMA OneTable ==
    ControlInv /\ [Next]_vars =>
        \/ \E o \in Orders : ledger' = ledger \cup {o} /\ UNCHANGED <<row, sent>>
        \/ Send
        \/ UNCHANGED <<ledger, sent>>
  <1> SUFFICES ASSUME ControlInv, [Next]_vars
               PROVE  \/ \E o \in Orders : ledger' = ledger \cup {o} /\ UNCHANGED <<row, sent>>
                      \/ Send
                      \/ UNCHANGED <<ledger, sent>>
    OBVIOUS
  <1>t. pc \notin {"down", "idle", "recover"} => cur \in Orders
    BY DEF ControlInv, SubmissionInv, TypeInv, CurOK
  <1> USE DEF durable, outside, process
  <1>1. ASSUME NEW o \in Orders, Block(o) PROVE ledger' = ledger \cup {o} /\ UNCHANGED <<row, sent>>
    BY <1>1 DEF Block
  <1>2. CASE PrepareFails \/ CreateIntent
    BY <1>2, <1>t DEF PrepareFails, CreateIntent
  <1>3. ASSUME NEW o \in Orders, Reserve(o) \/ Resume(o) \/ Replay(o) \/ Cancel(o)
               \/ CancelUnknown(o) \/ RecoverExpires(o) \/ RecoverRaises(o) \/ RecoverSkips(o)
               \/ RecoverReconciles(o) \/ TtlElapses(o) \/ OperatorResolves(o)
               \/ RequestArrives(o) \/ RequestLost(o) \/ VenueFills(o) \/ VenueEnds(o)
        PROVE  UNCHANGED <<ledger, sent>>
    BY <1>3 DEF Reserve, Resume, Replay, Cancel, CancelUnknown, RecoverExpires, RecoverRaises,
                RecoverSkips, RecoverReconciles, TtlElapses, OperatorResolves, RequestArrives, RequestLost, VenueFills,
                VenueEnds
  <1>4. ASSUME StartRecovery \/ RejectLocally \/ CheckBlocks
               \/ mark_submission_attempted \/ CreateOrderResponse \/ CreateOrderAmbiguous \/ CreateOrderRefused
               \/ FetchFails \/ FetchInconclusive \/ FetchProvesAbsence \/ FetchFinds \/ StoreMismatch \/ StoreTrade
               \/ StoreSynthetic \/ StoreIgnoresOlder \/ StoreRow \/ CancelResolved \/ CancelAnswered
               \/ CancelFails \/ RecoverDone \/ Restart \/ Crash \/ UNCHANGED vars
        PROVE  UNCHANGED <<ledger, sent>>
    BY <1>4 DEF StartRecovery, RejectLocally, CheckBlocks,
                mark_submission_attempted, CreateOrderResponse, CreateOrderAmbiguous, CreateOrderRefused, FetchFails,
                FetchInconclusive, FetchProvesAbsence, FetchFinds, Answered, StoreMismatch, StoreTrade,
                StoreSynthetic, StoreIgnoresOlder, StoreRow, CancelResolved, CancelAnswered, CancelFails,
                RecoverDone, Restart, Crash, vars
  <1>5. QED
    BY <1>1, <1>2, <1>3, <1>4 DEF Next, Begin, Continue, Environment

(* One order's phase and fill change: the promise's step for it.            *)
Phases == [o \in Orders |-> PhaseOf(o)]
Executed == [o \in Orders |-> row[o].filled]

LEMMA PhaseChange ==
    ASSUME NEW o \in Orders, \A p \in Orders \ {o} : PhaseOf(p)' = PhaseOf(p) /\ row'[p].filled = row[p].filled
    PROVE  /\ Phases' = [Phases EXCEPT ![o] = PhaseOf(o)']
           /\ Executed' = [Executed EXCEPT ![o] = row'[o].filled]
           /\ PhaseOf(o)' = PhaseOf(o) => Phases' = Phases
           /\ row'[o].filled = row[o].filled => Executed' = Executed
  BY DEF Phases, Executed

LEMMA PromiseMoves ==
    ASSUME NEW o \in Orders, UNCHANGED sent,
           \A p \in Orders \ {o} : PhaseOf(p)' = PhaseOf(p) /\ row'[p].filled = row[p].filled,
           row'[o].filled = row[o].filled,
           \/ PhaseOf(o)' = PhaseOf(o)
           \/ PhaseOf(o) = "absent" /\ PhaseOf(o)' = "intent"
           \/ PhaseOf(o) = "intent" /\ PhaseOf(o)' \in {"withdrawn", "attempted"}
           \/ PhaseOf(o) = "attempted" /\ PhaseOf(o)' = "settled"
    PROVE  Promise!Next \/ UNCHANGED Promise!promised
  <1>1. /\ Phases' = [Phases EXCEPT ![o] = PhaseOf(o)'] /\ Executed' = Executed
        /\ PhaseOf(o)' = PhaseOf(o) => Phases' = Phases
    BY PhaseChange
  <1>2. Phases[o] = PhaseOf(o)
    BY DEF Phases
  <1>3. CASE PhaseOf(o)' = PhaseOf(o)
    BY <1>1, <1>3 DEF Promise!promised, Phases, Executed
  <1>4. ASSUME NEW from, NEW to, PhaseOf(o) = from, PhaseOf(o)' = to PROVE Promise!Move(o, from, to)
    BY <1>1, <1>2, <1>4 DEF Promise!Move, Phases, Executed
  <1>5. CASE PhaseOf(o) = "absent" /\ PhaseOf(o)' = "intent"
    BY <1>4, <1>5 DEF Promise!Next, Promise!Intend
  <1>6. CASE PhaseOf(o) = "intent" /\ PhaseOf(o)' = "withdrawn"
    BY <1>4, <1>6 DEF Promise!Next, Promise!Withdraw
  <1>7. CASE PhaseOf(o) = "intent" /\ PhaseOf(o)' = "attempted"
    BY <1>4, <1>7 DEF Promise!Next, Promise!Attempt
  <1>8. CASE PhaseOf(o) = "attempted" /\ PhaseOf(o)' = "settled"
    BY <1>4, <1>8 DEF Promise!Next, Promise!Settle
  <1>9. QED
    BY <1>3, <1>5, <1>6, <1>7, <1>8

LEMMA PromiseLearns ==
    ASSUME NEW o \in Orders, UNCHANGED sent,
           \A p \in Orders \ {o} : PhaseOf(p)' = PhaseOf(p) /\ row'[p].filled = row[p].filled,
           row'[o].filled \in row[o].filled + 1 .. Qty,
           PhaseOf(o) \in {"attempted", "settled"}, PhaseOf(o)' \in {"attempted", "settled"}
    PROVE  Promise!Next
  <1>1. Phases' = [Phases EXCEPT ![o] = PhaseOf(o)'] /\ Executed' = [Executed EXCEPT ![o] = row'[o].filled]
    BY PhaseChange
  <1>2. Phases[o] = PhaseOf(o) /\ Executed[o] = row[o].filled
    BY DEF Phases, Executed
  <1>3. Promise!Learn(o)
    BY <1>1, <1>2 DEF Promise!Learn, Phases, Executed
  <1>4. QED
    BY <1>3 DEF Promise!Next

(* The payload in hand settles the order, or tells more of it.              *)
LEMMA StoredKeepsPromise ==
    ASSUME NoReopening, PromiseInv, Stored
    PROVE  Promise!Next \/ UNCHANGED Promise!promised
  <1>t. /\ row \in [Orders -> Row] /\ pay \in Payload /\ ControlInv /\ Qty \in Nat /\ Qty > 0
        /\ cur \in Orders /\ cur \in ledger /\ UNCHANGED <<ledger, sent>>
    BY QtyAssumption DEF PromiseInv, FactsInv, ControlInv, SubmissionInv, OnLedger, TypeInv, TypeOK, Stored, outside
  <1>o. PICK o \in Orders : o = cur
    BY <1>t
  <1>1. /\ row[o] \in Row /\ row[o].attempted /\ row[o].filled \in Nat
        /\ pay.filled \in Nat /\ pay.filled <= Qty /\ pay.filled >= row[o].filled /\ pay.raw \in RawStatus
    BY <1>o, <1>t DEF Stored, ControlInv, HandInv, Attempting, Row, Payload
  <1>2. /\ row'[o].status = ParsedStatus(pay.raw, pay.filled, Qty) /\ row'[o].attempted
        /\ row'[o].filled = pay.filled
        /\ \A p \in Orders \ {o} : row'[p] = row[p]
    BY <1>1, <1>o, <1>t DEF Stored, StoredRow, Row
  <1>3. \A p \in Orders \ {o} : PhaseOf(p)' = PhaseOf(p) /\ row'[p].filled = row[p].filled
    BY <1>2, <1>o, <1>t DEF PhaseOf
  <1>4. PhaseOf(o) \in {"attempted", "settled"} /\ PhaseOf(o)' \in {"attempted", "settled"}
    BY <1>1, <1>2, <1>o, <1>t DEF PhaseOf
  <1>5. CASE pay.filled > row[o].filled
    BY <1>1, <1>2, <1>3, <1>4, <1>5, <1>o, <1>t, PromiseLearns
  <1>6. CASE pay.filled = row[o].filled
    <2>1. ASSUME PhaseOf(o) = "settled", PhaseOf(o)' = "attempted" PROVE FALSE
      <3>1. /\ row[o].status \in TERMINAL_STATUSES
            /\ ParsedStatus(pay.raw, pay.filled, Qty) \notin TERMINAL_STATUSES
        BY <1>1, <1>2, <1>o, <1>t, <2>1 DEF PhaseOf
      <3>2. ParsedStatus(pay.raw, pay.filled, Qty) \in Allowed[row[o].status]
        BY <3>1, <1>o DEF Stored, ValidTransition
      <3>3. /\ row[o].status \in {"canceled", "expired", "expired_unsubmitted"}
            /\ ParsedStatus(pay.raw, pay.filled, Qty) = "partial"
        BY <3>1, <3>2 DEF Allowed, TERMINAL_STATUSES
      <3>4. pay.filled > 0 /\ pay.raw \notin {"canceled", "expired"}
        BY <3>3, <1>1 DEF ParsedStatus
      <3>5. row[o].status \in {"canceled", "expired"}
        BY <3>3, <3>4, <1>6, <1>o, <1>t DEF ControlInv, RowsInv
      <3>6. "average" \in Details
        BY <3>1, <1>o DEF PromiseInv, NoSecondLook, Stored
      <3>7. SameLook
        BY <3>6 DEF NoReopening, PromiseInv
      <3>8. QED
        BY <3>4, <3>5, <3>7, <1>o DEF SameLook, Stored
    <2>2. QED
      BY <1>2, <1>3, <1>4, <1>6, <1>o, <1>t, <2>1, PromiseMoves
  <1>7. QED
    BY <1>1, <1>5, <1>6

LEMMA MovedKeepsPromise ==
    ASSUME PromiseInv, ControlInv', NEW o \in ledger,
           MovedUnknown(o) \/ MovedCancel(o) \/ MovedRejected(o) \/ MovedUnsubmitted(o)
    PROVE  Promise!Next \/ UNCHANGED Promise!promised
  <1>t. ledger \subseteq Orders /\ row \in [Orders -> Row] /\ ControlInv /\ RowsInv'
    BY DEF PromiseInv, FactsInv, ControlInv, SubmissionInv, TypeInv, TypeOK
  <1>1. PICK s \in {"unknown", "cancel_pending", "rejected", "expired_unsubmitted"} : Moved(o, s)
    BY DEF MovedUnknown, MovedCancel, MovedRejected, MovedUnsubmitted
  <1>2. /\ row'[o].attempted = row[o].attempted /\ row'[o].status = s /\ row'[o].filled = row[o].filled
        /\ UNCHANGED <<ledger, sent>> /\ o \in Orders
        /\ \A p \in Orders \ {o} : PhaseOf(p)' = PhaseOf(p) /\ row'[p].filled = row[p].filled
    BY <1>1, <1>t DEF Moved, PhaseOf
  <1>3. CASE row[o].attempted
    <2>1. row[o].status \in TERMINAL_STATUSES => s \in TERMINAL_STATUSES
      BY <1>1, <1>t DEF Moved, Allowed, TERMINAL_STATUSES
    <2>2. PhaseOf(o) \in {"attempted", "settled"} /\ PhaseOf(o)' \in {"attempted", "settled"}
          /\ (PhaseOf(o) = "settled" => PhaseOf(o)' = "settled")
      BY <1>2, <1>3, <2>1 DEF PhaseOf
    <2>3. QED
      BY <1>2, <2>2, PromiseMoves
  <1>4. CASE ~row[o].attempted
    <2>1. s \in {"rejected", "expired_unsubmitted"}
      BY <1>2, <1>4, <1>t DEF RowsInv, Unsent
    <2>2. PhaseOf(o) \in {"intent", "withdrawn"} /\ PhaseOf(o)' = "withdrawn"
      BY <1>2, <1>4, <2>1 DEF PhaseOf
    <2>3. QED
      BY <1>2, <2>2, PromiseMoves
  <1>5. QED
    BY <1>3, <1>4

LEMMA PromiseStep ==
    ASSUME NoReopening, PromiseInv, [Next]_vars
    PROVE  Promise!Next \/ UNCHANGED Promise!promised
  <1>t. /\ row \in [Orders -> Row] /\ ledger \subseteq Orders /\ ControlInv /\ sent \in [Orders -> Nat]
        /\ pc \notin {"down", "idle", "recover"} => cur \in Orders
        /\ pc \notin {"down", "idle", "recover", "prepare"} => cur \in ledger
    BY DEF PromiseInv, FactsInv, ControlInv, SubmissionInv, OnLedger, TypeInv, TypeOK, CurOK
  <1>1. ASSUME NEW o \in Orders, ledger' = ledger \cup {o}, UNCHANGED <<row, sent>>
        PROVE  Promise!Next \/ UNCHANGED Promise!promised
    <2>1. \A p \in Orders \ {o} : PhaseOf(p)' = PhaseOf(p) /\ row'[p].filled = row[p].filled
      BY <1>1 DEF PhaseOf
    <2>2. CASE o \in ledger
      BY <1>1, <2>1, <2>2, PromiseMoves DEF PhaseOf
    <2>3. CASE o \notin ledger
      <3>1. PhaseOf(o) = "absent" /\ PhaseOf(o)' = "intent"
        BY <1>1, <1>t, <2>3 DEF PhaseOf, ControlInv, SubmissionInv
      <3>2. QED
        BY <1>1, <2>1, <3>1, PromiseMoves
    <2>4. QED
      BY <2>2, <2>3
  <1>2. CASE Send
    <2>1. cur \in Orders /\ cur \in ledger /\ sent[cur] = 0 /\ UNCHANGED <<ledger, row>>
          /\ row[cur].attempted /\ row[cur].status = "submitting" /\ sent' = [sent EXCEPT ![cur] = @ + 1]
      BY <1>2, <1>t DEF Send, durable, ControlInv, SubmissionInv, HandInv, BeforeSend
    <2>2. sent' = [sent EXCEPT ![cur] = 1]
      BY <2>1, <1>t
    <2>3. \A o \in Orders : PhaseOf(o)' = PhaseOf(o)
      BY <2>1 DEF PhaseOf
    <2>4. Phases' = Phases /\ Executed' = Executed /\ Phases[cur] = "attempted"
      BY <2>1, <2>3 DEF Phases, Executed, PhaseOf, TERMINAL_STATUSES
    <2>5. Promise!Ask(cur)
      BY <2>1, <2>2, <2>4 DEF Promise!Ask, Phases, Executed
    <2>6. QED
      BY <2>1, <2>5 DEF Promise!Next
  <1>3. CASE UNCHANGED <<ledger, sent>>
    <2>1. CASE SameRows
      <3>1. \A o \in Orders : PhaseOf(o)' = PhaseOf(o) /\ row'[o].filled = row[o].filled
        BY <1>3, <2>1 DEF SameRows, PhaseOf
      <3>2. Phases' = Phases /\ Executed' = Executed
        BY <3>1 DEF Phases, Executed
      <3>3. QED
        BY <1>3, <3>2 DEF Promise!promised, Phases, Executed
    <2>2. CASE mark_submission_attempted
      <3>1. PICK o \in Orders : o = cur
        BY <2>2, <1>t DEF mark_submission_attempted
      <3>2. o \in ledger /\ row[o] \in Row /\ PreSubmit(o)
        BY <2>2, <3>1, <1>t DEF mark_submission_attempted, ControlInv, HandInv
      <3>3. /\ row'[o].attempted /\ row'[o].status = "submitting" /\ row'[o].filled = row[o].filled
            /\ \A p \in Orders \ {o} : row'[p] = row[p]
        BY <2>2, <3>1, <3>2, <1>t DEF mark_submission_attempted, PreSubmit, Row
      <3>4. \A p \in Orders \ {o} : PhaseOf(p)' = PhaseOf(p) /\ row'[p].filled = row[p].filled
        BY <1>3, <3>3 DEF PhaseOf
      <3>5. PhaseOf(o) = "intent" /\ PhaseOf(o)' = "attempted"
        BY <1>3, <3>2, <3>3 DEF PhaseOf, PreSubmit, TERMINAL_STATUSES
      <3>6. QED
        BY <1>3, <3>3, <3>4, <3>5, PromiseMoves
    <2>3. ASSUME NEW o \in ledger, MovedUnknown(o) \/ MovedCancel(o) \/ MovedRejected(o) \/ MovedUnsubmitted(o)
          PROVE  Promise!Next \/ UNCHANGED Promise!promised
      BY <2>3, <1>t, ControlStep, MovedKeepsPromise
    <2>4. CASE Stored
      BY <2>4, StoredKeepsPromise
    <2>5. QED
      BY <2>1, <2>2, <2>3, <2>4, <1>t, RowSteps DEF RowStep
  <1>4. QED
    BY <1>1, <1>2, <1>3, <1>t, OneTable

(* The order path implements the promise: every step of it, on any          *)
(* interleaving of calls, crashes and venue answers, is a step the promise  *)
(* allows, as long as a settled order is not looked up with answers that    *)
(* may be older than the row.                                               *)
THEOREM OrderPathKeepsPromise == NoReopening /\ Spec => KeepsPromise
  <1> SUFFICES ASSUME NoReopening PROVE Spec => KeepsPromise
    OBVIOUS
  <1>1. Init => Promise!Init
    BY DEF Init, Promise!Init, PhaseOf, NewRow
  <1>2. PromiseInv /\ [Next]_vars => [Promise!Next]_(Promise!promised)
    BY PromiseStep
  <1>3. QED
    BY <1>1, <1>2, PromiseInvariant, PTL DEF Spec, KeepsPromise, Promise!Spec
=============================================================================
