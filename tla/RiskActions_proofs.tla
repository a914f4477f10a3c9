------------------------- MODULE RiskActions_proofs -------------------------
(* What an action keeps over any crash, for any symbols, actions, sizes and *)
(* bounds: its targets are worked out once, nothing opens from then on      *)
(* until it is over, and a reduction sells no more than it froze above its  *)
(* target, as long as none is left behind.                                  *)
EXTENDS RiskActions, FiniteSetTheorems, TLAPS

(* Where the tick works on no action. *)
Free == {"idle", "recover", "plan", "after"}

(* Only the shape of what is kept matters here, not its values.             *)
CheckpointShape(c) ==
    c = [status |-> c.status, positions |-> c.positions, supersedes |-> c.supersedes]
TickShape(t) ==
    t = [plan |-> t.plan, symbol |-> t.symbol, done |-> t.done, performed |-> t.performed]
StoreShape ==
    /\ checkpoint = [a \in Actions |-> checkpoint[a]]
    /\ \A a \in Actions : CheckpointShape(checkpoint[a])
    /\ index = [action |-> index.action, copy |-> index.copy]
    /\ CheckpointShape(index.copy)
    /\ index.action \in Actions \cup {NoAction}
    /\ directive \in Actions \cup {NoAction} /\ transition \in Actions \cup {NoAction}

(* The action has targets, or is through with them. *)
HasTargets(a) == checkpoint[a].status \in {"active", "completed"}

PlanOK ==
    /\ TickShape(tick)
    /\ pc \notin Free => tick.plan \in Actions
    /\ pc = "write_key" => checkpoint[tick.plan].status = "none"
    /\ pc \in {"cancel_openings", "freeze"} => ~(Reduction(tick.plan) /\ HasTargets(tick.plan))

IInv == StoreShape /\ PlanOK

(* What FrozenOnce says of a step. *)
TargetsKept ==
    \A a \in Actions \ Liquidations :
        HasTargets(a) => checkpoint'[a].positions = checkpoint[a].positions

-----------------------------------------------------------------------------
(* Most steps leave the store alone and go on with the action at hand, or   *)
(* drop it.  Only Begin starts a preparation, only the end of its           *)
(* cancellations leads to the freeze.                                       *)
GoesOn ==
    /\ TickShape(tick')
    /\ \/ pc' \in Free
       \/ pc' = pc /\ tick'.plan = tick.plan
       \/ /\ pc \notin Free /\ tick'.plan = tick.plan
          /\ pc' \notin {"write_key", "cancel_openings"}
          /\ pc' = "freeze" => pc = "cancel_openings"
Quiet == UNCHANGED <<index, checkpoint, directive, transition>> /\ GoesOn

LEMMA QuietStep == IInv /\ Quiet => IInv' /\ TargetsKept
<1> SUFFICES ASSUME IInv, Quiet PROVE IInv' /\ TargetsKept OBVIOUS
<1>1. UNCHANGED <<index, checkpoint, directive, transition>>
  BY DEF Quiet
<1>2. StoreShape' /\ TargetsKept
  BY <1>1 DEF IInv, StoreShape, TargetsKept, CheckpointShape
<1>3. PlanOK'
  <2>1. CASE pc' \in Free
    BY <2>1 DEF Quiet, GoesOn, PlanOK, Free
  <2>2. CASE pc' = pc /\ tick'.plan = tick.plan
    BY <1>1, <2>2 DEF Quiet, GoesOn, IInv, PlanOK, HasTargets
  <2>3. CASE /\ pc \notin Free /\ tick'.plan = tick.plan
             /\ pc' \notin {"write_key", "cancel_openings"}
             /\ pc' = "freeze" => pc = "cancel_openings"
    BY <1>1, <2>3 DEF Quiet, GoesOn, IInv, PlanOK, HasTargets
  <2> QED BY <2>1, <2>2, <2>3 DEF Quiet, GoesOn
<1> QED BY <1>2, <1>3 DEF IInv

LEMMA EndsFreely ==
  ASSUME NEW pending, NEW performed, EndRisk(pending, performed) PROVE GoesOn
  BY DEF EndRisk, GoesOn, TickShape, NoTick, Free

LEMMA SymbolGoesOn ==
  ASSUME NEW accepted, SymbolDone(accepted), TickShape(tick), pc \notin Free
  PROVE  GoesOn
<1> DEFINE performed == tick.performed \/ held' # held
           done == tick.done /\ accepted
<1>1. tick' = [tick EXCEPT !.performed = performed, !.symbol = NoAction, !.done = done]
  BY DEF SymbolDone, Moved, TickShape
<1> HIDE DEF performed, done
<1>2. TickShape(tick') /\ tick'.plan = tick.plan
  BY <1>1 DEF TickShape
<1> QED BY <1>2 DEF SymbolDone, GoesOn

LEMMA MovedKeepsPlan ==
  ASSUME TickShape(tick), tick' = Moved
  PROVE  TickShape(tick') /\ tick'.plan = tick.plan /\ tick'.symbol = tick.symbol
<1> DEFINE performed == tick.performed \/ held' # held
<1>1. tick' = [tick EXCEPT !.performed = performed] BY DEF Moved, TickShape
<1> HIDE DEF performed
<1> QED BY <1>1 DEF TickShape

LEMMA Start == Init => IInv
  BY DEF Init, IInv, StoreShape, PlanOK, NoIndex, NoCheckpoint, NoTick, CheckpointShape,
         TickShape, Free

(* A reconciliation, an operator, and a cancellation that raises.           *)
Aside ==
    \/ \E expired \in SUBSET Intents : Recover(expired)
    \/ \E o \in Orders : Confirm(o) \/ CancelRaises(o)

(* The steps of the market, of entries and stops, and of the crash.         *)
LEMMA OtherSteps ==
  ASSUME IInv,
         \/ \E o \in Orders : VenueTrades(o) \/ VenueEnds(o) \/ Enter(o)
         \/ \E s \in Symbols : Protect(s)
         \/ (\E due \in BOOLEAN : StartTick(due)) \/ Aside \/ EndTick \/ Crash
  PROVE  Quiet
<1> USE DEF Quiet, store, breaker, control, breaker, GoesOn
<1>t. TickShape(tick) BY DEF IInv, PlanOK
<1>p. ASSUME NEW o \in Orders, NEW qty, Place(o, qty) PROVE Quiet
  BY <1>t, <1>p DEF Place, Restart, Free, NoTick, TickShape
<1>1. ASSUME NEW o \in Orders, VenueTrades(o) \/ VenueEnds(o) \/ Enter(o) PROVE Quiet
  BY <1>t, <1>p, <1>1 DEF VenueTrades, VenueEnds, Enter
<1>2. ASSUME NEW s \in Symbols, Protect(s) PROVE Quiet
  BY <1>p, <1>2 DEF Protect, NextOrder, Unused, OrdersIn, OpeningIn, ExitsIn, Opening, Exits
<1>3. ASSUME NEW due \in BOOLEAN, StartTick(due) PROVE Quiet
  BY <1>t, <1>3 DEF StartTick, Free
<1>4. ASSUME Aside PROVE Quiet
  BY <1>t, <1>4 DEF Aside, Recover, Confirm, CancelRaises, Free, NoTick, TickShape
<1>5. CASE EndTick
  BY <1>5 DEF EndTick, Free, NoTick, TickShape
<1>6. CASE Crash
  BY <1>6 DEF Crash, Restart, Free, NoTick, TickShape
<1> QED BY <1>1, <1>2, <1>3, <1>4, <1>5, <1>6

(* The cancellations and exits of an action.                                *)
LEMMA ExitSteps ==
  ASSUME IInv,
         \/ \E o \in Orders : CancelOne(o)
         \/ Cancelled \/ OwnSync \/ Decide \/ SubmitExit \/ Send \/ Answer \/ ExitSync
         \/ \E s \in Symbols : ExitStart(s)
  PROVE  Quiet
<1>t. TickShape(tick) BY DEF IInv, PlanOK
<1>s. UNCHANGED <<index, checkpoint, directive, transition>>
  <2>1. ASSUME NEW o \in Orders, CancelOne(o) PROVE UNCHANGED <<index, checkpoint, directive, transition>>
    BY <2>1 DEF CancelOne, store, breaker
  <2>2. CASE Cancelled BY <2>2 DEF Cancelled, store, breaker
  <2>3. CASE OwnSync BY <2>3 DEF OwnSync, store, breaker
  <2>4. CASE Decide BY <2>4 DEF Decide, store, breaker
  <2>5. CASE SubmitExit BY <2>5 DEF SubmitExit, store, breaker
  <2>6. CASE Send BY <2>6 DEF Send, store, breaker
  <2>7. CASE Answer BY <2>7 DEF Answer, store, breaker
  <2>8. CASE ExitSync BY <2>8 DEF ExitSync, store, breaker
  <2>9. ASSUME NEW s \in Symbols, ExitStart(s) PROVE UNCHANGED <<index, checkpoint, directive, transition>>
    BY <2>9 DEF ExitStart, store, breaker
  <2> QED BY <2>1, <2>2, <2>3, <2>4, <2>5, <2>6, <2>7, <2>8, <2>9
<1>g. ASSUME pc \notin Free, GiveUp PROVE GoesOn
  BY <1>t, <1>g, EndsFreely, SymbolGoesOn DEF GiveUp
<1>1. ASSUME NEW o \in Orders, CancelOne(o) PROVE GoesOn
  <2>1. pc \notin Free
    BY <1>1 DEF CancelOne, CancelLoops, Free
  <2>2. CASE UNCHANGED <<pc, symbols, order, tick>>
    BY <1>t, <2>2 DEF GoesOn, TickShape
  <2> QED BY <1>1, <1>g, <2>1, <2>2 DEF CancelOne
<1>2. ASSUME Cancelled PROVE GoesOn
  <2>1. pc \in CancelLoops /\ pc \notin Free
    BY <1>2 DEF Cancelled, CancelLoops, Free
  <2>2. CASE GiveUp
    BY <1>g, <2>1, <2>2
  <2>3. CASE pc = "cancel_openings" /\ Goto("freeze")
    BY <1>t, <2>1, <2>3 DEF Goto, GoesOn, TickShape
  <2>4. CASE pc' = "recheck" /\ tick' = Moved
    BY <1>t, <2>1, <2>4, MovedKeepsPlan DEF GoesOn
  <2>5. ASSUME NEW accepted, SymbolDone(accepted) PROVE GoesOn
    BY <1>t, <2>1, <2>5, SymbolGoesOn
  <2> QED BY <1>2, <2>1, <2>2, <2>3, <2>4, <2>5 DEF Cancelled, CancelLoops
<1>3. ASSUME OwnSync PROVE GoesOn
  <2>1. pc \notin Free BY <1>3 DEF OwnSync, Free
  <2>2. CASE pc' = "decide" /\ tick' = Moved
    BY <1>t, <2>1, <2>2, MovedKeepsPlan DEF GoesOn
  <2>3. CASE SymbolDone(FALSE)
    BY <1>t, <2>1, <2>3, SymbolGoesOn
  <2> QED BY <1>3, <2>2, <2>3 DEF OwnSync
<1>4. ASSUME Decide PROVE GoesOn
  <2>1. pc \notin Free BY <1>4 DEF Decide, Free
  <2>2. CASE SymbolDone(FALSE)
    BY <1>t, <2>1, <2>2, SymbolGoesOn
  <2>3. ASSUME NEW loop \in {"cancel_remainder", "cancel_competing"}, NEW orders,
               CancelLoop(loop, orders)
        PROVE GoesOn
    BY <1>t, <2>1, <2>3 DEF CancelLoop, GoesOn, TickShape
  <2> QED BY <1>4, <2>2, <2>3 DEF Decide
<1>5. ASSUME SubmitExit PROVE GoesOn
  <2>1. pc \notin Free BY <1>5 DEF SubmitExit, Free
  <2>2. ASSUME NEW accepted, SymbolDone(accepted) PROVE GoesOn
    BY <1>t, <2>1, <2>2, SymbolGoesOn
  <2>3. CASE pc' = "send" /\ tick' = [tick EXCEPT !.performed = TRUE]
    BY <1>t, <2>1, <2>3 DEF GoesOn, TickShape
  <2> QED BY <1>5, <2>2, <2>3 DEF SubmitExit
<1>6. ASSUME Send PROVE GoesOn
  <2>1. pc \notin Free BY <1>6 DEF Send, Free
  <2>2. CASE SymbolDone(FALSE)
    BY <1>t, <2>1, <2>2, SymbolGoesOn
  <2>3. CASE Goto("answer")
    BY <1>t, <2>1, <2>3 DEF Goto, GoesOn, TickShape
  <2> QED BY <1>6, <2>2, <2>3 DEF Send
<1>7. ASSUME Answer PROVE GoesOn
  <2>1. pc \notin Free BY <1>7 DEF Answer, Free
  <2>2. CASE SymbolDone(FALSE)
    BY <1>t, <2>1, <2>2, SymbolGoesOn
  <2>3. CASE Goto("exit_sync")
    BY <1>t, <2>1, <2>3 DEF Goto, GoesOn, TickShape
  <2> QED BY <1>7, <2>2, <2>3 DEF Answer
<1>8. ASSUME ExitSync PROVE GoesOn
  <2>1. pc \notin Free BY <1>8 DEF ExitSync, Free
  <2>2. CASE SymbolDone(FALSE)
    BY <1>t, <2>1, <2>2, SymbolGoesOn
  <2>3. CASE CancelLoop("cancel_trim", Own(tick.symbol))
    BY <1>t, <2>1, <2>3 DEF CancelLoop, GoesOn, TickShape
  <2> QED BY <1>8, <2>2, <2>3 DEF ExitSync
<1>9. ASSUME NEW s \in Symbols, ExitStart(s) PROVE GoesOn
  <2> DEFINE performed == tick.performed \/ \E o \in Orders : Kind(o) = tick.plan /\ Live(o)
  <2>1. /\ pc \notin Free /\ pc' = "own_sync"
        /\ tick' = [tick EXCEPT !.symbol = s, !.performed = performed]
    BY <1>9, <1>t DEF ExitStart, Free, TickShape
  <2> HIDE DEF performed
  <2> QED BY <1>t, <2>1 DEF GoesOn, TickShape
<1> QED BY <1>s, <1>1, <1>2, <1>3, <1>4, <1>5, <1>6, <1>7, <1>8, <1>9 DEF Quiet

-----------------------------------------------------------------------------
(* The steps that decide upon an action or write of it.                     *)

LEMMA PlanIsAction ==
  ASSUME StoreShape, Plan # NoAction PROVE Plan \in Actions
  BY DEF StoreShape, Plan

LEMMA WrittenShape ==
  ASSUME NEW c, CheckpointShape(c), NEW status, NEW positions,
         NEW d, d = [c EXCEPT !.status = status, !.positions = positions]
  PROVE  CheckpointShape(d)
  BY DEF CheckpointShape

(* A write under one key leaves the others alone. *)
LEMMA OneKey ==
  ASSUME IInv, NEW a \in Actions, NEW c, CheckpointShape(c),
         checkpoint' = [checkpoint EXCEPT ![a] = c], UNCHANGED <<index, directive, transition>>,
         a \in Liquidations \/ ~HasTargets(a) \/ c.positions = checkpoint[a].positions
  PROVE  StoreShape' /\ TargetsKept /\ checkpoint'[a] = c
<1>1. checkpoint' = [b \in Actions |-> IF b = a THEN c ELSE checkpoint[b]]
  BY DEF IInv, StoreShape
<1> QED BY <1>1 DEF IInv, StoreShape, TargetsKept, CheckpointShape

LEMMA EveryStep == IInv /\ [Next]_vars => IInv' /\ TargetsKept
<1> SUFFICES ASSUME IInv, [Next]_vars PROVE IInv' /\ TargetsKept OBVIOUS
<1> USE DEF breaker
<1>t. StoreShape /\ TickShape(tick)
  BY DEF IInv, PlanOK
<1>1. CASE \/ \E o \in Orders : VenueTrades(o) \/ VenueEnds(o) \/ Enter(o)
           \/ \E s \in Symbols : Protect(s)
           \/ (\E due \in BOOLEAN : StartTick(due)) \/ Aside \/ EndTick \/ Crash
  BY <1>1, OtherSteps, QuietStep
<1>2. CASE \/ \E o \in Orders : CancelOne(o)
           \/ Cancelled \/ OwnSync \/ Decide \/ SubmitExit \/ Send \/ Answer \/ ExitSync
           \/ \E s \in Symbols : ExitStart(s)
  BY <1>2, ExitSteps, QuietStep
<1>3. CASE BreakerMoves
  BY <1>3, RiskActionsAssumption DEF BreakerMoves, IInv, StoreShape, PlanOK, TargetsKept, CheckpointShape, TickShape,
              HasTargets, store, control
<1>4. CASE RestoreCarried
  <2>1. /\ index.action \in Actions /\ ~HasTargets(index.action)
        /\ checkpoint' = [checkpoint EXCEPT ![index.action] = index.copy]
        /\ UNCHANGED <<index, directive, transition, pc, tick>> /\ pc \in Free
    BY <1>4, <1>t DEF RestoreCarried, Carried, StoreShape, HasTargets, control, Free
  <2>2. StoreShape' /\ TargetsKept
    BY <1>t, <2>1, OneKey DEF StoreShape
  <2> QED BY <1>t, <2>1, <2>2 DEF IInv, PlanOK, Free
<1>5. CASE TakeUp
  <2>1. UNCHANGED <<index, checkpoint, directive, transition>>
    BY <1>5 DEF TakeUp, store, breaker
  <2>2. CASE Plan = NoAction
    BY <1>5, <2>1, <2>2, EndsFreely, QuietStep DEF TakeUp, Quiet
  <2>3. CASE Plan # NoAction
    <3>1. pc' = "begin" /\ tick' = [tick EXCEPT !.plan = Plan] /\ Plan \in Actions
      BY <1>5, <1>t, <2>3, PlanIsAction DEF TakeUp
    <3>2. TickShape(tick') /\ tick'.plan \in Actions
      BY <1>t, <3>1 DEF TickShape
    <3>3. StoreShape' /\ TargetsKept
      BY <1>t, <2>1 DEF StoreShape, TargetsKept, CheckpointShape
    <3> QED BY <3>1, <3>2, <3>3 DEF IInv, PlanOK
  <2> QED BY <2>2, <2>3
<1>6. CASE BeginAction
  <2>1. /\ index' = [action |-> Plan, copy |-> New] /\ Plan \in Actions
        /\ UNCHANGED <<checkpoint, directive, transition>> /\ checkpoint[Plan].status = "none"
        /\ pc' = "write_key" /\ tick' = [tick EXCEPT !.plan = Plan]
    BY <1>6, <1>t, PlanIsAction DEF BeginAction
  <2>2. CheckpointShape(New)
    <3>1. CheckpointShape(NoCheckpoint)
      BY DEF NoCheckpoint, CheckpointShape
    <3> DEFINE status == "preparing"
               supersedes == Supersedes
    <3>2. New = [NoCheckpoint EXCEPT !.status = status, !.supersedes = supersedes]
      BY DEF New
    <3> HIDE DEF status, supersedes
    <3> QED BY <3>1, <3>2 DEF CheckpointShape
  <2>3. TickShape(tick') /\ tick'.plan = Plan
    BY <1>t, <2>1 DEF TickShape
  <2>4. StoreShape' /\ TargetsKept
    BY <1>t, <2>1, <2>2 DEF StoreShape, TargetsKept, CheckpointShape
  <2> QED BY <2>1, <2>3, <2>4 DEF IInv, PlanOK
<1>7. CASE WriteKey
  <2>1. /\ tick.plan \in Actions /\ ~HasTargets(tick.plan)
        /\ checkpoint' = [checkpoint EXCEPT ![tick.plan] = index.copy]
        /\ UNCHANGED <<index, directive, transition, tick>> /\ pc' = "begin"
    BY <1>7 DEF WriteKey, IInv, PlanOK, HasTargets, Free
  <2>2. StoreShape' /\ TargetsKept
    BY <1>t, <2>1, OneKey DEF StoreShape
  <2> QED BY <1>t, <2>1, <2>2 DEF IInv, PlanOK
<1>8. CASE Begin
  <2>1. /\ UNCHANGED <<index, checkpoint, directive, transition>>
        /\ pc = "begin" /\ tick.plan \in Actions
    BY <1>8 DEF Begin, store, breaker, IInv, PlanOK, Free
  <2>2. CASE EndRisk(FALSE, FALSE)
    BY <2>1, <2>2, EndsFreely, QuietStep DEF Quiet
  <2>3. CASE pc' = "exits" /\ UNCHANGED tick
    BY <1>t, <2>1, <2>3, QuietStep DEF Quiet, GoesOn, Free
  <2>4. CASE /\ ~Frozen(tick.plan)
             /\ ~(Reduction(tick.plan) /\ At(tick.plan).status = "completed")
             /\ pc' = "cancel_openings"
             /\ tick' = [tick EXCEPT !.performed = ToCancel(tick.plan) # {}]
    <3> DEFINE performed == ToCancel(tick.plan) # {}
    <3>1. tick' = [tick EXCEPT !.performed = performed]
      BY <2>4
    <3> HIDE DEF performed
    <3>2. TickShape(tick') /\ tick'.plan = tick.plan
      BY <1>t, <3>1 DEF TickShape
    <3>3. ~(Reduction(tick.plan) /\ HasTargets(tick.plan))
      BY <2>4 DEF Frozen, At, HasTargets
    <3>4. StoreShape' /\ TargetsKept
      BY <1>t, <2>1 DEF StoreShape, TargetsKept, CheckpointShape
    <3> QED BY <2>1, <2>4, <3>2, <3>3, <3>4 DEF IInv, PlanOK, HasTargets
  <2> QED BY <1>8, <2>2, <2>3, <2>4 DEF Begin
<1>9. CASE Freeze
  <2>1. /\ pc = "freeze" /\ tick.plan \in Actions /\ UNCHANGED <<index, directive, transition>>
        /\ ~(Reduction(tick.plan) /\ HasTargets(tick.plan))
    BY <1>9 DEF Freeze, IInv, PlanOK, Free
  <2>2. CASE EndRisk(TRUE, tick.performed) /\ UNCHANGED checkpoint
    BY <2>1, <2>2, EndsFreely, QuietStep DEF Quiet
  <2>3. CASE /\ checkpoint' = [checkpoint EXCEPT ![tick.plan] =
                  [@ EXCEPT !.status = "active", !.positions = Targets(tick.plan)]]
             /\ Goto("write_index")
    <3> DEFINE c == [checkpoint[tick.plan] EXCEPT !.status = "active",
                                                  !.positions = Targets(tick.plan)]
    <3>1. checkpoint' = [checkpoint EXCEPT ![tick.plan] = c]
      BY <1>t, <2>1, <2>3 DEF StoreShape
    <3>2. CheckpointShape(c)
      <4>1. CheckpointShape(checkpoint[tick.plan])
        BY <1>t, <2>1 DEF StoreShape
      <4> QED BY <4>1, WrittenShape
    <3> HIDE DEF c
    <3>3. tick.plan \in Liquidations \/ ~HasTargets(tick.plan)
      BY <2>1 DEF Reduction
    <3>4. StoreShape' /\ TargetsKept
      BY <2>1, <3>1, <3>2, <3>3, OneKey
    <3> QED BY <1>t, <2>1, <2>3, <3>4 DEF Goto, IInv, PlanOK
  <2> QED BY <1>9, <2>2, <2>3 DEF Freeze
<1>10. CASE WriteIndex
  <2>1. /\ pc = "write_index" /\ tick.plan \in Actions /\ UNCHANGED <<checkpoint, directive, transition, tick>>
        /\ index' = [action |-> tick.plan, copy |-> checkpoint[tick.plan]] /\ pc' = "supersede"
    BY <1>10 DEF WriteIndex, At, Goto, IInv, PlanOK, Free
  <2>2. StoreShape' /\ TargetsKept
    BY <1>t, <2>1 DEF StoreShape, TargetsKept, CheckpointShape
  <2> QED BY <1>t, <2>1, <2>2 DEF IInv, PlanOK
<1>11. CASE Supersede
  <2>1. /\ pc = "supersede" /\ tick.plan \in Actions /\ UNCHANGED <<index, directive, transition, tick>>
        /\ pc' = "exits"
        /\ checkpoint' = [a \in Actions |->
             IF a = At(tick.plan).supersedes /\ checkpoint[a].status # "none"
               THEN [checkpoint[a] EXCEPT !.status = "completed"] ELSE checkpoint[a]]
    BY <1>11 DEF Supersede, IInv, PlanOK, Free
  <2>2. \A a \in Actions :
          CheckpointShape(checkpoint'[a]) /\ checkpoint'[a].positions = checkpoint[a].positions
    <3> SUFFICES ASSUME NEW a \in Actions
                 PROVE  /\ CheckpointShape(checkpoint'[a])
                        /\ checkpoint'[a].positions = checkpoint[a].positions
      OBVIOUS
    <3>1. CheckpointShape(checkpoint[a]) BY <1>t DEF StoreShape
    <3>2. \/ checkpoint'[a] = checkpoint[a]
          \/ checkpoint'[a] = [checkpoint[a] EXCEPT !.status = "completed"]
      BY <2>1
    <3> QED BY <3>1, <3>2 DEF CheckpointShape
  <2>3. checkpoint' = [a \in Actions |-> checkpoint'[a]]
    BY <2>1
  <2>4. StoreShape' /\ TargetsKept
    BY <1>t, <2>1, <2>2, <2>3 DEF StoreShape, TargetsKept
  <2> QED BY <1>t, <2>1, <2>4 DEF IInv, PlanOK
<1>12. CASE Complete
  <2>1. pc = "exits" /\ tick.plan \in Actions /\ UNCHANGED <<index, directive, transition>>
    BY <1>12 DEF Complete, IInv, PlanOK, Free
  <2>2. CASE EndRisk(TRUE, tick.performed) /\ UNCHANGED checkpoint
    BY <2>1, <2>2, EndsFreely, QuietStep DEF Quiet
  <2>3. CASE /\ checkpoint' = [checkpoint EXCEPT ![tick.plan].status = "completed"]
             /\ Goto("clear")
    <3> DEFINE c == [checkpoint[tick.plan] EXCEPT !.status = "completed"]
    <3>1. checkpoint' = [checkpoint EXCEPT ![tick.plan] = c]
      BY <1>t, <2>1, <2>3 DEF StoreShape
    <3>2. CheckpointShape(c) /\ c.positions = checkpoint[tick.plan].positions
      BY <1>t, <2>1 DEF StoreShape, CheckpointShape
    <3> HIDE DEF c
    <3>3. StoreShape' /\ TargetsKept
      BY <2>1, <3>1, <3>2, OneKey
    <3> QED BY <1>t, <2>1, <2>3, <3>3 DEF Goto, IInv, PlanOK
  <2> QED BY <1>12, <2>2, <2>3 DEF Complete
<1>13. CASE ClearIndex
  <2>1. /\ EndRisk(FALSE, tick.performed) /\ UNCHANGED <<checkpoint, directive, transition>>
        /\ index' = IF index.action = tick.plan THEN NoIndex ELSE index
    BY <1>13 DEF ClearIndex
  <2>2. StoreShape' /\ TargetsKept
    BY <1>t, <2>1 DEF StoreShape, TargetsKept, CheckpointShape, NoIndex, NoCheckpoint
  <2>3. TickShape(tick') /\ pc' = "after"
    BY <2>1, EndsFreely DEF EndRisk, GoesOn
  <2> QED BY <2>2, <2>3 DEF IInv, PlanOK, Free
<1>14. CASE UNCHANGED vars
  <2>1. Quiet
    BY <1>14, <1>t DEF vars, Quiet, GoesOn
  <2> QED BY <2>1, QuietStep
<1> QED
  BY <1>1, <1>2, <1>3, <1>4, <1>5, <1>6, <1>7, <1>8, <1>9, <1>10, <1>11, <1>12, <1>13, <1>14
     DEF Next, Step, Aside

(* The targets of a reduction are frozen once (risk_actions.py:183-210):    *)
(* over any crash between its writes, the restoration from the index, a     *)
(* supersession and every repetition of its tick, the positions and targets *)
(* on record are those it first had.                                        *)
THEOREM TargetsAreFrozenOnce == Spec => FrozenOnce
<1>1. IInv /\ [Next]_vars =>
        [\A a \in Actions \ Liquidations :
           checkpoint[a].status \in {"active", "completed"}
              => checkpoint'[a].positions = checkpoint[a].positions]_vars
  BY EveryStep DEF TargetsKept, HasTargets
<1>2. IInv /\ [Next]_vars => IInv'
  BY EveryStep
<1> QED BY <1>1, <1>2, Start, PTL DEF Spec, FrozenOnce

-----------------------------------------------------------------------------
(* Nothing opens while an action has targets.                               *)

(* Nothing can buy, and what was bought is on record. *)
AllFinal == \A o \in Opening : venue[o] # "working" /\ recorded[o] = traded[o]

OrdersTyped ==
    /\ venue \in [Orders -> {"none", "working", "ended"}]
    /\ row \in [Orders -> {"none", "intent", "live", "unknown", "final"}]
    /\ traded = [o \in Orders |-> traded[o]] /\ recorded = [o \in Orders |-> recorded[o]]

(* So it is of an opening that did not arrive or has ended on record. *)
OpeningRows ==
    \A o \in Opening : row[o] \in {"none", "intent", "final"} \/ venue[o] = "none" =>
        venue[o] # "working" /\ recorded[o] = traded[o]

OrderFacts == OrdersTyped /\ OpeningRows

(* Where the tick is at a symbol. *)
AtSymbol == {"own_sync", "decide", "recheck", "send", "answer", "exit_sync",
             "cancel_remainder", "cancel_competing", "cancel_trim"}

(* A preparation still has every live opening before it, until its freeze;  *)
(* what an action sends is an exit.                                         *)
Hand ==
    /\ pc \in AtSymbol => tick.symbol \in Symbols
    /\ pc = "send" => order \in Exits
    /\ pc = "cancel_openings" => \A o \in Opening : Live(o) => o \in todo
    /\ pc \in {"freeze", "write_index", "supersede"} => AllFinal

Preparing == {"write_key", "begin", "cancel_openings", "freeze", "write_index"}

(* An unfinished action in the index is the one at hand, unless a           *)
(* liquidation is about to take its place, and keeps a tick from opening.   *)
IndexKept ==
    /\ Carried => index.copy.status = "preparing"
    /\ Carried => pc \in {"idle", "recover", "plan", "write_key"}
    /\ pc = "write_key" => index.action = tick.plan
    /\ pc = "write_index" => checkpoint[tick.plan].status = "active"
    /\ Active /\ pc \notin Free =>
          index.action = tick.plan \/ (tick.plan \in Liquidations /\ pc \in Preparing)
    /\ pc = "after" /\ ~tick.performed => ~Active

NInv == IInv /\ OrderFacts /\ Hand /\ IndexKept /\ NothingOpensWhileFrozen

-----------------------------------------------------------------------------
(* Orders.                                                                  *)

LEMMA NoOpeningIsExit ==
  /\ Opening \subseteq Orders /\ Exits \subseteq Orders
  /\ \A o \in Orders : Kind(o) \in Actions \cup {"stop"} => o \in Exits
  BY RiskActionsAssumption DEF Opening, Exits, Kind

LEMMA ReadFacts ==
  ASSUME OrderFacts, NEW known, NEW lost, Read(known, lost), UNCHANGED traded,
         venue' \in [Orders -> {"none", "working", "ended"}],
         \A o \in Orders : venue'[o] = venue[o] \/ (o \in known /\ venue'[o] = "ended")
  PROVE  /\ OrderFacts'
         /\ AllFinal => AllFinal'
         /\ \A o \in Orders \ known : row'[o] \in {"unknown", row[o]}
         /\ \A o \in Orders \ (known \cup lost) : row'[o] = row[o]
<1>1. /\ row' \in [Orders -> {"none", "intent", "live", "unknown", "final"}]
      /\ \A o \in Orders : row'[o] =
           IF o \notin known \/ row[o] = "intent" THEN row[o]
           ELSE IF o \in lost THEN "unknown"
           ELSE CASE venue'[o] = "none" -> "unknown"
                  [] venue'[o] = "working" -> "live"
                  [] venue'[o] = "ended" -> "final"
  BY DEF Read, OrderFacts, OrdersTyped
<1>2. /\ recorded' = [o \in Orders |-> recorded'[o]]
      /\ \A o \in Orders : recorded'[o] = IF o \in known \ lost THEN traded[o] ELSE recorded[o]
  BY DEF Read
<1>3. OrdersTyped'
  BY <1>1, <1>2 DEF OrderFacts, OrdersTyped
<1>4. OpeningRows'
  BY <1>1, <1>2, NoOpeningIsExit DEF OrderFacts, OpeningRows, OrdersTyped
<1>5. AllFinal => AllFinal'
  BY <1>2, NoOpeningIsExit DEF AllFinal
<1> QED BY <1>1, <1>3, <1>4, <1>5 DEF OrderFacts

LEMMA PlaceFacts ==
  ASSUME OrderFacts, NEW o \in Orders, NEW qty, Place(o, qty), row[o] \in {"none", "intent"}
  PROVE  OrderFacts' /\ (AllFinal /\ o \notin Opening => AllFinal')
<1>1. UNCHANGED <<traded, recorded>>
  BY DEF Place
<1>2. /\ venue' \in [Orders -> {"none", "working", "ended"}]
      /\ row' \in [Orders -> {"none", "intent", "live", "unknown", "final"}]
      /\ row'[o] \in {"intent", "live", "unknown"}
      /\ row'[o] = "intent" => venue'[o] = venue[o]
      /\ \A p \in Orders \ {o} : venue'[p] = venue[p] /\ row'[p] = row[p]
  BY DEF Place, OrderFacts, OrdersTyped
<1>3. OrderFacts'
  BY <1>1, <1>2, NoOpeningIsExit DEF OrderFacts, OrdersTyped, OpeningRows
<1> QED BY <1>1, <1>2, <1>3, NoOpeningIsExit DEF AllFinal

LEMMA SameFacts ==
  ASSUME OrderFacts, UNCHANGED <<venue, traded, row, recorded>>
  PROVE  OrderFacts' /\ (AllFinal => AllFinal')
  BY DEF OrderFacts, OrdersTyped, OpeningRows, AllFinal

(* Of all the steps only an entry can begin to buy. *)
LEMMA FactsStep ==
  ASSUME IInv, OrderFacts, pc = "send" => order \in Exits, [Next]_vars
  PROVE  /\ OrderFacts'
         /\ AllFinal /\ ~(\E o \in Orders : Enter(o)) => AllFinal'
<1> DEFINE Good == OrderFacts' /\ (AllFinal /\ ~(\E o \in Orders : Enter(o)) => AllFinal')
<1> USE DEF market, ledger
<1>1. ASSUME NEW o \in Orders, VenueTrades(o) PROVE Good
  <2>1. /\ venue[o] = "working" /\ UNCHANGED <<row, recorded>>
        /\ traded' = [traded EXCEPT ![o] = @ + 1]
        /\ venue' \in [Orders -> {"none", "working", "ended"}]
        /\ venue'[o] # "none" /\ \A p \in Orders \ {o} : venue'[p] = venue[p]
    BY <1>1 DEF VenueTrades, OrderFacts, OrdersTyped
  <2>2. traded' = [p \in Orders |-> traded'[p]] /\ \A p \in Orders \ {o} : traded'[p] = traded[p]
    BY <2>1 DEF OrderFacts, OrdersTyped
  <2>3. OrdersTyped'
    BY <2>1, <2>2 DEF OrderFacts, OrdersTyped
  <2> QED BY <2>1, <2>2, <2>3, NoOpeningIsExit DEF OrderFacts, OpeningRows, AllFinal
<1>2. ASSUME NEW o \in Orders, VenueEnds(o) PROVE Good
  <2>1. /\ UNCHANGED <<row, recorded, traded>>
        /\ venue' \in [Orders -> {"none", "working", "ended"}]
        /\ \A p \in Orders : venue'[p] = venue[p] \/ venue'[p] = "ended"
    BY <1>2 DEF VenueEnds, OrderFacts, OrdersTyped
  <2> QED BY <2>1, NoOpeningIsExit DEF OrderFacts, OrdersTyped, OpeningRows, AllFinal
<1>3. ASSUME NEW o \in Orders, Enter(o) PROVE Good
  BY <1>3, PlaceFacts DEF Enter
<1>4. ASSUME NEW s \in Symbols, Protect(s) PROVE Good
  <2>1. PICK o \in NextOrder("stop", s) : Place(o, Reducible(s))
    BY <1>4 DEF Protect
  <2>2. o \in Orders /\ o \notin Opening /\ row[o] = "none"
    BY RiskActionsAssumption DEF NextOrder, Unused, OrdersIn, OpeningIn, ExitsIn, Opening, Exits
  <2> QED BY <2>1, <2>2, PlaceFacts
<1>5. ASSUME NEW o \in Orders, CancelOne(o) PROVE Good
  <2>1. /\ venue' \in [Orders -> {"none", "working", "ended"}]
        /\ \A p \in Orders : venue'[p] = venue[p] \/ (p \in {o} /\ venue'[p] = "ended")
    BY <1>5 DEF CancelOne, OrderFacts, OrdersTyped
  <2>2. UNCHANGED traded /\ (Read({o}, {}) \/ Read({o}, {o}))
    BY <1>5 DEF CancelOne
  <2> QED BY <2>1, <2>2, ReadFacts
<1>6. ASSUME NEW s \in Symbols, ExitStart(s) PROVE Good
  <2>1. UNCHANGED <<venue, traded>> /\ \E lost : Read(Own(s), lost)
    BY <1>6 DEF ExitStart
  <2> QED BY <2>1, ReadFacts DEF OrderFacts, OrdersTyped
<1>7. CASE Answer
  <2>1. UNCHANGED <<venue, traded>> /\ (Read({order}, {}) \/ UNCHANGED <<row, recorded>>)
    BY <1>7 DEF Answer
  <2> QED BY <2>1, ReadFacts, SameFacts DEF OrderFacts, OrdersTyped
<1>8. CASE Send
  <2>1. UNCHANGED <<traded, recorded>> /\ order \in Exits
    BY <1>8 DEF Send
  <2>2. order \in Orders /\ order \notin Opening
    BY <2>1 DEF Exits
  <2>3. /\ venue' \in [Orders -> {"none", "working", "ended"}]
        /\ row' \in [Orders -> {"none", "intent", "live", "unknown", "final"}]
        /\ \A o \in Orders \ {order} : venue'[o] = venue[o] /\ row'[o] = row[o]
    BY <1>8, <2>2 DEF Send, OrderFacts, OrdersTyped
  <2> QED BY <2>1, <2>2, <2>3, NoOpeningIsExit DEF OrderFacts, OrdersTyped, OpeningRows, AllFinal
<1>9. CASE SubmitExit
  <2>1. UNCHANGED <<venue, traded, recorded>>
    BY <1>9 DEF SubmitExit
  <2>2. CASE UNCHANGED row
    BY <2>1, <2>2, SameFacts
  <2>3. CASE row' = [row EXCEPT ![order'] = "unknown"]
    BY <2>1, <2>3, NoOpeningIsExit DEF OrderFacts, OrdersTyped, OpeningRows, AllFinal
  <2> QED BY <1>9, <2>2, <2>3 DEF SubmitExit
<1>10. ASSUME NEW expired \in SUBSET Intents, Recover(expired) PROVE Good
  <2>1. PICK read, lost :
          /\ row' = [o \in Orders |->
                      IF o \in expired THEN "final"
                      ELSE IF o \notin read THEN row[o]
                      ELSE IF o \in lost \/ venue[o] = "none" THEN "unknown"
                      ELSE IF venue[o] = "working" THEN "live" ELSE "final"]
          /\ recorded' = [o \in Orders |-> IF o \in read \ lost THEN traded[o] ELSE recorded[o]]
          /\ read = {o \in Orders : Live(o)} \ Intents
    BY <1>10 DEF Recover
  <2>2. UNCHANGED <<venue, traded>>
    BY <1>10 DEF Recover
  <2>3. OrdersTyped'
    BY <2>1, <2>2 DEF OrderFacts, OrdersTyped
  <2>4. ASSUME NEW o \in Opening,
               row'[o] \in {"none", "intent", "final"} \/ venue'[o] = "none"
        PROVE  venue'[o] # "working" /\ recorded'[o] = traded'[o]
    <3>1. /\ o \in Orders /\ venue'[o] = venue[o] /\ traded'[o] = traded[o]
          /\ recorded'[o] \in {recorded[o], traded[o]}
      BY <2>1, <2>2, NoOpeningIsExit
    <3>2. /\ o \in expired => row[o] = "intent"
          /\ o \notin expired /\ o \notin read => row'[o] = row[o]
      BY <2>1, <3>1 DEF Intents
    <3>3. CASE o \in expired \/ o \notin read \/ venue[o] = "none"
      BY <2>4, <3>1, <3>2, <3>3 DEF OrderFacts, OpeningRows
    <3>4. CASE o \notin expired /\ o \in read /\ venue[o] # "none"
      <4>1. row'[o] = "final" /\ o \notin lost /\ venue[o] # "working"
        BY <2>1, <2>4, <3>1, <3>4
      <4> QED BY <2>1, <3>1, <3>4, <4>1
    <3> QED BY <3>3, <3>4
  <2>5. OpeningRows'
    BY <2>4 DEF OpeningRows, Opening, Orders, Kind
  <2>6. AllFinal => AllFinal'
    BY <2>1, <2>2, NoOpeningIsExit DEF AllFinal
  <2> QED BY <2>3, <2>5, <2>6 DEF OrderFacts
<1>11. CASE UNCHANGED <<venue, traded, row, recorded>>
  BY <1>11, SameFacts
<1>12. CASE BreakerMoves BY <1>11, <1>12 DEF BreakerMoves
<1>13. ASSUME NEW due \in BOOLEAN, StartTick(due) PROVE Good
  BY <1>11, <1>13 DEF StartTick
<1>14. CASE RestoreCarried \/ TakeUp \/ BeginAction \/ WriteKey \/ Begin
  BY <1>11, <1>14 DEF RestoreCarried, TakeUp, BeginAction, WriteKey, Begin
<1>15. CASE Cancelled \/ Freeze \/ WriteIndex \/ Supersede \/ Complete \/ ClearIndex
  BY <1>11, <1>15 DEF Cancelled, Freeze, WriteIndex, Supersede, Complete, ClearIndex
<1>16. CASE OwnSync \/ Decide \/ ExitSync \/ EndTick
  BY <1>11, <1>16 DEF OwnSync, Decide, ExitSync, EndTick
<1>18. ASSUME NEW o \in Orders, CancelRaises(o) PROVE Good
  BY <1>11, <1>18 DEF CancelRaises
<1>19. ASSUME NEW o \in Orders, Confirm(o) PROVE Good
  <2>1. /\ UNCHANGED <<venue, traded, recorded>>
        /\ venue[o] = "none" /\ row' = [row EXCEPT ![o] = "final"]
    BY <1>19 DEF Confirm
  <2> QED BY <2>1, NoOpeningIsExit DEF OrderFacts, OrdersTyped, OpeningRows, AllFinal
<1>20. CASE Crash
  <2>1. UNCHANGED <<venue, traded, recorded>>
    BY <1>20 DEF Crash
  <2>2. CASE UNCHANGED row
    BY <2>1, <2>2, <1>11
  <2>3. CASE pc = "send" /\ row' = [row EXCEPT ![order] = "intent"]
    <3>1. order \in Orders /\ order \notin Opening
      BY <2>3 DEF Exits
    <3> QED BY <2>1, <2>3, <3>1, NoOpeningIsExit
            DEF OrderFacts, OrdersTyped, OpeningRows, AllFinal
  <2>4. UNCHANGED row \/ (pc = "send" /\ row' = [row EXCEPT ![order] = "intent"])
    BY <1>20 DEF Crash
  <2> QED BY <2>2, <2>3, <2>4
<1>17. CASE UNCHANGED vars BY <1>11, <1>17 DEF vars
<1> QED
  BY <1>1, <1>2, <1>3, <1>4, <1>5, <1>6, <1>7, <1>8, <1>9, <1>10, <1>12, <1>13, <1>14,
     <1>15, <1>16, <1>17, <1>18, <1>19, <1>20 DEF Next, Step

-----------------------------------------------------------------------------
(* The tick.                                                                *)

(* The steps of cancellations and exits: they end the tick as performed or  *)
(* go on, and only a loop that is through leads to the freeze.              *)
Working == {"cancel_openings", "cancel_remainder", "cancel_competing", "cancel_trim",
            "exits", "own_sync", "decide", "recheck", "send", "answer", "exit_sync"}
Flow ==
    /\ pc \in Working
    /\ \/ pc' = "after" /\ tick'.performed
       \/ pc' = "freeze" /\ pc = "cancel_openings" /\ todo = {}
       \/ pc' \in Working /\ pc' # "cancel_openings" /\ pc # "cancel_openings"
       \/ /\ pc' = pc /\ pc = "cancel_openings"
          /\ \A o \in Opening : Live(o)' => Live(o) /\ (o \in todo => o \in todo')
    /\ pc' \in AtSymbol => tick'.symbol \in Symbols
    /\ pc' = "send" => order' \in Exits

LEMMA GivesUp ==
  ASSUME NEW performed, EndRisk(TRUE, performed) PROVE pc' = "after" /\ tick'.performed
<1> DEFINE p == TRUE \/ performed
<1>1. p = TRUE OBVIOUS
<1>2. pc' = "after" /\ tick' = [NoTick EXCEPT !.performed = p]
  BY DEF EndRisk
<1> HIDE DEF p
<1> QED BY <1>1, <1>2 DEF NoTick

LEMMA ExitFlow ==
  ASSUME IInv, OrderFacts, pc \in AtSymbol => tick.symbol \in Symbols,
         \/ \E o \in Orders : CancelOne(o)
         \/ Cancelled \/ OwnSync \/ Decide \/ SubmitExit \/ Send \/ Answer \/ ExitSync
         \/ \E s \in Symbols : ExitStart(s)
  PROVE  Flow
<1> USE DEF AtSymbol
<1>t. TickShape(tick) BY DEF IInv, PlanOK
<1>g. ASSUME pc \in CancelLoops, GiveUp PROVE Flow
  BY <1>g, GivesUp DEF GiveUp, SymbolDone, Flow, Working, CancelLoops
<1>s. ASSUME pc \in Working \ {"cancel_openings"}, NEW accepted, SymbolDone(accepted) PROVE Flow
  BY <1>s DEF SymbolDone, Flow, Working
<1>1. ASSUME NEW o \in Orders, CancelOne(o) PROVE Flow
  <2>1. pc \in CancelLoops
    BY <1>1 DEF CancelOne
  <2>2. CASE Settled(o) /\ todo' = todo \ {o} /\ UNCHANGED <<pc, symbols, order, tick>>
    <3>1. row'[o] = "final" /\ \A p \in Orders \ {o} : row'[p] = row[p]
      <4>1. /\ venue' \in [Orders -> {"none", "working", "ended"}]
            /\ \A p \in Orders : venue'[p] = venue[p] \/ (p \in {o} /\ venue'[p] = "ended")
        BY <1>1 DEF CancelOne, OrderFacts, OrdersTyped
      <4>2. UNCHANGED traded /\ (Read({o}, {}) \/ Read({o}, {o}))
        BY <1>1 DEF CancelOne
      <4> QED BY <2>2, <4>1, <4>2, ReadFacts DEF Settled
    <3>2. \A p \in Opening : Live(p)' => Live(p) /\ (p \in todo => p \in todo')
      BY <2>2, <3>1, NoOpeningIsExit DEF Live
    <3> QED BY <2>1, <2>2, <3>2 DEF Flow, Working, CancelLoops
  <2> QED BY <1>1, <1>g, <2>1, <2>2 DEF CancelOne
<1>2. ASSUME Cancelled PROVE Flow
  <2>1. pc \in CancelLoops /\ todo = {}
    BY <1>2 DEF Cancelled
  <2>2. CASE pc = "cancel_openings" /\ Goto("freeze")
    BY <2>1, <2>2 DEF Goto, Flow, Working
  <2>3. CASE pc = "cancel_competing" /\ pc' = "recheck" /\ tick' = Moved
    BY <1>t, <2>3, MovedKeepsPlan DEF Flow, Working
  <2>4. ASSUME NEW accepted, SymbolDone(accepted), pc # "cancel_openings" PROVE Flow
    BY <1>s, <2>1, <2>4 DEF Working, CancelLoops
  <2> QED BY <1>2, <1>g, <2>1, <2>2, <2>3, <2>4 DEF Cancelled, CancelLoops
<1>3. ASSUME OwnSync PROVE Flow
  <2>1. pc = "own_sync" BY <1>3 DEF OwnSync
  <2>2. CASE pc' = "decide" /\ tick' = Moved
    BY <1>t, <2>1, <2>2, MovedKeepsPlan DEF Flow, Working
  <2>3. CASE SymbolDone(FALSE)
    BY <1>s, <2>1, <2>3 DEF Working
  <2> QED BY <1>3, <2>2, <2>3 DEF OwnSync
<1>4. ASSUME Decide PROVE Flow
  <2>1. pc = "decide" BY <1>4 DEF Decide
  <2> QED BY <1>4, <1>s, <2>1 DEF Decide, CancelLoop, Flow, Working
<1>5. ASSUME SubmitExit PROVE Flow
  <2>1. pc = "recheck" BY <1>5 DEF SubmitExit
  <2>2. ASSUME NEW accepted, SymbolDone(accepted) PROVE Flow
    BY <1>s, <2>1, <2>2 DEF Working
  <2>3. CASE /\ order' \in NextOrder(tick.plan, tick.symbol) /\ pc' = "send"
             /\ tick' = [tick EXCEPT !.performed = TRUE]
    <3>1. tick.plan \in Actions /\ tick.symbol \in Symbols /\ tick'.symbol = tick.symbol
      BY <1>t, <2>1, <2>3 DEF IInv, PlanOK, Free, TickShape
    <3>2. order' \in Exits
      BY <2>3, <3>1, NoOpeningIsExit
         DEF NextOrder, Unused, OrdersIn, OpeningIn, ExitsIn
    <3> QED BY <2>1, <2>3, <3>2 DEF Flow, Working
  <2> QED BY <1>5, <2>2, <2>3 DEF SubmitExit
<1>6. ASSUME Send PROVE Flow
  <2>1. pc = "send" BY <1>6 DEF Send
  <2> QED BY <1>6, <1>s, <2>1 DEF Send, Goto, Flow, Working
<1>7. ASSUME Answer PROVE Flow
  <2>1. pc = "answer" BY <1>7 DEF Answer
  <2> QED BY <1>7, <1>s, <2>1 DEF Answer, Goto, Flow, Working
<1>8. ASSUME ExitSync PROVE Flow
  <2>1. pc = "exit_sync" BY <1>8 DEF ExitSync
  <2> QED BY <1>8, <1>s, <2>1 DEF ExitSync, CancelLoop, Flow, Working
<1>9. ASSUME NEW s \in Symbols, ExitStart(s) PROVE Flow
  <2> DEFINE performed == tick.performed \/ \E o \in Orders : Kind(o) = tick.plan /\ Live(o)
  <2>1. /\ pc = "exits" /\ pc' = "own_sync"
        /\ tick' = [tick EXCEPT !.symbol = s, !.performed = performed]
    BY <1>9, <1>t DEF ExitStart, TickShape
  <2> HIDE DEF performed
  <2>2. tick'.symbol = s BY <1>t, <2>1 DEF TickShape
  <2> QED BY <2>1, <2>2 DEF Flow, Working
<1> QED BY <1>1, <1>2, <1>3, <1>4, <1>5, <1>6, <1>7, <1>8, <1>9

(* What the invariant says of the store is kept by a step that leaves the   *)
(* store alone and opens nothing.                                           *)
LEMMA StoreKept ==
  ASSUME NInv, UNCHANGED <<index, checkpoint>>, AllFinal => AllFinal'
  PROVE  /\ NothingOpensWhileFrozen'
         /\ Carried' = Carried /\ Active' = Active
  BY DEF NInv, NothingOpensWhileFrozen, UnderWay, Carried, Active, AllFinal

LEMMA FlowKeeps ==
  ASSUME NInv, UNCHANGED <<index, checkpoint>>, Flow, OrderFacts', AllFinal => AllFinal',
         pc' \notin Free => tick'.plan = tick.plan,
         pc' = "freeze" => UNCHANGED <<venue, traded, row, recorded>>
  PROVE  Hand' /\ IndexKept'
<1>1. ~Carried
  BY DEF NInv, IndexKept, Flow, Working
<1>2. Hand'
  <2>1. CASE pc' = "freeze"
    <3>1. \A o \in Opening : ~Live(o) /\ row[o] \in {"none", "final"}
      BY <2>1, NoOpeningIsExit DEF Flow, Working, NInv, Hand, OrderFacts, OrdersTyped, Live
    <3>2. AllFinal
      BY <3>1 DEF AllFinal, NInv, OrderFacts, OpeningRows
    <3> QED BY <2>1, <3>2 DEF Hand, AtSymbol
  <2>2. CASE pc' = "cancel_openings"
    BY <2>2 DEF Flow, Working, NInv, Hand
  <2> QED BY <2>1, <2>2 DEF Flow, Working, Hand
<1>3. IndexKept'
  <2>1. Carried' = Carried /\ Active' = Active
    BY DEF Carried, Active
  <2>2. CASE pc' = "after"
    BY <1>1, <2>1, <2>2 DEF Flow, Working, IndexKept, Free
  <2>3. CASE pc' # "after"
    <3>1. pc \notin Free /\ pc' \notin Free \cup {"write_key", "write_index"}
      BY <2>3 DEF Flow, Working, Free
    <3>2. pc \in Preparing => pc' \in Preparing
      BY <2>3 DEF Flow, Working, Preparing
    <3> QED BY <1>1, <2>1, <2>3, <3>1, <3>2 DEF NInv, IndexKept, Free
  <2> QED BY <2>2, <2>3
<1> QED BY <1>2, <1>3

(* The market, entries and stops, and the ends of a tick.                   *)
LEMMA OuterKeeps ==
  ASSUME NInv, OrderFacts', ~(\E o \in Orders : Enter(o)) /\ AllFinal => AllFinal',
         \/ \E o \in Orders : VenueTrades(o) \/ VenueEnds(o) \/ Enter(o)
         \/ \E s \in Symbols : Protect(s)
         \/ BreakerMoves \/ (\E due \in BOOLEAN : StartTick(due))
         \/ Aside \/ EndTick \/ Crash \/ UNCHANGED vars
  PROVE  Hand' /\ IndexKept' /\ NothingOpensWhileFrozen'
<1>1. UNCHANGED <<index, checkpoint>>
  BY DEF VenueTrades, VenueEnds, Enter, Protect, Place, Restart, BreakerMoves, StartTick, Aside,
         Recover, Confirm, CancelRaises, EndTick, Crash, store, vars
<1>2. \/ UNCHANGED <<pc, todo, order, tick>>
      \/ pc = "idle" /\ pc' \in {"idle", "recover", "plan"}
      \/ pc = "recover" /\ pc' = "plan"
      \/ pc' = "idle"
  BY DEF VenueTrades, VenueEnds, Enter, Protect, Place, Restart, BreakerMoves, StartTick, Aside,
         Recover, Confirm, CancelRaises, EndTick, Crash, control, vars
<1>3. \/ pc = "after" \/ pc' \in Free
      \/ \A o \in Opening : Live(o)' => Live(o)
  <2>1. CASE Aside \/ Crash
    BY <2>1 DEF Aside, Recover, Confirm, CancelRaises, Crash, Restart, control, Free
  <2>2. CASE ~(Aside \/ Crash)
    <3>1. \/ pc = "after" \/ pc' \in Free \/ UNCHANGED row
      BY <2>2 DEF VenueTrades, VenueEnds, Enter, Protect, BreakerMoves, StartTick,
                  EndTick, control, vars, ledger, Free
    <3> QED BY <3>1 DEF Live
  <2> QED BY <2>1, <2>2
<1>4. NothingOpensWhileFrozen'
  <2>1. CASE \E o \in Orders : Enter(o)
    <3>1. pc = "after" /\ ~tick.performed
      BY <2>1 DEF Enter, MayOpen
    <3>2. ~Active /\ ~Carried
      BY <3>1 DEF NInv, IndexKept
    <3>3. \A a \in Actions : ~(checkpoint[a].status = "active" /\ UnderWay(a))
      BY <3>2, RiskActionsAssumption DEF UnderWay, Active
    <3>4. Carried' = Carried /\ Active' = Active
      BY <1>1 DEF Carried, Active
    <3> QED BY <1>1, <3>3, <3>4 DEF NothingOpensWhileFrozen, UnderWay
  <2>2. CASE ~(\E o \in Orders : Enter(o))
    BY <1>1, <2>2, StoreKept
  <2> QED BY <2>1, <2>2
<1>5. Carried' = Carried /\ Active' = Active
  BY <1>1 DEF Carried, Active
<1>6. IndexKept'
  BY <1>1, <1>2, <1>5 DEF NInv, IndexKept, Free
<1>7. Hand'
  <2>1. CASE pc' \in Free
    BY <2>1 DEF Hand, AtSymbol, Free
  <2>2. CASE pc' \notin Free
    <3>1. UNCHANGED <<pc, todo, order, tick>> /\ ~(\E o \in Orders : Enter(o))
      BY <1>2, <2>2 DEF Free, Enter
    <3> QED BY <1>3, <2>2, <3>1 DEF NInv, Hand, Free
  <2> QED BY <2>1, <2>2
<1> QED BY <1>4, <1>6, <1>7

LEMMA InitN == Init => NInv
<1> SUFFICES ASSUME Init PROVE NInv OBVIOUS
<1>1. IInv BY Start
<1>2. OrderFacts
  BY DEF Init, OrderFacts, OrdersTyped, OpeningRows, Opening
<1>3. ~Carried /\ ~Active /\ pc = "idle" /\ \A a \in Actions : checkpoint[a].status = "none"
  BY DEF Init, Carried, Active, NoIndex, NoCheckpoint
<1> QED
  BY <1>1, <1>2, <1>3
     DEF NInv, Hand, AtSymbol, IndexKept, NothingOpensWhileFrozen, Free

LEMMA NextN == NInv /\ [Next]_vars => NInv'
<1> SUFFICES ASSUME NInv, [Next]_vars PROVE NInv' OBVIOUS
<1>t. StoreShape /\ TickShape(tick) /\ IInv /\ OrderFacts
  BY DEF NInv, IInv, PlanOK
<1>f. IInv' /\ OrderFacts' /\ (~(\E o \in Orders : Enter(o)) /\ AllFinal => AllFinal')
  BY EveryStep, FactsStep DEF NInv, Hand
<1> DEFINE Goal == Hand' /\ IndexKept' /\ NothingOpensWhileFrozen'
<1>1. CASE \/ \E o \in Orders : VenueTrades(o) \/ VenueEnds(o) \/ Enter(o)
           \/ \E s \in Symbols : Protect(s)
           \/ BreakerMoves \/ (\E due \in BOOLEAN : StartTick(due))
           \/ Aside \/ EndTick \/ Crash \/ UNCHANGED vars
  <2>1. Goal BY <1>1, <1>f, OuterKeeps
  <2> QED BY <1>f, <2>1 DEF NInv
<1>2. CASE \/ \E o \in Orders : CancelOne(o)
           \/ Cancelled \/ OwnSync \/ Decide \/ SubmitExit \/ Send \/ Answer \/ ExitSync
           \/ \E s \in Symbols : ExitStart(s)
  <2>1. Quiet BY <1>2, <1>t, ExitSteps
  <2>2. Flow BY <1>2, <1>t, ExitFlow DEF NInv, Hand
  <2>3. pc' \notin Free => tick'.plan = tick.plan
    BY <2>1 DEF Quiet, GoesOn
  <2>4. ~(\E o \in Orders : Enter(o))
    BY <2>2 DEF Enter, Flow, Working
  <2>5. pc' = "freeze" => UNCHANGED <<venue, traded, row, recorded>>
    <3> SUFFICES ASSUME pc' = "freeze" PROVE UNCHANGED <<venue, traded, row, recorded>>
      OBVIOUS
    <3>1. pc = "cancel_openings" /\ todo = {}
      BY <2>2 DEF Flow, Working
    <3>2. Cancelled
      BY <1>2, <3>1
         DEF CancelOne, OwnSync, Decide, SubmitExit, Send, Answer, ExitSync, ExitStart
    <3> QED BY <3>2 DEF Cancelled, market, ledger
  <2>6. NothingOpensWhileFrozen'
    BY <1>f, <2>1, <2>4, StoreKept DEF Quiet
  <2>7. Hand' /\ IndexKept'
    BY <1>f, <2>1, <2>2, <2>3, <2>4, <2>5, FlowKeeps DEF Quiet
  <2> QED BY <1>f, <2>6, <2>7 DEF NInv
<1>u. ~(\E o \in Orders : Enter(o)) /\ pc # "after" => (AllFinal => AllFinal')
  BY <1>f
<1> USE DEF store
<1>3. CASE RestoreCarried
  <2>1. /\ index.action \in Actions /\ checkpoint[index.action].status = "none"
        /\ checkpoint' = [checkpoint EXCEPT ![index.action] = index.copy]
        /\ UNCHANGED <<index, pc, tick>> /\ pc = "plan"
        /\ index.copy.status = "preparing" /\ Carried
    BY <1>3, <1>t DEF RestoreCarried, Carried, StoreShape, control, NInv, IndexKept
  <2>2. /\ checkpoint'[index.action] = index.copy
        /\ \A a \in Actions \ {index.action} : checkpoint'[a] = checkpoint[a]
    BY <1>t, <2>1 DEF StoreShape
  <2>3. AllFinal => AllFinal'
    BY <1>f, <2>1 DEF Enter
  <2>4. NothingOpensWhileFrozen'
    BY <2>1, <2>2, <2>3 DEF NInv, NothingOpensWhileFrozen, UnderWay, AllFinal
  <2>5. Hand' /\ IndexKept'
    BY <2>1, <2>2 DEF Hand, AtSymbol, IndexKept, Carried, Free
  <2> QED BY <1>f, <2>4, <2>5 DEF NInv
<1>4. CASE TakeUp
  <2>1. pc = "plan" /\ ~Carried /\ UNCHANGED <<index, checkpoint>>
    BY <1>4 DEF TakeUp
  <2>2. AllFinal => AllFinal'
    BY <1>f, <2>1 DEF Enter
  <2>3. NothingOpensWhileFrozen' /\ Carried' = Carried /\ Active' = Active
    BY <2>1, <2>2, StoreKept
  <2>4. CASE Plan = NoAction
    <3>1. ~Active
      BY <1>t, <2>4, RiskActionsAssumption DEF Plan, Supersedes, StoreShape, Active
    <3>2. pc' = "after"
      BY <1>4, <2>4 DEF TakeUp, EndRisk
    <3>3. Hand' /\ IndexKept'
      BY <2>1, <2>3, <3>1, <3>2 DEF Hand, AtSymbol, IndexKept, Free
    <3> QED BY <1>f, <2>3, <3>3 DEF NInv
  <2>5. CASE Plan # NoAction
    <3>1. pc' = "begin" /\ tick' = [tick EXCEPT !.plan = Plan]
      BY <1>4, <2>5 DEF TakeUp
    <3>2. tick'.plan = Plan
      BY <1>t, <3>1 DEF TickShape
    <3>3. Active => Plan = index.action \/ Plan \in Liquidations
      BY <1>t, RiskActionsAssumption DEF Plan, Supersedes, StoreShape, Active
    <3>4. Hand' /\ IndexKept'
      BY <2>1, <2>3, <3>1, <3>2, <3>3 DEF Hand, AtSymbol, IndexKept, Free, Preparing
    <3> QED BY <1>f, <2>3, <3>4 DEF NInv
  <2> QED BY <2>4, <2>5
<1>5. CASE BeginAction
  <2>1. /\ index' = [action |-> Plan, copy |-> New] /\ Plan \in Actions
        /\ UNCHANGED checkpoint /\ checkpoint[Plan].status = "none"
        /\ pc = "plan" /\ pc' = "write_key" /\ tick' = [tick EXCEPT !.plan = Plan]
        /\ ~Carried
    BY <1>5, <1>t, PlanIsAction DEF BeginAction
  <2>2. tick'.plan = Plan
    BY <1>t, <2>1 DEF TickShape
  <2>3. New.status = "preparing" /\ New.supersedes = Supersedes
    BY DEF New, NoCheckpoint
  <2>4. Supersedes \in {index.action, NoAction}
        /\ (Supersedes # NoAction => Active)
    BY DEF Supersedes
  <2>5. AllFinal => AllFinal'
    BY <1>f, <2>1 DEF Enter
  <2>6. Carried' /\ ~Active'
    BY <1>t, <2>1, RiskActionsAssumption DEF Carried, Active
  <2>7. NothingOpensWhileFrozen'
    <3> SUFFICES ASSUME NEW a \in Actions, checkpoint[a].status = "active", UnderWay(a)'
                 PROVE  AllFinal'
      BY <2>1 DEF NothingOpensWhileFrozen, AllFinal
    <3>1. a = Supersedes
      BY <2>1, <2>3, <2>6 DEF UnderWay
    <3>2. UnderWay(a)
      BY <2>4, <3>1, RiskActionsAssumption DEF UnderWay
    <3> QED BY <2>5, <3>2 DEF NInv, NothingOpensWhileFrozen, AllFinal
  <2>8. Hand' /\ IndexKept'
    BY <2>1, <2>2, <2>3, <2>6 DEF Hand, AtSymbol, IndexKept, Free
  <2> QED BY <1>f, <2>7, <2>8 DEF NInv
<1>6. CASE WriteKey
  <2>1. /\ tick.plan \in Actions /\ checkpoint[tick.plan].status = "none"
        /\ checkpoint' = [checkpoint EXCEPT ![tick.plan] = index.copy]
        /\ UNCHANGED <<index, tick>> /\ pc = "write_key" /\ pc' = "begin"
        /\ index.action = tick.plan
    BY <1>6 DEF WriteKey, NInv, IInv, PlanOK, IndexKept, Free
  <2>2. Carried /\ index.copy.status = "preparing"
    BY <2>1, RiskActionsAssumption DEF Carried, NInv, IndexKept
  <2>3. /\ checkpoint'[index.action] = index.copy
        /\ \A a \in Actions \ {index.action} : checkpoint'[a] = checkpoint[a]
    BY <1>t, <2>1 DEF StoreShape
  <2>4. AllFinal => AllFinal'
    BY <1>f, <2>1 DEF Enter
  <2>5. NothingOpensWhileFrozen'
    BY <2>1, <2>2, <2>3, <2>4 DEF NInv, NothingOpensWhileFrozen, UnderWay, AllFinal
  <2>6. Hand' /\ IndexKept'
    BY <2>1, <2>2, <2>3 DEF Hand, AtSymbol, IndexKept, Carried, Free
  <2> QED BY <1>f, <2>5, <2>6 DEF NInv
<1>7. CASE Begin
  <2>1. pc = "begin" /\ ~Carried /\ UNCHANGED <<index, checkpoint>> /\ tick.plan \in Actions
    BY <1>7 DEF Begin, NInv, IndexKept, IInv, PlanOK, Free
  <2>2. AllFinal => AllFinal'
    BY <1>f, <2>1 DEF Enter
  <2>3. NothingOpensWhileFrozen' /\ Carried' = Carried /\ Active' = Active
    BY <2>1, <2>2, StoreKept
  <2>4. Active => index.action = tick.plan \/ tick.plan \in Liquidations
    BY <2>1 DEF NInv, IndexKept, Free
  <2>5. CASE Reduction(tick.plan) /\ At(tick.plan).status = "completed" /\ EndRisk(FALSE, FALSE)
    <3>1. ~Active
      BY <2>4, <2>5 DEF Reduction, At, Active
    <3>2. pc' = "after"
      BY <2>5 DEF EndRisk
    <3> QED
      BY <1>f, <2>1, <2>3, <3>1, <3>2 DEF NInv, Hand, AtSymbol, IndexKept, Free
  <2>6. CASE Frozen(tick.plan) /\ pc' = "exits" /\ UNCHANGED tick
    BY <1>f, <2>1, <2>3, <2>4, <2>6
       DEF NInv, Hand, AtSymbol, IndexKept, Free, Frozen, Reduction
  <2>7. CASE /\ pc' = "cancel_openings" /\ todo' = ToCancel(tick.plan)
             /\ tick' = [tick EXCEPT !.performed = ToCancel(tick.plan) # {}]
    <3> DEFINE performed == ToCancel(tick.plan) # {}
    <3>1. tick' = [tick EXCEPT !.performed = performed]
      BY <2>7
    <3> HIDE DEF performed
    <3>2. tick'.plan = tick.plan
      BY <1>t, <3>1 DEF TickShape
    <3>3. \A o \in Opening : Live(o)' => o \in todo'
      BY <1>7, <2>7, NoOpeningIsExit DEF Begin, ledger, Live, ToCancel
    <3> QED
      BY <1>f, <2>1, <2>3, <2>4, <2>7, <3>2, <3>3
         DEF NInv, Hand, AtSymbol, IndexKept, Free, Preparing
  <2> QED BY <1>7, <2>5, <2>6, <2>7 DEF Begin
<1>8. CASE Freeze
  <2>1. /\ pc = "freeze" /\ tick.plan \in Actions /\ UNCHANGED index /\ ~Carried /\ AllFinal
    BY <1>8 DEF Freeze, NInv, Hand, IndexKept, IInv, PlanOK, Free
  <2>2. AllFinal'
    BY <1>f, <2>1 DEF Enter
  <2>3. NothingOpensWhileFrozen'
    BY <2>2 DEF NothingOpensWhileFrozen, AllFinal
  <2>4. CASE EndRisk(TRUE, tick.performed) /\ UNCHANGED checkpoint
    <3>1. pc' = "after" /\ tick'.performed
      BY <2>4, GivesUp
    <3>2. Carried' = Carried
      BY <2>1, <2>4 DEF Carried
    <3> QED
      BY <1>f, <2>1, <2>3, <3>1, <3>2 DEF NInv, Hand, AtSymbol, IndexKept, Free
  <2>5. CASE /\ checkpoint' = [checkpoint EXCEPT ![tick.plan] =
                  [@ EXCEPT !.status = "active", !.positions = Targets(tick.plan)]]
             /\ Goto("write_index")
    <3> DEFINE positions == Targets(tick.plan)
               c == [checkpoint[tick.plan] EXCEPT !.status = "active", !.positions = positions]
    <3>1. checkpoint' = [checkpoint EXCEPT ![tick.plan] = c]
      BY <1>t, <2>1, <2>5 DEF StoreShape
    <3> HIDE DEF positions
    <3>2. c.status = "active"
      BY <1>t, <2>1 DEF StoreShape, CheckpointShape
    <3> HIDE DEF c
    <3>3. /\ checkpoint'[tick.plan].status = "active"
          /\ \A a \in Actions \ {tick.plan} : checkpoint'[a] = checkpoint[a]
      BY <1>t, <2>1, <3>1, <3>2 DEF StoreShape
    <3>4. ~Carried' /\ (Active' => Active \/ index.action = tick.plan)
      BY <1>t, <2>1, <3>3 DEF Carried, Active, StoreShape
    <3>5. pc' = "write_index" /\ tick' = tick
      BY <2>5 DEF Goto
    <3> QED
      BY <1>f, <2>1, <2>2, <2>3, <3>3, <3>4, <3>5
         DEF NInv, Hand, AtSymbol, IndexKept, Free, Preparing
  <2> QED BY <1>8, <2>4, <2>5 DEF Freeze
<1>9. CASE WriteIndex
  <2>1. /\ pc = "write_index" /\ tick.plan \in Actions /\ UNCHANGED <<checkpoint, tick>>
        /\ index' = [action |-> tick.plan, copy |-> checkpoint[tick.plan]] /\ pc' = "supersede"
        /\ AllFinal
    BY <1>9 DEF WriteIndex, At, Goto, NInv, Hand, IInv, PlanOK, Free
  <2>2. AllFinal'
    BY <1>f, <2>1 DEF Enter
  <2>3. checkpoint[tick.plan].status # "none"
    BY <2>1 DEF NInv, IndexKept
  <2>4. ~Carried'
    BY <2>1, <2>3 DEF Carried
  <2> QED
    BY <1>f, <2>1, <2>2, <2>4
       DEF NInv, Hand, AtSymbol, IndexKept, Free, NothingOpensWhileFrozen, AllFinal
<1>10. CASE Supersede
  <2>1. /\ pc = "supersede" /\ tick.plan \in Actions /\ UNCHANGED <<index, tick>> /\ ~Carried
        /\ pc' = "exits"
        /\ checkpoint' = [a \in Actions |->
             IF a = At(tick.plan).supersedes /\ checkpoint[a].status # "none"
               THEN [checkpoint[a] EXCEPT !.status = "completed"] ELSE checkpoint[a]]
    BY <1>10 DEF Supersede, NInv, IndexKept, IInv, PlanOK, Free
  <2>2. AllFinal'
    BY <1>f, <2>1 DEF Enter, NInv, Hand
  <2>3. \A a \in Actions : checkpoint'[a].status \in {"completed", checkpoint[a].status}
        /\ (checkpoint[a].status = "none" <=> checkpoint'[a].status = "none")
    <3> SUFFICES ASSUME NEW a \in Actions
                 PROVE  /\ checkpoint'[a].status \in {"completed", checkpoint[a].status}
                        /\ (checkpoint[a].status = "none" <=> checkpoint'[a].status = "none")
      OBVIOUS
    <3>1. CheckpointShape(checkpoint[a]) BY <1>t DEF StoreShape
    <3>2. \/ checkpoint'[a] = checkpoint[a]
          \/ /\ checkpoint'[a] = [checkpoint[a] EXCEPT !.status = "completed"]
             /\ checkpoint[a].status # "none"
      BY <2>1
    <3> QED BY <3>1, <3>2 DEF CheckpointShape
  <2>4. ~Carried' /\ (Active' => Active)
    BY <1>t, <2>1, <2>3 DEF Carried, Active, StoreShape
  <2>5. Active => index.action = tick.plan
    BY <2>1 DEF NInv, IndexKept, Free, Preparing
  <2> QED
    BY <1>f, <2>1, <2>2, <2>4, <2>5
       DEF NInv, Hand, AtSymbol, IndexKept, Free, NothingOpensWhileFrozen, AllFinal
<1>11. CASE Complete
  <2>1. /\ pc = "exits" /\ tick.plan \in Actions /\ UNCHANGED index /\ ~Carried
        /\ (Active => index.action = tick.plan)
    BY <1>11 DEF Complete, NInv, IndexKept, IInv, PlanOK, Free, Preparing
  <2>2. AllFinal => AllFinal'
    BY <1>f, <2>1 DEF Enter
  <2>3. CASE EndRisk(TRUE, tick.performed) /\ UNCHANGED checkpoint
    <3>1. pc' = "after" /\ tick'.performed
      BY <2>3, GivesUp
    <3>2. NothingOpensWhileFrozen' /\ Carried' = Carried
      BY <2>1, <2>2, <2>3, StoreKept
    <3> QED
      BY <1>f, <2>1, <3>1, <3>2 DEF NInv, Hand, AtSymbol, IndexKept, Free
  <2>4. CASE /\ checkpoint' = [checkpoint EXCEPT ![tick.plan].status = "completed"]
             /\ Goto("clear")
    <3>1. /\ checkpoint'[tick.plan].status = "completed"
          /\ checkpoint'[tick.plan].supersedes = checkpoint[tick.plan].supersedes
          /\ \A a \in Actions \ {tick.plan} : checkpoint'[a] = checkpoint[a]
      BY <1>t, <2>1, <2>4 DEF StoreShape, CheckpointShape
    <3>2. ~Carried' /\ (Active' => Active /\ index.action # tick.plan)
      BY <1>t, <2>1, <3>1 DEF Carried, Active, StoreShape
    <3>3. ~Active'
      BY <2>1, <3>2
    <3>4. NothingOpensWhileFrozen'
      BY <2>1, <2>2, <3>1, <3>2, <3>3 DEF NInv, NothingOpensWhileFrozen, UnderWay, AllFinal
    <3>5. pc' = "clear"
      BY <2>4 DEF Goto
    <3> QED
      BY <1>f, <3>2, <3>3, <3>4, <3>5 DEF NInv, Hand, AtSymbol, IndexKept, Free
  <2> QED BY <1>11, <2>3, <2>4 DEF Complete
<1>12. CASE ClearIndex
  <2>1. /\ pc = "clear" /\ pc' = "after" /\ UNCHANGED checkpoint /\ ~Carried
        /\ index' = IF index.action = tick.plan THEN NoIndex ELSE index
        /\ (Active => index.action = tick.plan)
    BY <1>12 DEF ClearIndex, EndRisk, NInv, IndexKept, Free, Preparing
  <2>2. AllFinal => AllFinal'
    BY <1>f, <2>1 DEF Enter
  <2>3. CASE index' = NoIndex
    <3>1. ~Carried' /\ ~Active' /\ index'.action = NoAction
      BY <2>3 DEF Carried, Active, NoIndex
    <3> QED
      BY <1>f, <2>1, <3>1, RiskActionsAssumption
         DEF NInv, Hand, AtSymbol, IndexKept, Free, NothingOpensWhileFrozen, UnderWay
  <2>4. CASE index' = index /\ ~Active
    <3>1. NothingOpensWhileFrozen' /\ Carried' = Carried /\ Active' = Active
      BY <2>1, <2>2, <2>4, StoreKept
    <3> QED
      BY <1>f, <2>1, <2>4, <3>1 DEF NInv, Hand, AtSymbol, IndexKept, Free
  <2> QED BY <2>1, <2>3, <2>4
<1> QED
  BY <1>1, <1>2, <1>3, <1>4, <1>5, <1>6, <1>7, <1>8, <1>9, <1>10, <1>11, <1>12
     DEF Next, Step, Aside

(* Whatever the symbols, actions and sizes, and over any crash, refusal and *)
(* lost answer: from its freeze to its end nothing can add to the positions *)
(* that an action reduces (risk_actions.py:181-206, tick_orchestrator.py    *)
(* 304-309).                                                                *)
THEOREM FrozenStaysClosed == Spec => []NothingOpensWhileFrozen
<1>1. NInv => NothingOpensWhileFrozen
  BY DEF NInv
<1> QED BY InitN, NextN, <1>1, PTL DEF Spec

-----------------------------------------------------------------------------
(* What a reduction may sell.                                               *)
(*                                                                          *)
(* The venue may have filled an order of a reduction more than anybody has  *)
(* read, and may yet fill the rest of it.  So what is bounded is not what   *)
(* was sold but what is committed: all of an order that can still trade.    *)
(* A new order fits below the bound because it is made out for what the     *)
(* venue holds when nothing of the symbol can trade any more, and what the  *)
(* venue holds is what was frozen, less all that was sold since: nothing    *)
(* opens in between.                                                        *)
(* The venue works on the order or is about to. *)
MayTrade(o) == venue[o] = "working" \/ (pc = "send" /\ order = o)
Committed == [o \in Orders |-> IF MayTrade(o) THEN size[o] ELSE traded[o]]
OthersOf(a, s) == ExitsIn[s] \ OrdersOf(a, s)

Reductions == Actions \ Liquidations

BookTyped ==
    /\ size \in [Orders -> Nat] /\ traded \in [Orders -> Nat] /\ recorded \in [Orders -> Nat]
    /\ held \in [Symbols -> Int]
    /\ \A o \in Orders :
         /\ recorded[o] <= traded[o] /\ traded[o] <= size[o]
         /\ row[o] \in {"none", "intent"} => venue[o] = "none" /\ traded[o] = 0
         /\ venue[o] = "none" => traded[o] = 0
         /\ venue[o] = "working" => traded[o] < size[o] /\ row[o] \in {"live", "unknown"}

NoPositions == [s \in Symbols |-> NoPosition]

(* A reduction has no positions before it has targets, and supersedes       *)
(* nothing; nor has a checkpoint that is still carried by the index.        *)
Frozenness ==
    /\ \A a \in Actions, s \in Symbols : /\ checkpoint[a].positions[s].original \in Nat
                                         /\ checkpoint[a].positions[s].target \in Nat
    /\ \A a \in Reductions : /\ ~HasTargets(a) => checkpoint[a].positions = NoPositions
                             /\ checkpoint[a].supersedes = NoAction
    /\ Carried => /\ index.copy.positions = NoPositions
                  /\ index.action \in Reductions => index.copy.supersedes = NoAction

(* The bound, on what is committed. *)
Within ==
    \A a \in Reductions, s \in Symbols :
        Cardinality(Units(Committed, OrdersOf(a, s)))
            <= checkpoint[a].positions[s].original - checkpoint[a].positions[s].target

(* What the venue holds is what was frozen, less what was sold since.       *)
Backed ==
    \A a \in Reductions : checkpoint[a].status = "active" =>
        \A s \in Covered(a) :
            Bought(traded, s) <= checkpoint[a].positions[s].original
                                   + Cardinality(Units(traded, OthersOf(a, s)))

Exiting == {"exits", "own_sync", "decide", "recheck", "send", "answer", "exit_sync",
            "cancel_remainder", "cancel_competing", "cancel_trim"}

(* Step by step through an exit: what the tick has made sure of so far.     *)
AtExit ==
    /\ pc \in Exiting \cup {"write_index", "supersede"} /\ tick.plan \in Reductions
          => checkpoint[tick.plan].status = "active"
    /\ pc \in Exiting /\ tick.plan \in Reductions => symbols \subseteq Covered(tick.plan)
    /\ pc \in Exiting \ {"exits"} => tick.symbol \in Symbols
    /\ pc \in Exiting \ {"exits"} /\ tick.plan \in Reductions => tick.symbol \in Covered(tick.plan)
    /\ pc = "cancel_competing" => \A o \in OrdersIn(tick.symbol) : Live(o) => o \in todo
    /\ pc = "recheck" => /\ \A o \in OrdersIn(tick.symbol) : venue[o] # "working"
                         /\ held[tick.symbol] = VenuePosition(tick.symbol)
    /\ pc = "send" => /\ order \in OrdersOf(tick.plan, tick.symbol)
                      /\ row[order] = "unknown" /\ venue[order] = "none" /\ size[order] > 0

BInv == BookTyped /\ Frozenness /\ Within /\ Backed /\ AtExit

LEMMA UnitsFinite ==
    ASSUME NEW S, IsFiniteSet(S), NEW q, \A o \in S : q[o] \in Nat
    PROVE  IsFiniteSet(Units(q, S))
<1> DEFINE Of == [o \in S |-> {o} \X (1 .. q[o])]
           All == {{o} \X (1 .. q[o]) : o \in S}
<1>1. Of \in Surjection(S, All)
  BY DEF Surjection
<1>2. IsFiniteSet(All)
  BY <1>1, FS_Surjection, Zenon
<1>3. ASSUME NEW o \in S PROVE IsFiniteSet({o} \X (1 .. q[o]))
  <2>1. IsFiniteSet({o})
    BY FS_Singleton
  <2>2. IsFiniteSet(1 .. q[o])
    BY FS_Interval
  <2> QED BY <2>1, <2>2, FS_Product
<1>4. \A T \in All : IsFiniteSet(T)
  BY <1>3
<1>5. IsFiniteSet(UNION All)
  BY <1>2, <1>4, FS_UNION, Zenon
<1> QED BY <1>5 DEF Units

LEMMA UnitsOf ==
    ASSUME NEW S, NEW q
    PROVE  \A u : u \in Units(q, S) <=> \E o \in S : \E i \in 1 .. q[o] : u = <<o, i>>
BY DEF Units

LEMMA CardinalityNat == \A S : IsFiniteSet(S) => Cardinality(S) \in Nat
<1>1. ASSUME NEW S, IsFiniteSet(S) PROVE Cardinality(S) \in Nat
  BY <1>1, FS_CardinalityType
<1> QED BY <1>1

LEMMA NoMoreUnits ==
    ASSUME NEW S, NEW T, IsFiniteSet(T), S \subseteq T
    PROVE  IsFiniteSet(S) /\ Cardinality(S) \in Nat /\ Cardinality(T) \in Nat
           /\ Cardinality(S) <= Cardinality(T)
BY FS_Subset, FS_CardinalityType

LEMMA Together ==
    ASSUME NEW S, IsFiniteSet(S), NEW T, IsFiniteSet(T)
    PROVE  /\ IsFiniteSet(S \cup T)
           /\ Cardinality(S) \in Nat /\ Cardinality(T) \in Nat /\ Cardinality(S \cup T) \in Nat
           /\ Cardinality(S \cup T) <= Cardinality(S) + Cardinality(T)
           /\ S \cap T = {} => Cardinality(S \cup T) = Cardinality(S) + Cardinality(T)
<1>1. Cardinality(S \cup T) = Cardinality(S) + Cardinality(T) - Cardinality(S \cap T)
  BY FS_Union
<1>2. IsFiniteSet(S \cup T) /\ IsFiniteSet(S \cap T)
  BY FS_Union, FS_Intersection
<1>3. Cardinality({}) = 0
  BY FS_EmptySet
<1>4. /\ Cardinality(S) \in Nat /\ Cardinality(T) \in Nat
      /\ Cardinality(S \cup T) \in Nat /\ Cardinality(S \cap T) \in Nat
  BY <1>2, CardinalityNat, Zenon
<1>5. Cardinality(S \cup T) <= Cardinality(S) + Cardinality(T)
  BY <1>1, <1>4
<1>6. S \cap T = {} => Cardinality(S \cup T) = Cardinality(S) + Cardinality(T)
  <2>1. S \cap T = {} => Cardinality(S \cap T) = 0
    BY <1>3, Zenon
  <2> QED BY <1>1, <1>4, <2>1
<1> QED BY <1>2, <1>4, <1>5, <1>6
LEMMA MoreUnits ==
    ASSUME NEW q, NEW r, NEW S \in SUBSET Orders, NEW T \in SUBSET Orders, S \subseteq T,
           \A o \in S : q[o] \in Nat /\ r[o] \in Nat /\ q[o] <= r[o]
    PROVE  Units(q, S) \subseteq Units(r, T)
<1>1. ASSUME NEW o \in S, NEW i \in 1 .. q[o] PROVE i \in 1 .. r[o]
  BY <1>1
<1> QED BY <1>1 DEF Units

LEMMA OrdersFinite ==
    ASSUME NEW s \in Symbols
    PROVE  /\ IsFiniteSet(OpeningIn[s]) /\ IsFiniteSet(ExitsIn[s])
           /\ OpeningIn[s] \subseteq Orders /\ ExitsIn[s] \subseteq Orders
           /\ OpeningIn[s] \subseteq Opening
           /\ OpeningIn[s] = {o \in Opening : SymbolOf(o) = s}
           /\ ExitsIn[s] = {o \in Exits : SymbolOf(o) = s}
           /\ \A o \in OrdersIn(s) : o \in Orders /\ SymbolOf(o) = s
<1> DEFINE kinds == Actions \cup {"entry", "stop"}
           numbers == (DOMAIN EntrySizes \cup 1 .. MaxStops) \cup 1 .. MaxExits
           pairs == kinds \X numbers
           name == [p \in pairs |-> <<p[1], s, p[2]>>]
           all == {<<p[1], s, p[2]>> : p \in pairs}
<1>1. IsFiniteSet(kinds)
  <2>1. IsFiniteSet({"entry"}) /\ IsFiniteSet({"stop"})
    BY FS_Singleton
  <2>2. IsFiniteSet({"entry"} \cup {"stop"})
    BY <2>1, FS_Union
  <2>3. {"entry", "stop"} = {"entry"} \cup {"stop"}
    OBVIOUS
  <2>4. IsFiniteSet({"entry", "stop"})
    BY <2>2, <2>3
  <2> QED BY <2>4, FS_Union, RiskActionsAssumption
<1>2. IsFiniteSet(numbers)
  <2>1. IsFiniteSet(1 .. MaxStops) /\ IsFiniteSet(1 .. MaxExits) /\ IsFiniteSet(DOMAIN EntrySizes)
    BY FS_Interval, RiskActionsAssumption
  <2> QED BY <2>1, FS_Union
<1>3. IsFiniteSet(pairs)
  <2> HIDE DEF kinds, numbers
  <2> QED BY <1>1, <1>2, FS_Product
<1>4. IsFiniteSet(all)
  <2> HIDE DEF pairs
  <2>1. name \in Surjection(pairs, all)
    BY DEF Surjection
  <2> QED BY <1>3, <2>1, FS_Surjection, Zenon
<1>5. /\ OpeningIn[s] = {o \in Opening : SymbolOf(o) = s}
      /\ ExitsIn[s] = {o \in Exits : SymbolOf(o) = s}
      /\ Opening \subseteq Orders /\ Exits \subseteq Orders
  BY DEF OpeningIn, ExitsIn, Opening, Exits
<1>6. ASSUME NEW o \in Orders, SymbolOf(o) = s PROVE o \in all
  <2>1. PICK k \in kinds, t \in Symbols, n \in numbers : o = <<k, t, n>>
    BY DEF Orders
  <2>2. t = s
    BY <1>6, <2>1 DEF SymbolOf
  <2>3. <<k, n>> \in pairs
    BY <2>1
  <2> HIDE DEF pairs
  <2> QED BY <2>1, <2>2, <2>3
<1> HIDE DEF all
<1>7. OpeningIn[s] \subseteq all /\ ExitsIn[s] \subseteq all
  BY <1>5, <1>6
<1>8. IsFiniteSet(OpeningIn[s]) /\ IsFiniteSet(ExitsIn[s])
  BY <1>4, <1>7, FS_Subset
<1> QED BY <1>5, <1>8 DEF OrdersIn

LEMMA OrdersOfIn ==
    ASSUME NEW s \in Symbols, NEW a \in Actions
    PROVE  /\ OrdersOf(a, s) \subseteq ExitsIn[s]
           /\ OrdersOf(a, s) \subseteq Orders /\ OthersOf(a, s) \subseteq Orders
           /\ OrdersOf(a, s) \cap OthersOf(a, s) = {}
           /\ OrdersOf(a, s) \cup OthersOf(a, s) = ExitsIn[s]
<1>1. \A o \in OpeningIn[s] : Kind(o) # a
  BY OrdersFinite, RiskActionsAssumption DEF Opening
<1>2. OrdersOf(a, s) \subseteq ExitsIn[s]
  BY <1>1 DEF OrdersOf, OrdersIn
<1> QED BY <1>2, OrdersFinite DEF OthersOf

(* The sizes of what was bought and sold.                                   *)
LEMMA Counted ==
    ASSUME NEW q, \A o \in Orders : q[o] \in Nat, NEW S \in SUBSET Orders, IsFiniteSet(S)
    PROVE  IsFiniteSet(Units(q, S)) /\ Cardinality(Units(q, S)) \in Nat
<1>1. IsFiniteSet(Units(q, S))
  BY UnitsFinite
<1> QED BY <1>1, CardinalityNat

LEMMA SplitUnits ==
    ASSUME NEW q, NEW S, NEW T, S \cap T = {}
    PROVE  /\ Units(q, S \cup T) = Units(q, S) \cup Units(q, T)
           /\ Units(q, S) \cap Units(q, T) = {}
<1>1. ASSUME NEW u PROVE u \in Units(q, S \cup T) <=> u \in Units(q, S) \cup Units(q, T)
  BY UnitsOf
<1>2. ASSUME NEW u, u \in Units(q, S), u \in Units(q, T) PROVE FALSE
  BY <1>2, UnitsOf
<1> QED BY <1>1, <1>2

LEMMA Split ==
    ASSUME NEW q, \A o \in Orders : q[o] \in Nat, NEW s \in Symbols, NEW a \in Actions
    PROVE  /\ IsFiniteSet(Units(q, OrdersOf(a, s))) /\ IsFiniteSet(Units(q, OthersOf(a, s)))
           /\ Cardinality(Units(q, OrdersOf(a, s))) \in Nat
           /\ Cardinality(Units(q, OthersOf(a, s))) \in Nat
           /\ Bought(q, s) \in Nat
           /\ SoldBy(q, s) = Cardinality(Units(q, OrdersOf(a, s)))
                               + Cardinality(Units(q, OthersOf(a, s)))
           /\ Net(q, s) \in Int
<1>1. /\ OrdersOf(a, s) \in SUBSET Orders /\ OthersOf(a, s) \in SUBSET Orders
      /\ IsFiniteSet(OrdersOf(a, s)) /\ IsFiniteSet(OthersOf(a, s))
  BY OrdersOfIn, OrdersFinite, FS_Subset DEF OthersOf
<1>2. /\ IsFiniteSet(Units(q, OrdersOf(a, s))) /\ IsFiniteSet(Units(q, OthersOf(a, s)))
      /\ Cardinality(Units(q, OrdersOf(a, s))) \in Nat
      /\ Cardinality(Units(q, OthersOf(a, s))) \in Nat
  BY <1>1, Counted
<1>3. Bought(q, s) \in Nat
  BY OrdersFinite, Counted DEF Bought
<1>4. /\ Units(q, ExitsIn[s]) = Units(q, OrdersOf(a, s)) \cup Units(q, OthersOf(a, s))
      /\ Units(q, OrdersOf(a, s)) \cap Units(q, OthersOf(a, s)) = {}
  <2>1. /\ OrdersOf(a, s) \cap OthersOf(a, s) = {}
        /\ OrdersOf(a, s) \cup OthersOf(a, s) = ExitsIn[s]
    BY OrdersOfIn
  <2>2. /\ Units(q, OrdersOf(a, s) \cup OthersOf(a, s))
             = Units(q, OrdersOf(a, s)) \cup Units(q, OthersOf(a, s))
        /\ Units(q, OrdersOf(a, s)) \cap Units(q, OthersOf(a, s)) = {}
    BY <2>1, SplitUnits
  <2> QED BY <2>1, <2>2, Zenon
<1>5. SoldBy(q, s) = Cardinality(Units(q, OrdersOf(a, s)))
                               + Cardinality(Units(q, OthersOf(a, s)))
  BY <1>2, <1>4, Together DEF SoldBy
<1> QED BY <1>2, <1>3, <1>5 DEF Net

(* The same for any symbol, without an action in sight.                     *)
LEMMA NetTyped ==
    ASSUME NEW q, \A o \in Orders : q[o] \in Nat, NEW s \in Symbols
    PROVE  Net(q, s) \in Int
<1>1. Cardinality(Units(q, OpeningIn[s])) \in Nat /\ Cardinality(Units(q, ExitsIn[s])) \in Nat
  BY OrdersFinite, Counted
<1> QED BY <1>1 DEF Net, Bought, SoldBy

LEMMA MinOf ==
    ASSUME NEW a \in Int, NEW b \in Int
    PROVE  Min({a, b}) = IF a <= b THEN a ELSE b
<1> DEFINE lo == IF a <= b THEN a ELSE b
<1>1. lo \in {a, b} /\ \A y \in {a, b} : lo =< y
  OBVIOUS
<1>2. \A x \in {a, b} : (\A y \in {a, b} : x =< y) => x = lo
  OBVIOUS
<1> HIDE DEF lo
<1>3. Min({a, b}) = lo
  BY <1>1, <1>2 DEF Min
<1> QED BY <1>3 DEF lo

-----------------------------------------------------------------------------
(* Steps that commit nothing new.                                           *)
(* What most steps do to the orders: nothing new is committed to an action, *)
(* and only what works at the venue trades.                                 *)
Calm ==
    /\ BookTyped'
    /\ \A o \in Orders : traded[o] <= traded'[o] /\ (traded'[o] # traded[o] => venue[o] = "working")
    /\ \A o \in Orders : Kind(o) \in Actions => Committed'[o] <= Committed[o]

NothingSent == pc' = "send" => pc = "send" /\ order' = order

BookRow(o) ==
    /\ recorded[o] <= traded[o] /\ traded[o] <= size[o]
    /\ row[o] \in {"none", "intent"} => venue[o] = "none" /\ traded[o] = 0
    /\ venue[o] = "none" => traded[o] = 0
    /\ venue[o] = "working" => traded[o] < size[o] /\ row[o] \in {"live", "unknown"}

LEMMA BookRows ==
    ASSUME BookTyped
    PROVE  \A o \in Orders : /\ BookRow(o)
                             /\ traded[o] \in Nat /\ recorded[o] \in Nat /\ size[o] \in Nat
                             /\ Committed[o] \in Nat /\ traded[o] <= Committed[o]
                             /\ Committed[o] = IF MayTrade(o) THEN size[o] ELSE traded[o]
BY DEF BookTyped, BookRow, Live, Committed

LEMMA BookNext ==
    ASSUME size' \in [Orders -> Nat], traded' \in [Orders -> Nat],
           recorded' \in [Orders -> Nat], held' \in [Symbols -> Int],
           \A o \in Orders : BookRow(o)'
    PROVE  BookTyped'
BY DEF BookTyped, BookRow, Live

(* An order that can trade less, or has not moved, commits no more.         *)
LEMMA CommitsNoMore ==
    ASSUME BookTyped, NEW o \in Orders, size'[o] = size[o], traded'[o] = traded[o],
           MayTrade(o)' => MayTrade(o)
    PROVE  Committed'[o] <= Committed[o]
<1>1. Committed'[o] = IF MayTrade(o)' THEN size'[o] ELSE traded'[o]
  BY DEF Committed
<1>2. /\ traded[o] \in Nat /\ size[o] \in Nat /\ traded[o] <= size[o]
      /\ Committed[o] = IF MayTrade(o) THEN size[o] ELSE traded[o]
  BY BookRows DEF BookRow
<1> QED BY <1>1, <1>2

LEMMA StillCalm ==
    ASSUME BookTyped, UNCHANGED <<venue, traded, row, recorded, size>>,
           held' \in [Symbols -> Int], NothingSent
    PROVE  Calm
<1>1. BookTyped'
  BY DEF BookTyped, Live
<1>2. ASSUME NEW o \in Orders PROVE Committed'[o] <= Committed[o]
  BY <1>2, CommitsNoMore DEF MayTrade, NothingSent
<1> QED BY <1>1, <1>2 DEF Calm, BookTyped

LEMMA SyncTyped ==
    ASSUME BookTyped, Synced
    PROVE  held' = [s \in Symbols |-> VenuePosition(s)] /\ held' \in [Symbols -> Int]
BY NetTyped, BookRows DEF Synced, VenuePosition

(* Reading orders, and cancelling one.                                      *)
LEMMA SettlingCalm ==
    ASSUME BookTyped, OrdersTyped, UNCHANGED <<traded, size>>, held' \in [Symbols -> Int],
           NothingSent,
           recorded' = [o \in Orders |-> recorded'[o]],
           \A o \in Orders :
             /\ venue'[o] = venue[o] \/ (venue[o] = "working" /\ venue'[o] = "ended")
             /\ recorded'[o] \in {recorded[o], traded[o]}
             /\ row'[o] \in {row[o], "unknown", "live", "final"}
             /\ row'[o] = "final" /\ row[o] # "final" => venue'[o] # "working"
    PROVE  Calm
<1>1. ASSUME NEW o \in Orders
      PROVE  BookRow(o)' /\ recorded'[o] \in Nat /\ Committed'[o] <= Committed[o]
  <2>1. /\ BookRow(o) /\ traded[o] \in Nat /\ recorded[o] \in Nat /\ size[o] \in Nat
        /\ row[o] \in {"none", "intent", "live", "unknown", "final"}
    BY BookRows DEF OrdersTyped
  <2>2. BookRow(o)'
    BY <2>1 DEF BookRow
  <2>3. MayTrade(o)' => MayTrade(o)
    BY DEF MayTrade, NothingSent
  <2> QED BY <2>1, <2>2, <2>3, CommitsNoMore
<1>2. BookTyped'
  <2>1. recorded' \in [Orders -> Nat]
    BY <1>1
  <2> QED BY <1>1, <2>1, BookNext DEF BookTyped
<1> QED BY <1>1, <1>2 DEF Calm, BookTyped

LEMMA ReadCalm ==
    ASSUME BookTyped, OrdersTyped, UNCHANGED <<traded, size>>, held' \in [Symbols -> Int],
           NothingSent, NEW known, NEW lost, Read(known, lost),
           venue' \in [Orders -> {"none", "working", "ended"}],
           \A o \in Orders : venue'[o] = venue[o] \/ (venue[o] = "working" /\ venue'[o] = "ended")
    PROVE  Calm
<1>1. /\ \A o \in Orders : row'[o] =
           IF o \notin known \/ row[o] = "intent" THEN row[o]
           ELSE IF o \in lost THEN "unknown"
           ELSE CASE venue'[o] = "none" -> "unknown"
                  [] venue'[o] = "working" -> "live"
                  [] venue'[o] = "ended" -> "final"
  BY DEF Read
<1>2. /\ recorded' = [o \in Orders |-> recorded'[o]]
      /\ \A o \in Orders : recorded'[o] = IF o \in known \ lost THEN traded[o] ELSE recorded[o]
  BY DEF Read
<1>3. ASSUME NEW o \in Orders
      PROVE  /\ row'[o] \in {row[o], "unknown", "live", "final"}
             /\ row'[o] = "final" /\ row[o] # "final" => venue'[o] # "working"
             /\ recorded'[o] \in {recorded[o], traded[o]}
  <2>1. venue'[o] \in {"none", "working", "ended"}
    OBVIOUS
  <2> QED BY <1>1, <1>2, <2>1
<1> QED BY <1>2, <1>3, SettlingCalm

LEMMA RecoverCalm ==
    ASSUME BookTyped, OrdersTyped, NEW expired \in SUBSET Intents, Recover(expired)
    PROVE  Calm
<1>1. UNCHANGED <<venue, traded, size>> /\ NothingSent
  BY DEF Recover, market, NothingSent
<1>2. held' \in [Symbols -> Int]
  BY SyncTyped DEF Recover, BookTyped
<1>3. PICK read, lost :
          /\ row' = [o \in Orders |->
                      IF o \in expired THEN "final"
                      ELSE IF o \notin read THEN row[o]
                      ELSE IF o \in lost \/ venue[o] = "none" THEN "unknown"
                      ELSE IF venue[o] = "working" THEN "live" ELSE "final"]
          /\ recorded' = [o \in Orders |-> IF o \in read \ lost THEN traded[o] ELSE recorded[o]]
          /\ read = {o \in Orders : Live(o)} \ Intents
  BY DEF Recover
<1>x. \A o \in expired : venue[o] = "none"
  BY DEF Intents, BookTyped
<1>4. ASSUME NEW o \in Orders
      PROVE  /\ row'[o] \in {row[o], "unknown", "live", "final"}
             /\ row'[o] = "final" /\ row[o] # "final" => venue'[o] # "working"
             /\ recorded'[o] \in {recorded[o], traded[o]}
             /\ venue'[o] = venue[o]
  BY <1>1, <1>3, <1>x
<1>5. recorded' = [o \in Orders |-> recorded'[o]]
  BY <1>3
<1> QED BY <1>1, <1>2, <1>4, <1>5, SettlingCalm

(* What was found out to be absent ends without a trace.                    *)
LEMMA ConfirmCalm ==
    ASSUME BookTyped, OrdersTyped, NEW o \in Orders, Confirm(o)
    PROVE  Calm
<1>1. /\ UNCHANGED <<venue, traded, recorded, size, held>> /\ NothingSent
      /\ venue[o] = "none" /\ \A p \in Orders : row'[p] = IF p = o THEN "final" ELSE row[p]
  BY DEF Confirm, market, control, NothingSent, OrdersTyped
<1>2. held' \in [Symbols -> Int] /\ recorded' = [p \in Orders |-> recorded'[p]]
  BY <1>1 DEF BookTyped
<1> QED BY <1>1, <1>2, SettlingCalm

LEMMA CrashCalm ==
    ASSUME BookTyped, OrdersTyped, Crash,
           pc = "send" => order \in Orders /\ venue[order] = "none"
    PROVE  Calm
<1>1. /\ UNCHANGED <<venue, traded, recorded, size>> /\ NothingSent
      /\ held' = [s \in Symbols |-> 0]
      /\ UNCHANGED row \/ (pc = "send" /\ row' = [row EXCEPT ![order] = "intent"])
  BY DEF Crash, Restart, market, NothingSent
<1>2. CASE UNCHANGED row
  BY <1>1, <1>2, StillCalm
<1>3. CASE pc = "send" /\ row' = [row EXCEPT ![order] = "intent"]
  <2>1. ASSUME NEW p \in Orders PROVE BookRow(p)' /\ Committed'[p] <= Committed[p]
    <3>1. BookRow(p) /\ traded[p] \in Nat /\ recorded[p] \in Nat /\ size[p] \in Nat
      BY BookRows
    <3>2. row'[p] = IF p = order THEN "intent" ELSE row[p]
      BY <1>3 DEF OrdersTyped
    <3>3. BookRow(p)'
      BY <1>1, <1>3, <3>1, <3>2 DEF BookRow
    <3>4. MayTrade(p)' => MayTrade(p)
      BY <1>1 DEF MayTrade, NothingSent
    <3> QED BY <1>1, <3>3, <3>4, CommitsNoMore
  <2>2. BookTyped'
    BY <1>1, <2>1, BookNext DEF BookTyped
  <2> QED BY <1>1, <2>1, <2>2 DEF Calm, BookTyped
<1> QED BY <1>1, <1>2, <1>3

LEMMA CancelCalm ==
    ASSUME BookTyped, OrdersTyped, NEW o \in Orders, CancelOne(o)
    PROVE  Calm
<1>1. /\ UNCHANGED <<traded, size, held>> /\ pc \in CancelLoops
      /\ Read({o}, {}) \/ Read({o}, {o})
      /\ venue' \in {venue, [venue EXCEPT ![o] = IF @ = "working" THEN "ended" ELSE @]}
  BY DEF CancelOne
<1>2. NothingSent
  BY <1>1 DEF CancelOne, CancelLoops, NothingSent, GiveUp, EndRisk, SymbolDone
<1>3. /\ venue' \in [Orders -> {"none", "working", "ended"}]
      /\ \A p \in Orders : venue'[p] = venue[p] \/ (venue[p] = "working" /\ venue'[p] = "ended")
  BY <1>1 DEF OrdersTyped
<1>4. held' \in [Symbols -> Int]
  BY <1>1 DEF BookTyped
<1> QED BY <1>1, <1>2, <1>3, <1>4, ReadCalm

LEMMA ExitStartCalm ==
    ASSUME BookTyped, OrdersTyped, NEW s \in Symbols, ExitStart(s)
    PROVE  Calm
<1>1. /\ UNCHANGED <<venue, traded, size, held>> /\ NothingSent
      /\ \E lost : Read(Own(s), lost)
  BY DEF ExitStart, NothingSent
<1>2. held' \in [Symbols -> Int] /\ venue' \in [Orders -> {"none", "working", "ended"}]
  BY <1>1 DEF BookTyped, OrdersTyped
<1> QED BY <1>1, <1>2, ReadCalm

LEMMA AnswerCalm ==
    ASSUME BookTyped, OrdersTyped, Answer
    PROVE  Calm
<1>1. /\ UNCHANGED <<venue, traded, size, held>> /\ NothingSent
      /\ Read({order}, {}) \/ UNCHANGED ledger
  BY DEF Answer, NothingSent, Goto, SymbolDone
<1>2. held' \in [Symbols -> Int] /\ venue' \in [Orders -> {"none", "working", "ended"}]
  BY <1>1 DEF BookTyped, OrdersTyped
<1> QED BY <1>1, <1>2, ReadCalm, StillCalm DEF ledger

LEMMA TradeCalm ==
    ASSUME BookTyped, OrdersTyped, NEW o \in Orders, VenueTrades(o)
    PROVE  Calm
<1>1. /\ venue[o] = "working" /\ UNCHANGED <<row, recorded, size, held, pc, order>>
      /\ traded' = [traded EXCEPT ![o] = @ + 1]
      /\ venue' = [venue EXCEPT ![o] = IF traded[o] + 1 = size[o] THEN "ended" ELSE @]
  BY DEF VenueTrades, ledger, control
<1>2. ASSUME NEW p \in Orders
      PROVE  /\ BookRow(p)' /\ traded'[p] \in Nat /\ Committed'[p] <= Committed[p]
             /\ traded[p] <= traded'[p] /\ (traded'[p] # traded[p] => venue[p] = "working")
  <2>1. /\ BookRow(p) /\ traded[p] \in Nat /\ recorded[p] \in Nat /\ size[p] \in Nat
        /\ Committed[p] = IF MayTrade(p) THEN size[p] ELSE traded[p]
    BY BookRows
  <2>2. Committed'[p] = IF MayTrade(p)' THEN size[p] ELSE traded'[p]
    BY <1>1 DEF Committed
  <2>3. CASE p # o
    <3>1. traded'[p] = traded[p] /\ venue'[p] = venue[p]
      BY <1>1, <2>3 DEF BookTyped, OrdersTyped
    <3>2. MayTrade(p)' <=> MayTrade(p)
      BY <1>1, <3>1 DEF MayTrade
    <3> QED BY <1>1, <2>1, <2>2, <3>1, <3>2 DEF BookRow
  <2>4. CASE p = o
    <3>1. /\ traded'[p] = traded[p] + 1
          /\ venue'[p] = IF traded[p] + 1 = size[p] THEN "ended" ELSE "working"
      BY <1>1, <2>4 DEF BookTyped, OrdersTyped
    <3>2. MayTrade(p) /\ venue[p] = "working"
      BY <1>1, <2>4 DEF MayTrade
    <3>3. traded[p] < size[p] /\ row[p] \in {"live", "unknown"}
      BY <2>1, <3>2 DEF BookRow
    <3>4. Committed'[p] = size[p]
      BY <2>1, <2>2, <3>1 DEF MayTrade
    <3> QED BY <1>1, <2>1, <3>1, <3>2, <3>3, <3>4 DEF BookRow
  <2> QED BY <2>3, <2>4
<1>3. traded' \in [Orders -> Nat]
  BY <1>1, <1>2 DEF BookTyped
<1>4. BookTyped'
  BY <1>1, <1>2, <1>3, BookNext DEF BookTyped
<1> QED BY <1>2, <1>4 DEF Calm

LEMMA EndsCalm ==
    ASSUME BookTyped, OrdersTyped, NEW o \in Orders, VenueEnds(o)
    PROVE  Calm
<1>1. /\ UNCHANGED <<row, recorded, traded, size, held, pc, order>>
      /\ \A p \in Orders : venue'[p] = venue[p] \/ (venue[p] = "working" /\ venue'[p] = "ended")
  BY DEF VenueEnds, ledger, control, OrdersTyped
<1>2. /\ held' \in [Symbols -> Int] /\ NothingSent
      /\ recorded' = [p \in Orders |-> recorded'[p]]
  BY <1>1 DEF BookTyped, NothingSent
<1> QED BY <1>1, <1>2, SettlingCalm

(* Entries and stops are no orders of an action.                            *)
LEMMA PlaceCalm ==
    ASSUME BookTyped, OrdersTyped, NEW o \in Orders, NEW qty \in Nat \ {0}, Place(o, qty),
           row[o] \in {"none", "intent"}, Kind(o) \notin Actions, pc # "send"
    PROVE  Calm
<1>1. /\ UNCHANGED <<traded, recorded>> /\ pc' # "send"
      /\ held' = held \/ held' = [s \in Symbols |-> 0]
      /\ size' = [size EXCEPT ![o] = qty]
      /\ \/ row'[o] \in {"live", "unknown"} /\ venue'[o] \in {venue[o], "working"}
         \/ row'[o] = "intent" /\ venue'[o] = venue[o]
      /\ \A p \in Orders \ {o} : venue'[p] = venue[p] /\ row'[p] = row[p]
  BY DEF Place, Restart, control, OrdersTyped
<1>2. ASSUME NEW p \in Orders
      PROVE  BookRow(p)' /\ (Kind(p) \in Actions => Committed'[p] <= Committed[p])
  <2>1. BookRow(p) /\ traded[p] \in Nat /\ recorded[p] \in Nat /\ size[p] \in Nat
    BY BookRows
  <2>2. CASE p # o
    <3>1. venue'[p] = venue[p] /\ row'[p] = row[p] /\ size'[p] = size[p]
      BY <1>1, <2>2 DEF BookTyped
    <3>2. MayTrade(p)' => MayTrade(p)
      BY <1>1, <3>1 DEF MayTrade
    <3> QED BY <1>1, <2>1, <3>1, <3>2, CommitsNoMore DEF BookRow
  <2>3. CASE p = o
    <3>1. size'[p] = qty
      BY <1>1, <2>3 DEF BookTyped
    <3> QED BY <1>1, <2>1, <2>3, <3>1 DEF BookRow
  <2> QED BY <2>2, <2>3
<1>3. BookTyped'
  BY <1>1, <1>2, BookNext DEF BookTyped
<1> QED BY <1>1, <1>2, <1>3 DEF Calm, BookTyped

LEMMA EnterCalm ==
    ASSUME BookTyped, OrdersTyped, NEW o \in Orders, Enter(o)
    PROVE  Calm
<1>1. pc = "after" /\ row[o] \in {"none", "intent"} /\ Place(o, EntrySizes[o[3]]) /\ Kind(o) = "entry"
  BY DEF Enter, Opening
<1>2. o[3] \in DOMAIN EntrySizes
  BY <1>1, RiskActionsAssumption DEF Orders, Kind
<1>3. EntrySizes[o[3]] \in Nat \ {0} /\ Kind(o) \notin Actions
  BY <1>1, <1>2, RiskActionsAssumption
<1> QED BY <1>1, <1>3, PlaceCalm

LEMMA ReducibleTyped ==
    ASSUME BookTyped, NEW s \in Symbols
    PROVE  Reducible(s) \in Nat
<1> DEFINE live == {o \in ExitsIn[s] : Live(o)}
<1>1. live \subseteq Orders /\ IsFiniteSet(live)
  BY OrdersFinite, FS_Subset
<1>2. IsFiniteSet(Units(size, live))
  <2> HIDE DEF live
  <2> QED BY <1>1, Counted, BookRows
<1>3. Cardinality(Units(size, live) \ Units(recorded, live)) \in Nat
  <2> HIDE DEF live
  <2> QED BY <1>2, FS_Subset, CardinalityNat
<1>4. OutstandingExits(s) \in Nat
  BY <1>3 DEF OutstandingExits
<1>5. held[s] \in Int
  BY DEF BookTyped
<1> QED BY <1>4, <1>5 DEF Reducible

LEMMA ProtectCalm ==
    ASSUME BookTyped, OrdersTyped, NEW s \in Symbols, Protect(s)
    PROVE  Calm
<1>1. PICK o \in NextOrder("stop", s) : Place(o, Reducible(s))
  BY DEF Protect
<1>2. o \in Orders /\ row[o] = "none" /\ Kind(o) = "stop"
  BY OrdersFinite DEF NextOrder, Unused
<1>3. Reducible(s) \in Nat \ {0} /\ pc = "after" /\ Kind(o) \notin Actions
  BY <1>2, ReducibleTyped, RiskActionsAssumption DEF Protect
<1> QED BY <1>1, <1>2, <1>3, PlaceCalm

LEMMA SendCalm ==
    ASSUME BookTyped, OrdersTyped, Send, order \in Orders,
           row[order] = "unknown", venue[order] = "none", size[order] > 0
    PROVE  Calm
<1>1. UNCHANGED <<traded, recorded, size, held>> /\ pc = "send" /\ pc' # "send"
  BY DEF Send, Goto, SymbolDone
<1>2. /\ \/ venue'[order] = "working" /\ row'[order] = "unknown"
         \/ venue'[order] = "none" /\ row'[order] \in {"unknown", "final"}
      /\ \A p \in Orders \ {order} : venue'[p] = venue[p] /\ row'[p] = row[p]
  BY DEF Send, OrdersTyped
<1>3. ASSUME NEW p \in Orders PROVE BookRow(p)' /\ Committed'[p] <= Committed[p]
  <2>1. BookRow(p) /\ traded[p] \in Nat /\ recorded[p] \in Nat /\ size[p] \in Nat
    BY BookRows
  <2>2. BookRow(p)'
    BY <1>1, <1>2, <2>1 DEF BookRow
  <2>3. MayTrade(p)' => MayTrade(p)
    BY <1>1, <1>2 DEF MayTrade
  <2> QED BY <1>1, <2>2, <2>3, CommitsNoMore
<1>4. BookTyped'
  BY <1>1, <1>3, BookNext DEF BookTyped
<1> QED BY <1>1, <1>3, <1>4 DEF Calm, BookTyped

-----------------------------------------------------------------------------
(* A calm step that freezes nothing keeps what reductions may sell.         *)
NothingFrozen ==
    \A a \in Reductions :
      /\ checkpoint'[a].positions = checkpoint[a].positions
      /\ checkpoint'[a].status = "active" => checkpoint[a].status = "active"

LEMMA CalmKeeps ==
    ASSUME NInv, NoneOrphaned, BInv, Calm, NothingFrozen
    PROVE  Within' /\ Backed'
<1>1. \A o \in Orders : /\ traded[o] \in Nat /\ traded'[o] \in Nat
                        /\ Committed[o] \in Nat /\ Committed'[o] \in Nat
                        /\ traded[o] <= traded'[o]
  <2>1. ASSUME NEW o \in Orders PROVE Committed'[o] \in Nat
    BY DEF Calm, BookTyped, Committed
  <2> QED BY <2>1, BookRows DEF Calm, BInv, BookTyped
<1>2. ASSUME NEW a \in Reductions, NEW s \in Symbols
      PROVE  Cardinality(Units(Committed, OrdersOf(a, s)))'
               <= Cardinality(Units(Committed, OrdersOf(a, s)))
  <2>1. OrdersOf(a, s) \in SUBSET Orders /\ IsFiniteSet(Units(Committed, OrdersOf(a, s)))
    BY <1>1, OrdersOfIn, Split DEF Reductions
  <2>2. \A o \in OrdersOf(a, s) : /\ Committed'[o] \in Nat /\ Committed[o] \in Nat
                                  /\ Committed'[o] <= Committed[o]
    BY <1>1, <2>1 DEF Calm, OrdersOf, Reductions
  <2>3. Units(Committed', OrdersOf(a, s)) \subseteq Units(Committed, OrdersOf(a, s))
    BY <2>1, <2>2, MoreUnits
  <2>4. Units(Committed, OrdersOf(a, s))' = Units(Committed', OrdersOf(a, s))
    BY DEF Units, OrdersOf, OrdersIn, OpeningIn, ExitsIn, Opening, Exits, Orders
  <2> QED BY <2>1, <2>3, <2>4, NoMoreUnits
<1>3. Within'
  <2>1. ASSUME NEW a \in Reductions, NEW s \in Symbols
        PROVE Cardinality(Units(Committed, OrdersOf(a, s)))'
                <= checkpoint'[a].positions[s].original - checkpoint'[a].positions[s].target
    <3>1. /\ Cardinality(Units(Committed, OrdersOf(a, s))) \in Nat
          /\ Cardinality(Units(Committed, OrdersOf(a, s)))' \in Nat
      <4>1. Cardinality(Units(Committed', OrdersOf(a, s))) \in Nat
        BY <1>1, Split DEF Reductions
      <4>2. Units(Committed, OrdersOf(a, s))' = Units(Committed', OrdersOf(a, s))
        BY DEF Units, OrdersOf, OrdersIn, OpeningIn, ExitsIn, Opening, Exits, Orders
      <4> QED BY <1>1, <4>1, <4>2, Split DEF Reductions
    <3>2. Cardinality(Units(Committed, OrdersOf(a, s)))
             <= checkpoint[a].positions[s].original - checkpoint[a].positions[s].target
      BY DEF BInv, Within
    <3>3. /\ checkpoint[a].positions[s].original \in Nat
          /\ checkpoint[a].positions[s].target \in Nat
      BY DEF BInv, Frozenness, Reductions
    <3> QED BY <1>2, <3>1, <3>2, <3>3 DEF NothingFrozen
  <2> QED BY <2>1 DEF Within, Reductions
<1>4. Backed'
  <2>1. ASSUME NEW a \in Reductions, checkpoint'[a].status = "active", NEW s \in Covered(a)
        PROVE  Bought(traded', s) <= checkpoint[a].positions[s].original
                                      + Cardinality(Units(traded', OthersOf(a, s)))
    <3>1. checkpoint[a].status = "active" /\ s \in Symbols /\ a \in Actions
      BY <2>1 DEF NothingFrozen, Covered, Reductions
    <3>2. AllFinal
      BY <3>1 DEF NInv, NoneOrphaned, NothingOpensWhileFrozen, AllFinal, Reductions
    <3>3. \A o \in OpeningIn[s] : traded'[o] = traded[o]
      BY <1>1, <3>1, <3>2, OrdersFinite DEF AllFinal, Calm
    <3>4. Bought(traded', s) = Bought(traded, s)
      BY <3>3 DEF Bought, Units
    <3>5. Units(traded, OthersOf(a, s)) \subseteq Units(traded', OthersOf(a, s))
      BY <1>1, <3>1, OrdersOfIn, MoreUnits
    <3>6. /\ Cardinality(Units(traded, OthersOf(a, s)))
               <= Cardinality(Units(traded', OthersOf(a, s)))
          /\ Cardinality(Units(traded, OthersOf(a, s))) \in Nat
          /\ Cardinality(Units(traded', OthersOf(a, s))) \in Nat
      <4>1. IsFiniteSet(Units(traded', OthersOf(a, s)))
        BY <1>1, <3>1, Split
      <4> QED BY <3>5, <4>1, NoMoreUnits
    <3>7. Bought(traded, s) \in Nat /\ checkpoint[a].positions[s].original \in Nat
      BY <1>1, <3>1, Split DEF BInv, Frozenness
    <3>8. Bought(traded, s) <= checkpoint[a].positions[s].original
                                 + Cardinality(Units(traded, OthersOf(a, s)))
      BY <3>1 DEF BInv, Backed
    <3> QED BY <3>4, <3>6, <3>7, <3>8
  <2>2. \A a \in Reductions : Covered(a)' = Covered(a)
    BY DEF NothingFrozen, Covered, At
  <2>3. \A a \in Reductions, s \in Symbols :
          /\ OthersOf(a, s)' = OthersOf(a, s) /\ Bought(traded, s)' = Bought(traded', s)
          /\ Units(traded, OthersOf(a, s))' = Units(traded', OthersOf(a, s))
    BY DEF OthersOf, Bought, Units, OrdersOf, OrdersIn, OpeningIn, ExitsIn, Opening, Exits, Orders
  <2>4. \A a \in Reductions : Covered(a) \subseteq Symbols
    BY DEF Covered
  <2> QED BY <2>1, <2>2, <2>3, <2>4 DEF Backed, NothingFrozen, Reductions
<1> QED BY <1>3, <1>4

-----------------------------------------------------------------------------
(* Where an exit is.                                                        *)
LEMMA NotAtExit ==
    ASSUME pc' \notin Exiting \cup {"write_index", "supersede"}
    PROVE  AtExit'
BY DEF AtExit, Exiting

LEMMA SymbolEnds ==
    ASSUME AtExit, pc \in Exiting, NEW accepted, SymbolDone(accepted), Quiet, TickShape(tick)
    PROVE  AtExit'
<1>1. pc' = "exits" /\ symbols' = symbols /\ tick'.plan = tick.plan
  <2>1. pc' = "exits" /\ symbols' = symbols
    BY DEF SymbolDone
  <2> DEFINE performed == tick.performed \/ held' # held
             done == tick.done /\ accepted
  <2>2. tick' = [tick EXCEPT !.performed = performed, !.symbol = NoAction, !.done = done]
    BY DEF SymbolDone, Moved, TickShape
  <2> HIDE DEF performed, done
  <2>3. tick'.plan = tick.plan
    BY <2>2 DEF TickShape
  <2> QED BY <2>1, <2>3
<1>2. checkpoint' = checkpoint
  BY DEF Quiet
<1> QED BY <1>1, <1>2 DEF AtExit, Exiting, Covered, At

(* The tick goes on with its symbol.                                        *)
LEMMA SymbolKept ==
    ASSUME AtExit, pc \in Exiting \ {"exits"}, Quiet, symbols' = symbols,
           tick'.plan = tick.plan, tick'.symbol = tick.symbol,
           pc' \in {"decide", "answer", "exit_sync", "cancel_remainder", "cancel_trim"}
    PROVE  AtExit'
<1>1. checkpoint' = checkpoint
  BY DEF Quiet
<1> QED BY <1>1 DEF AtExit, Exiting, Covered, At

LEMMA CancelAtExit ==
    ASSUME AtExit, OrdersTyped, Quiet, TickShape(tick), NEW o \in Orders, CancelOne(o)
    PROVE  AtExit'
<1>1. pc \in CancelLoops
  BY DEF CancelOne
<1>2. CASE GiveUp
  <2>1. CASE pc = "cancel_openings"
    BY <1>2, <2>1, NotAtExit DEF GiveUp, EndRisk, Exiting
  <2>2. CASE pc # "cancel_openings"
    <3>1. SymbolDone(FALSE) /\ pc \in Exiting
      BY <1>1, <1>2, <2>2 DEF GiveUp, CancelLoops, Exiting
    <3> QED BY <3>1, SymbolEnds
  <2> QED BY <2>1, <2>2
<1>3. CASE Settled(o) /\ todo' = todo \ {o} /\ UNCHANGED <<pc, symbols, order, tick>>
  <2>1. checkpoint' = checkpoint
    BY DEF Quiet
  <2>2. row'[o] = "final" /\ \A p \in Orders \ {o} : row'[p] = row[p]
    BY <1>3 DEF CancelOne, Read, Settled
  <2>3. pc = "cancel_competing" => tick.symbol \in Symbols
    BY DEF AtExit, Exiting
  <2>4. pc = "cancel_competing" => \A p \in OrdersIn(tick.symbol) : Live(p)' => p \in todo'
    BY <1>3, <2>2, <2>3, OrdersFinite DEF AtExit, Live
  <2>5. CASE pc = "cancel_openings"
    BY <1>3, <2>5, NotAtExit DEF Exiting
  <2>6. CASE pc \in {"cancel_remainder", "cancel_trim"}
    <3>1. pc \in Exiting \ {"exits"}
      BY <2>6 DEF Exiting
    <3> QED BY <1>3, <2>6, <3>1, SymbolKept
  <2>7. CASE pc = "cancel_competing"
    <3>1. tick' = tick /\ pc' = pc /\ symbols' = symbols
      BY <1>3
    <3>2. OrdersIn(tick.symbol)' = OrdersIn(tick.symbol)
      BY <3>1 DEF OrdersIn, OpeningIn, ExitsIn, Opening, Exits, Orders
    <3> QED BY <2>1, <2>4, <2>7, <3>1, <3>2 DEF AtExit, Exiting, Covered, At
  <2> QED BY <1>1, <2>5, <2>6, <2>7 DEF CancelLoops
<1> QED BY <1>2, <1>3 DEF CancelOne

LEMMA CancelledAtExit ==
    ASSUME BookTyped, AtExit, Quiet, TickShape(tick), Cancelled
    PROVE  AtExit'
<1>1. pc \in CancelLoops /\ todo = {} /\ UNCHANGED <<venue, traded>>
  BY DEF Cancelled, market
<1>2. CASE pc = "cancel_openings"
  BY <1>2, NotAtExit DEF Cancelled, GiveUp, EndRisk, Goto, Exiting
<1>3. CASE pc # "cancel_openings"
  <2>1. pc \in Exiting \ {"exits"}
    BY <1>1, <1>3 DEF CancelLoops, Exiting
  <2>2. ASSUME NEW accepted, SymbolDone(accepted) PROVE AtExit'
    BY <2>1, <2>2, SymbolEnds
  <2>3. CASE pc = "cancel_competing" /\ Synced /\ pc' = "recheck" /\ tick' = Moved /\ UNCHANGED symbols
    <3>1. tick'.plan = tick.plan /\ tick'.symbol = tick.symbol
      BY <2>3, MovedKeepsPlan
    <3>2. tick.symbol \in Symbols
      BY <2>1 DEF AtExit
    <3>3. \A o \in OrdersIn(tick.symbol) : venue'[o] # "working"
      BY <1>1, <2>3, <3>2, OrdersFinite, BookRows DEF AtExit, BookRow, Live
    <3>4. held'[tick.symbol] = VenuePosition(tick.symbol)
      BY <2>3, <3>2, SyncTyped
    <3>5. VenuePosition(tick.symbol)' = VenuePosition(tick.symbol)
      BY <1>1, <3>1 DEF VenuePosition, Net, Bought, SoldBy, Units, OpeningIn, ExitsIn, Opening, Exits,
         Orders
    <3>6. OrdersIn(tick.symbol)' = OrdersIn(tick.symbol)
      BY <3>1 DEF OrdersIn, OpeningIn, ExitsIn, Opening, Exits, Orders
    <3>7. checkpoint' = checkpoint
      BY DEF Quiet
    <3> QED BY <2>1, <2>3, <3>1, <3>2, <3>3, <3>4, <3>5, <3>6, <3>7 DEF AtExit, Exiting, Covered, At
  <2> QED BY <1>1, <1>3, <2>2, <2>3 DEF Cancelled, GiveUp, CancelLoops
<1> QED BY <1>2, <1>3

LEMMA ExitStartAtExit ==
    ASSUME AtExit, Quiet, TickShape(tick), NEW s \in Symbols, ExitStart(s)
    PROVE  AtExit'
<1> DEFINE performed == tick.performed \/ \E o \in Orders : Kind(o) = tick.plan /\ Live(o)
<1>1. /\ pc = "exits" /\ pc' = "own_sync" /\ s \in symbols /\ symbols' = symbols \ {s}
      /\ tick' = [tick EXCEPT !.symbol = s, !.performed = performed]
  BY DEF ExitStart, TickShape
<1> HIDE DEF performed
<1>2. tick'.symbol = s /\ tick'.plan = tick.plan
  BY <1>1 DEF TickShape
<1>3. checkpoint' = checkpoint
  BY DEF Quiet
<1> QED BY <1>1, <1>2, <1>3 DEF AtExit, Exiting, Covered, At

LEMMA DecideAtExit ==
    ASSUME AtExit, Quiet, TickShape(tick), Decide
    PROVE  AtExit'
<1>1. pc = "decide" /\ pc \in Exiting \ {"exits"} /\ UNCHANGED ledger
  BY DEF Decide, Exiting
<1>2. ASSUME NEW accepted, SymbolDone(accepted) PROVE AtExit'
  BY <1>1, <1>2, SymbolEnds
<1>3. CASE CancelLoop("cancel_remainder", Own(tick.symbol))
  BY <1>1, <1>3, SymbolKept DEF CancelLoop
<1>4. CASE CancelLoop("cancel_competing", {o \in OrdersIn(tick.symbol) : Live(o)})
  <2>1. checkpoint' = checkpoint /\ UNCHANGED row
    BY <1>1 DEF Quiet, ledger
  <2> QED BY <1>1, <1>4, <2>1
       DEF CancelLoop, AtExit, Exiting, Covered, At, Live, OrdersIn, OpeningIn, ExitsIn, Opening,
           Exits, Orders
<1> QED BY <1>2, <1>3, <1>4 DEF Decide

(* The other steps of an exit, without the order it submits.                *)
LEMMA OtherAtExit ==
    ASSUME AtExit, Quiet, TickShape(tick), OwnSync \/ Send \/ Answer \/ ExitSync
    PROVE  AtExit'
<1>1. pc \in Exiting \ {"exits"}
  BY DEF OwnSync, Send, Answer, ExitSync, Exiting
<1>2. ASSUME NEW accepted, SymbolDone(accepted) PROVE AtExit'
  BY <1>1, <1>2, SymbolEnds
<1>3. CASE OwnSync
  <2>1. CASE pc' = "decide" /\ tick' = Moved /\ UNCHANGED symbols
    BY <1>1, <2>1, MovedKeepsPlan, SymbolKept
  <2> QED BY <1>2, <1>3, <2>1 DEF OwnSync
<1>4. CASE Send
  BY <1>1, <1>2, <1>4, SymbolKept DEF Send, Goto
<1>5. CASE Answer
  BY <1>1, <1>2, <1>5, SymbolKept DEF Answer, Goto
<1>6. CASE ExitSync
  BY <1>1, <1>2, <1>6, SymbolKept DEF ExitSync, CancelLoop
<1> QED BY <1>3, <1>4, <1>5, <1>6

-----------------------------------------------------------------------------
(* A new exit.                                                              *)
LEMMA SameStore ==
    ASSUME Frozenness, UNCHANGED <<index, checkpoint>>
    PROVE  Frozenness' /\ NothingFrozen
BY DEF Frozenness, NothingFrozen, Carried, HasTargets

LEMMA OneMore ==
    ASSUME NEW q, \A p \in Orders : q[p] \in Nat, NEW r, \A p \in Orders : r[p] \in Nat,
           NEW S \in SUBSET Orders, IsFiniteSet(S), NEW o \in S,
           \A p \in S \ {o} : r[p] <= q[p]
    PROVE  Cardinality(Units(r, S)) <= Cardinality(Units(q, S)) + r[o]
<1> DEFINE n == r[o]
           new == {o} \X (1 .. n)
<1>1. n \in Nat
  OBVIOUS
<1> HIDE DEF n
<1>2. IsFiniteSet(new) /\ Cardinality(new) = n
  <2>1. IsFiniteSet({o}) /\ Cardinality({o}) = 1
    BY FS_Singleton
  <2>2. IsFiniteSet(1 .. n) /\ Cardinality(1 .. n) = n
    <3> 1 \in Int /\ n \in Int
      BY <1>1
    <3>1. IsFiniteSet(1 .. n) /\ Cardinality(1 .. n) = IF 1 > n THEN 0 ELSE n - 1 + 1
      BY FS_Interval
    <3> QED BY <1>1, <3>1
  <2>3. Cardinality(new) = Cardinality({o}) * Cardinality(1 .. n) /\ IsFiniteSet(new)
    BY <2>1, <2>2, FS_Product, Zenon
  <2> HIDE DEF new
  <2>4. Cardinality(new) = 1 * n
    BY <2>1, <2>2, <2>3
  <2> QED BY <1>1, <2>3, <2>4
<1>3. Units(r, S) \subseteq Units(q, S) \cup new
  <2>1. ASSUME NEW p \in S, NEW i \in 1 .. r[p] PROVE <<p, i>> \in Units(q, S) \cup new
    <3>1. CASE p = o
      BY <3>1 DEF n
    <3>2. CASE p # o
      <4>1. r[p] \in Nat /\ q[p] \in Nat /\ r[p] <= q[p]
        BY <3>2
      <4>2. i \in 1 .. q[p]
        BY <4>1
      <4> QED BY <4>2, UnitsOf
    <3> QED BY <3>1, <3>2
  <2> HIDE DEF new
  <2> QED BY <2>1, UnitsOf
<1> HIDE DEF new
<1>4. IsFiniteSet(Units(q, S))
  BY Counted
<1>5. /\ Cardinality(Units(q, S) \cup new) <= Cardinality(Units(q, S)) + n
      /\ IsFiniteSet(Units(q, S) \cup new)
      /\ Cardinality(Units(q, S)) \in Nat
  BY <1>2, <1>4, Together
<1>6. /\ Cardinality(Units(r, S)) <= Cardinality(Units(q, S) \cup new)
      /\ Cardinality(Units(r, S)) \in Nat /\ Cardinality(Units(q, S) \cup new) \in Nat
  BY <1>3, <1>5, NoMoreUnits
<1>7. Cardinality(Units(r, S)) <= Cardinality(Units(q, S)) + n
  BY <1>1, <1>5, <1>6
<1> QED BY <1>7 DEF n

LEMMA SameUnits ==
    /\ \A a \in Actions, s \in Symbols :
         /\ Units(Committed, OrdersOf(a, s))' = Units(Committed', OrdersOf(a, s))
         /\ Units(traded, OthersOf(a, s))' = Units(traded', OthersOf(a, s))
    /\ \A s \in Symbols : Bought(traded, s)' = Bought(traded', s)
BY DEF Units, OrdersOf, OthersOf, Bought, OrdersIn, OpeningIn, ExitsIn, Opening, Exits, Orders

(* What an exit may be made out for fits what its reduction has left.       *)
LEMMA ExitFits ==
    ASSUME NInv, BInv, pc = "recheck", tick.plan \in Reductions,
           NEW qty \in Nat, qty <= ExitQty
    PROVE  Cardinality(Units(traded, OrdersOf(tick.plan, tick.symbol))) + qty
             <= checkpoint[tick.plan].positions[tick.symbol].original
                  - checkpoint[tick.plan].positions[tick.symbol].target
<1> DEFINE a == tick.plan
           s == tick.symbol
<1>1. a \in Actions /\ s \in Symbols /\ s \in Covered(a) /\ checkpoint[a].status = "active"
  BY DEF BInv, AtExit, Exiting, Reductions
<1>2. held[s] = VenuePosition(s)
  BY DEF BInv, AtExit
<1>3. Bought(traded, s) <= checkpoint[a].positions[s].original
                             + Cardinality(Units(traded, OthersOf(a, s)))
  BY <1>1 DEF BInv, Backed
<1>4. /\ Bought(traded, s) \in Nat
      /\ SoldBy(traded, s) = Cardinality(Units(traded, OrdersOf(a, s)))
                               + Cardinality(Units(traded, OthersOf(a, s)))
      /\ Cardinality(Units(traded, OrdersOf(a, s))) \in Nat
      /\ Cardinality(Units(traded, OthersOf(a, s))) \in Nat
  BY <1>1, Split, BookRows DEF BInv
<1>5. /\ checkpoint[a].positions[s].original \in Nat
      /\ checkpoint[a].positions[s].target \in Nat
      /\ ExitQty = held[s] - checkpoint[a].positions[s].target
  BY <1>1 DEF BInv, Frozenness, ExitQty, Target, At
<1>6. held[s] = Bought(traded, s) - SoldBy(traded, s)
  BY <1>2 DEF VenuePosition, Net
<1> HIDE DEF a, s
<1>7. Cardinality(Units(traded, OrdersOf(a, s))) + qty
        <= checkpoint[a].positions[s].original - checkpoint[a].positions[s].target
  BY <1>3, <1>4, <1>5, <1>6
<1> QED BY <1>7 DEF a, s

LEMMA SubmitKeeps ==
    ASSUME NInv, BInv, NoneOrphaned, Quiet, SubmitExit
    PROVE  BInv'
<1> DEFINE s == tick.symbol
           qty == Min({ExitQty, Reducible(s)})
<1>1. /\ UNCHANGED <<venue, traded, recorded, held, index, checkpoint>> /\ pc = "recheck"
      /\ TickShape(tick) /\ s \in Symbols /\ tick.plan \in Actions
  BY DEF SubmitExit, market, store, BInv, AtExit, Exiting, NInv, IInv, PlanOK, Free
<1>2. Frozenness' /\ NothingFrozen
  BY <1>1, SameStore DEF BInv
<1>3. ASSUME NEW accepted, SymbolDone(accepted), UNCHANGED <<row, size>> PROVE BInv'
  <2>1. held' \in [Symbols -> Int] /\ NothingSent
    BY <1>1, <1>3 DEF BInv, BookTyped, NothingSent, SymbolDone
  <2>2. Calm
    BY <1>1, <1>3, <2>1, StillCalm DEF BInv
  <2>3. AtExit'
    BY <1>1, <1>3, SymbolEnds DEF BInv, Exiting
  <2> QED BY <1>2, <2>2, <2>3, CalmKeeps DEF BInv, Calm
<1>4. CASE /\ Ownership(held[s]) \notin {"unclear", "other"}
           /\ ~(Ownership(held[s]) = "own" /\ ExitQty <= 0)
           /\ qty # 0 /\ order' \in NextOrder(tick.plan, s)
           /\ row' = [row EXCEPT ![order'] = "unknown"]
           /\ size' = [size EXCEPT ![order'] = qty]
           /\ pc' = "send"
           /\ tick' = [tick EXCEPT !.performed = TRUE]
           /\ UNCHANGED <<todo, symbols>>
  <2> DEFINE o == order'
  <2>1. /\ o \in Orders /\ row[o] = "none" /\ Kind(o) = tick.plan /\ SymbolOf(o) = s
        /\ o \in OrdersOf(tick.plan, s)
    BY <1>1, <1>4, OrdersFinite DEF NextOrder, Unused, OrdersOf
  <2>2. venue[o] = "none" /\ traded[o] = 0 /\ recorded[o] = 0
    BY <2>1, BookRows DEF BInv, BookRow
  <2>3. ExitQty \in Int /\ Reducible(s) \in Nat
    BY <1>1, ReducibleTyped DEF ExitQty, Target, At, BInv, BookTyped, Frozenness
  <2>4. ExitQty > 0
    BY <1>4, <2>3 DEF Ownership
  <2>5. qty \in Nat \ {0} /\ qty <= ExitQty
    BY <1>4, <2>3, <2>4, MinOf
  <2> HIDE DEF qty, o
  <2>6. size' = [size EXCEPT ![o] = qty] /\ row' = [row EXCEPT ![o] = "unknown"] /\ order' = o
    BY <1>4 DEF o
  <2>7. BookTyped'
    <3>1. ASSUME NEW p \in Orders PROVE BookRow(p)'
      <4>1. BookRow(p) /\ traded[p] \in Nat /\ recorded[p] \in Nat /\ size[p] \in Nat
        BY BookRows DEF BInv
      <4>2. CASE p # o
        <5>1. size'[p] = size[p] /\ row'[p] = row[p]
          BY <2>1, <2>6, <4>2 DEF BInv, BookTyped, NInv, OrderFacts, OrdersTyped
        <5> QED BY <1>1, <4>1, <5>1 DEF BookRow
      <4>3. CASE p = o
        <5>1. size'[p] = qty /\ row'[p] = "unknown"
          BY <2>1, <2>6, <4>3 DEF BInv, BookTyped, NInv, OrderFacts, OrdersTyped
        <5> QED BY <1>1, <2>2, <2>5, <4>3, <5>1 DEF BookRow
      <4> QED BY <4>2, <4>3
    <3>2. size' \in [Orders -> Nat]
      BY <2>1, <2>5, <2>6 DEF BInv, BookTyped
    <3> QED BY <1>1, <3>1, <3>2, BookNext DEF BInv, BookTyped
  <2>8. ASSUME NEW p \in Orders
        PROVE  /\ Committed'[p] \in Nat /\ Committed[p] \in Nat /\ traded[p] \in Nat
               /\ p = o => Committed'[p] = qty
               /\ p # o => Committed'[p] <= Committed[p]
               /\ p # o /\ p \in OrdersOf(tick.plan, s) => Committed'[p] <= traded[p]
    <3>1. /\ traded[p] \in Nat /\ size[p] \in Nat /\ traded[p] <= size[p]
          /\ Committed[p] = IF MayTrade(p) THEN size[p] ELSE traded[p]
      BY BookRows DEF BInv, BookRow
    <3>2. Committed'[p] = IF MayTrade(p)' THEN size'[p] ELSE traded[p]
      BY <1>1 DEF Committed
    <3>3. CASE p = o
      <4>1. size'[p] = qty /\ MayTrade(p)'
        BY <1>4, <2>1, <2>6, <3>3 DEF BInv, BookTyped, MayTrade
      <4> QED BY <2>5, <3>1, <3>2, <3>3, <4>1
    <3>4. CASE p # o
      <4>1. size'[p] = size[p] /\ (MayTrade(p)' <=> venue[p] = "working")
        BY <1>1, <2>1, <2>6, <3>4 DEF BInv, BookTyped, MayTrade
      <4>2. p \in OrdersOf(tick.plan, s) => venue[p] # "working"
        BY <1>1 DEF BInv, AtExit, OrdersOf
      <4> QED BY <3>1, <3>2, <3>4, <4>1, <4>2 DEF MayTrade
    <3> QED BY <3>3, <3>4
  <2>9. Within'
    <3>1. ASSUME NEW a \in Reductions, NEW t \in Symbols
          PROVE  Cardinality(Units(Committed', OrdersOf(a, t)))
                   <= checkpoint[a].positions[t].original - checkpoint[a].positions[t].target
      <4>0. a \in Actions
        BY DEF Reductions
      <4>1. /\ OrdersOf(a, t) \in SUBSET Orders /\ IsFiniteSet(OrdersOf(a, t))
        BY <4>0, OrdersOfIn, OrdersFinite, FS_Subset
      <4>2. /\ IsFiniteSet(Units(Committed, OrdersOf(a, t)))
            /\ Cardinality(Units(Committed, OrdersOf(a, t))) \in Nat
            /\ Cardinality(Units(Committed', OrdersOf(a, t))) \in Nat
        BY <2>8, <4>0, Split
      <4>3. /\ checkpoint[a].positions[t].original \in Nat
            /\ checkpoint[a].positions[t].target \in Nat
        BY <4>0 DEF BInv, Frozenness
      <4>4. CASE a = tick.plan /\ t = s
        <5>1. Cardinality(Units(Committed', OrdersOf(a, t)))
                <= Cardinality(Units(traded, OrdersOf(a, t))) + Committed'[o]
          BY <2>1, <2>8, <4>1, <4>4, OneMore
        <5>2. Cardinality(Units(traded, OrdersOf(a, t))) \in Nat
          BY <2>8, <4>0, Split
        <5>3. Cardinality(Units(traded, OrdersOf(a, t))) + qty
                <= checkpoint[a].positions[t].original - checkpoint[a].positions[t].target
          BY <1>1, <2>5, <4>4, ExitFits
        <5> QED BY <2>1, <2>5, <2>8, <4>2, <4>3, <5>1, <5>2, <5>3
      <4>5. CASE ~(a = tick.plan /\ t = s)
        <5>1. o \notin OrdersOf(a, t)
          BY <2>1, <4>5, OrdersFinite DEF OrdersOf
        <5>2. Units(Committed', OrdersOf(a, t)) \subseteq Units(Committed, OrdersOf(a, t))
          BY <2>8, <4>1, <5>1, MoreUnits
        <5>3. Cardinality(Units(Committed', OrdersOf(a, t)))
                <= Cardinality(Units(Committed, OrdersOf(a, t)))
          BY <4>2, <5>2, NoMoreUnits
        <5>4. Cardinality(Units(Committed, OrdersOf(a, t)))
                <= checkpoint[a].positions[t].original - checkpoint[a].positions[t].target
          BY DEF BInv, Within
        <5> QED BY <4>2, <4>3, <5>3, <5>4
      <4> QED BY <4>4, <4>5
    <3> QED BY <1>1, <3>1, SameUnits DEF Within, Reductions
  <2>10. Backed'
    BY <1>1, SameUnits DEF BInv, Backed, Covered, At, Reductions
  <2>11. AtExit'
    <3>1. tick'.plan = tick.plan /\ tick'.symbol = s
      BY <1>1, <1>4 DEF TickShape
    <3>2. row'[o] = "unknown" /\ size'[o] = qty
      BY <2>1, <2>6 DEF BInv, BookTyped, NInv, OrderFacts, OrdersTyped
    <3>3. OrdersOf(tick.plan, s)' = OrdersOf(tick.plan, s)
      BY <3>1 DEF OrdersOf, OrdersIn, OpeningIn, ExitsIn, Opening, Exits, Orders
    <3>4. order' \in OrdersOf(tick.plan, tick.symbol)'
      BY <2>1, <2>6, <3>3
    <3> QED BY <1>1, <1>4, <2>1, <2>2, <2>5, <2>6, <3>1, <3>2, <3>4 DEF BInv, AtExit, Exiting, Covered, At
  <2> QED BY <1>2, <2>7, <2>9, <2>10, <2>11 DEF BInv
<1> QED BY <1>3, <1>4 DEF SubmitExit, Ownership

-----------------------------------------------------------------------------
(* The checkpoints.                                                         *)
(* The index is written before the key: what it carries has no targets.     *)
LEMMA KeyWritten ==
    ASSUME NInv, BInv, Carried, checkpoint' = [checkpoint EXCEPT ![index.action] = index.copy],
           UNCHANGED index
    PROVE  Frozenness' /\ NothingFrozen
<1> DEFINE a == index.action
<1>1. /\ a \in Actions /\ checkpoint[a].status = "none" /\ ~HasTargets(a)
      /\ index.copy.status = "preparing" /\ index.copy.positions = NoPositions
      /\ a \in Reductions => index.copy.supersedes = NoAction
  BY DEF Carried, NInv, IInv, StoreShape, IndexKept, BInv, Frozenness, HasTargets
<1>2. checkpoint'[a] = index.copy /\ \A b \in Actions \ {a} : checkpoint'[b] = checkpoint[b]
  BY <1>1 DEF NInv, IInv, StoreShape
<1>3. \A s \in Symbols : NoPositions[s].original = 0 /\ NoPositions[s].target = 0
  BY DEF NoPositions, NoPosition
<1>4. ~Carried'
  BY <1>1, <1>2 DEF Carried
<1>5. NothingFrozen
  BY <1>1, <1>2 DEF NothingFrozen, BInv, Frozenness, Reductions
<1> HIDE DEF a
<1>6. ASSUME NEW b \in Actions, NEW s \in Symbols
      PROVE  checkpoint'[b].positions[s].original \in Nat /\ checkpoint'[b].positions[s].target \in Nat
  BY <1>1, <1>2, <1>3 DEF BInv, Frozenness
<1>7. ASSUME NEW b \in Reductions
      PROVE  /\ ~HasTargets(b)' => checkpoint'[b].positions = NoPositions
             /\ checkpoint'[b].supersedes = NoAction
  BY <1>1, <1>2 DEF BInv, Frozenness, HasTargets, Reductions
<1>8. NoPositions' = NoPositions /\ Reductions' = Reductions
  BY DEF NoPositions, NoPosition, Reductions
<1> QED BY <1>4, <1>5, <1>6, <1>7, <1>8 DEF Frozenness

(* A new index over the same keys.                                          *)
LEMMA IndexWritten ==
    ASSUME BInv, UNCHANGED checkpoint,
           Carried' => /\ index'.copy.positions = NoPositions
                       /\ index'.action \in Reductions => index'.copy.supersedes = NoAction
    PROVE  Frozenness' /\ NothingFrozen
<1>1. NoPositions' = NoPositions /\ Reductions' = Reductions
  BY DEF NoPositions, NoPosition, Reductions
<1> QED BY <1>1 DEF BInv, Frozenness, NothingFrozen, HasTargets

(* Keys whose status alone becomes "completed".                             *)
LEMMA KeysCompleted ==
    ASSUME NInv, BInv, ~Carried', UNCHANGED index,
           \A a \in Actions :
             \/ checkpoint'[a] = checkpoint[a]
             \/ checkpoint'[a] = [checkpoint[a] EXCEPT !.status = "completed"]
    PROVE  Frozenness' /\ NothingFrozen
<1>1. ASSUME NEW a \in Actions
      PROVE  /\ checkpoint'[a].positions = checkpoint[a].positions
             /\ checkpoint'[a].supersedes = checkpoint[a].supersedes
             /\ checkpoint'[a].status \in {checkpoint[a].status, "completed"}
  <2>1. CheckpointShape(checkpoint[a])
    BY DEF NInv, IInv, StoreShape
  <2> QED BY <2>1 DEF CheckpointShape
<1>2. NoPositions' = NoPositions /\ Reductions' = Reductions
  BY DEF NoPositions, NoPosition, Reductions
<1>3. \A a \in Reductions : a \in Actions
  BY DEF Reductions
<1>4. NothingFrozen
  BY <1>1, <1>3 DEF NothingFrozen
<1> QED BY <1>1, <1>2, <1>3, <1>4 DEF BInv, Frozenness, HasTargets

-----------------------------------------------------------------------------
(* The steps that write of an action, but for the freeze.                   *)
LEMMA StoreSteps ==
    ASSUME NInv, BInv,
           RestoreCarried \/ TakeUp \/ BeginAction \/ WriteKey \/ Begin
             \/ WriteIndex \/ Supersede \/ Complete \/ ClearIndex
    PROVE  Frozenness' /\ NothingFrozen /\ Calm /\ AtExit'
<1> USE DEF store
<1>t. StoreShape /\ TickShape(tick)
  BY DEF NInv, IInv, PlanOK
<1>c. Calm
  <2>1. UNCHANGED <<venue, traded, row, recorded, size, held>>
    BY DEF RestoreCarried, TakeUp, BeginAction, WriteKey, Begin, WriteIndex, Supersede, Complete,
           ClearIndex, market, ledger
  <2>2. NothingSent
    BY DEF RestoreCarried, TakeUp, BeginAction, WriteKey, Begin, WriteIndex, Supersede, Complete,
           ClearIndex, control, EndRisk, Goto, NothingSent
  <2>3. held' \in [Symbols -> Int]
    BY <2>1 DEF BInv, BookTyped
  <2> QED BY <2>1, <2>2, <2>3, StillCalm DEF BInv
<1>1. CASE RestoreCarried
  <2>1. Frozenness' /\ NothingFrozen
    BY <1>1, KeyWritten DEF RestoreCarried
  <2>2. AtExit'
    BY <1>1, NotAtExit DEF RestoreCarried, control, Exiting
  <2> QED BY <1>c, <2>1, <2>2
<1>2. CASE TakeUp
  <2>1. Frozenness' /\ NothingFrozen
    BY <1>2, SameStore DEF TakeUp, BInv
  <2>2. AtExit'
    BY <1>2, NotAtExit DEF TakeUp, EndRisk, Exiting
  <2> QED BY <1>c, <2>1, <2>2
<1>3. CASE BeginAction
  <2>1. New.positions = NoPositions /\ New.supersedes = Supersedes
    BY DEF New, NoCheckpoint, NoPositions
  <2>2. index'.action = Plan /\ index'.copy = New /\ UNCHANGED checkpoint
    BY <1>3 DEF BeginAction
  <2>3. Plan \in Reductions => Supersedes = NoAction
    BY DEF Plan, Supersedes, Reductions
  <2>4. Frozenness' /\ NothingFrozen
    BY <2>1, <2>2, <2>3, IndexWritten
  <2>5. AtExit'
    BY <1>3, NotAtExit DEF BeginAction, Exiting
  <2> QED BY <1>c, <2>4, <2>5
<1>4. CASE WriteKey
  <2>1. index.action = tick.plan /\ checkpoint[tick.plan].status = "none" /\ tick.plan \in Actions
    BY <1>4 DEF WriteKey, NInv, IInv, PlanOK, IndexKept, Free
  <2>2. Carried
    BY <2>1, RiskActionsAssumption DEF Carried
  <2>3. Frozenness' /\ NothingFrozen
    BY <1>4, <2>1, <2>2, KeyWritten DEF WriteKey
  <2>4. AtExit'
    BY <1>4, NotAtExit DEF WriteKey, Exiting
  <2> QED BY <1>c, <2>3, <2>4
<1>5. CASE Begin
  <2>1. Frozenness' /\ NothingFrozen /\ checkpoint' = checkpoint
    BY <1>5, SameStore DEF Begin, BInv
  <2>2. CASE EndRisk(FALSE, FALSE)
    BY <1>c, <2>1, <2>2, NotAtExit DEF EndRisk, Exiting
  <2>3. CASE Frozen(tick.plan) /\ pc' = "exits" /\ symbols' = Covered(tick.plan) /\ UNCHANGED tick
    <3>1. AtExit'
      BY <2>1, <2>3 DEF AtExit, Exiting, Frozen, Covered, At
    <3> QED BY <1>c, <2>1, <3>1
  <2>4. CASE pc' = "cancel_openings"
    BY <1>c, <2>1, <2>4, NotAtExit DEF Exiting
  <2> QED BY <1>5, <2>2, <2>3, <2>4 DEF Begin
<1>6. CASE WriteIndex
  <2>1. /\ pc = "write_index" /\ pc' = "supersede" /\ UNCHANGED <<checkpoint, tick>>
        /\ index' = [action |-> tick.plan, copy |-> checkpoint[tick.plan]]
    BY <1>6 DEF WriteIndex, At, Goto
  <2>2. ~Carried'
    BY <2>1 DEF Carried, NInv, IndexKept
  <2>3. Frozenness' /\ NothingFrozen
    BY <2>1, <2>2, IndexWritten
  <2>4. AtExit'
    BY <2>1 DEF BInv, AtExit, Exiting
  <2> QED BY <1>c, <2>3, <2>4
<1>7. CASE Supersede
  <2>1. /\ pc = "supersede" /\ tick.plan \in Actions /\ UNCHANGED <<index, tick>> /\ ~Carried
        /\ pc' = "exits" /\ symbols' = Covered(tick.plan)
        /\ checkpoint' = [a \in Actions |->
             IF a = At(tick.plan).supersedes /\ checkpoint[a].status # "none"
               THEN [checkpoint[a] EXCEPT !.status = "completed"] ELSE checkpoint[a]]
    BY <1>7 DEF Supersede, NInv, IndexKept, IInv, PlanOK, Free
  <2>2. \A a \in Actions :
             \/ checkpoint'[a] = checkpoint[a]
             \/ /\ checkpoint'[a] = [checkpoint[a] EXCEPT !.status = "completed"]
                /\ checkpoint[a].status # "none"
    BY <2>1
  <2>3. ~Carried'
    BY <1>t, <2>1, <2>2 DEF Carried, StoreShape, CheckpointShape
  <2>4. Frozenness' /\ NothingFrozen
    BY <2>1, <2>2, <2>3, KeysCompleted
  <2>5. tick.plan \in Reductions => checkpoint' = checkpoint
    <3> SUFFICES ASSUME tick.plan \in Reductions PROVE checkpoint' = checkpoint
      OBVIOUS
    <3>1. \A a \in Actions : a # At(tick.plan).supersedes
      BY RiskActionsAssumption DEF BInv, Frozenness, At
    <3>2. checkpoint' = [a \in Actions |-> checkpoint[a]]
      BY <2>1, <3>1
    <3> QED BY <1>t, <3>2 DEF StoreShape
  <2>6. tick.plan \in Reductions => checkpoint[tick.plan].status = "active"
    BY <2>1 DEF BInv, AtExit
  <2>7. AtExit'
    <3>1. tick'.plan = tick.plan /\ Reductions' = Reductions
      BY <2>1 DEF Reductions
    <3>2. tick.plan \in Reductions => Covered(tick.plan)' = Covered(tick.plan)
      BY <2>1, <2>5 DEF Covered, At
    <3> QED BY <2>1, <2>5, <2>6, <3>1, <3>2 DEF AtExit, Exiting
  <2> QED BY <1>c, <2>4, <2>7
<1>8. CASE Complete
  <2>1. pc = "exits" /\ tick.plan \in Actions /\ UNCHANGED index /\ ~Carried
    BY <1>8 DEF Complete, NInv, IndexKept, IInv, PlanOK, Free
  <2>2. AtExit'
    BY <1>8, NotAtExit DEF Complete, EndRisk, Goto, Exiting
  <2>3. CASE UNCHANGED checkpoint
    BY <1>c, <2>1, <2>2, <2>3, SameStore DEF BInv
  <2>4. CASE checkpoint' = [checkpoint EXCEPT ![tick.plan].status = "completed"]
    <3>1. \A a \in Actions :
             \/ checkpoint'[a] = checkpoint[a]
             \/ checkpoint'[a] = [checkpoint[a] EXCEPT !.status = "completed"]
      BY <1>t, <2>1, <2>4 DEF StoreShape
    <3>2. ~Carried'
      BY <1>t, <2>1, <3>1 DEF Carried, StoreShape, CheckpointShape
    <3>3. Frozenness' /\ NothingFrozen
      BY <2>1, <3>1, <3>2, KeysCompleted
    <3> QED BY <1>c, <2>2, <3>3
  <2> QED BY <1>8, <2>3, <2>4 DEF Complete
<1>9. CASE ClearIndex
  <2>1. /\ pc = "clear" /\ pc' = "after" /\ UNCHANGED checkpoint /\ ~Carried
        /\ index' \in {NoIndex, index}
    BY <1>9 DEF ClearIndex, EndRisk, NInv, IndexKept
  <2>2. ~Carried'
    BY <2>1 DEF Carried, NoIndex
  <2>3. Frozenness' /\ NothingFrozen
    BY <2>1, <2>2, IndexWritten
  <2>4. AtExit'
    BY <2>1, NotAtExit DEF Exiting
  <2> QED BY <1>c, <2>3, <2>4
<1> QED BY <1>1, <1>2, <1>3, <1>4, <1>5, <1>6, <1>7, <1>8, <1>9

-----------------------------------------------------------------------------
(* The freeze.                                                              *)
(* What a reduction freezes is what its lots add up to, and nothing was     *)
(* committed to it before.                                                  *)
LEMMA FreezeKeeps ==
    ASSUME NInv, BInv, NoneOrphaned, Freeze
    PROVE  BInv'
<1> USE DEF store
<1> DEFINE a == tick.plan
<1>1. /\ pc = "freeze" /\ a \in Actions /\ UNCHANGED index /\ ~Carried /\ AllFinal
      /\ UNCHANGED <<venue, traded, row, recorded, size, held>>
      /\ ~(Reduction(a) /\ HasTargets(a))
      /\ StoreShape /\ TickShape(tick)
  BY DEF Freeze, NInv, Hand, IndexKept, IInv, PlanOK, Free, market, ledger
<1>2. pc' \notin {"freeze", "send"}
  BY DEF Freeze, EndRisk, Goto
<1>3. Calm
  BY <1>1, <1>2, StillCalm DEF BInv, BookTyped, NothingSent
<1>4. CASE EndRisk(TRUE, tick.performed) /\ UNCHANGED checkpoint
  <2>1. Frozenness' /\ NothingFrozen
    BY <1>1, <1>4, SameStore DEF BInv
  <2>2. AtExit'
    BY <1>4, NotAtExit DEF EndRisk, Exiting
  <2> QED BY <1>3, <2>1, <2>2, CalmKeeps DEF BInv, Calm
<1>5. CASE /\ ~\E s \in Symbols : held[s] > 0 /\ held[s] # Owned(s)
           /\ checkpoint' = [checkpoint EXCEPT ![tick.plan] =
                  [@ EXCEPT !.status = "active", !.positions = Targets(tick.plan)]]
           /\ Goto("write_index")
  <2> DEFINE positions == Targets(a)
             c == [checkpoint[a] EXCEPT !.status = "active", !.positions = positions]
  <2>1. checkpoint' = [checkpoint EXCEPT ![a] = c]
    BY <1>1, <1>5 DEF StoreShape
  <2>2. c.status = "active" /\ c.positions = Targets(a) /\ c.supersedes = checkpoint[a].supersedes
    <3> HIDE DEF positions
    <3>1. c.status = "active" /\ c.positions = positions /\ c.supersedes = checkpoint[a].supersedes
      BY <1>1 DEF StoreShape, CheckpointShape
    <3> QED BY <3>1 DEF positions
  <2> HIDE DEF c, positions
  <2>3. /\ checkpoint'[a] = c
        /\ \A b \in Actions \ {a} : checkpoint'[b] = checkpoint[b]
    BY <1>1, <2>1 DEF StoreShape
  <2>4. pc' = "write_index" /\ tick' = tick
    BY <1>5 DEF Goto
  <2> HIDE DEF a
  <2>5. ASSUME NEW s \in Symbols
        PROVE  /\ held[s] > 0 => /\ Targets(a)[s].original = held[s]
                                 /\ Targets(a)[s].target = Kept(a, held[s])
                                 /\ held[s] = Owned(s)
               /\ ~(held[s] > 0) /\ a \in Reductions => Targets(a)[s] = NoPosition
               /\ ~(held[s] > 0) /\ a \notin Reductions => Targets(a)[s] = checkpoint[a].positions[s]
    BY <1>1, <1>5 DEF Targets, Reduction, Reductions, At
  <2>6. ASSUME NEW s \in Symbols
        PROVE  /\ Targets(a)[s].original \in Nat /\ Targets(a)[s].target \in Nat
               /\ a \in Reductions => Targets(a)[s].target <= Targets(a)[s].original
    <3>1. held[s] \in Int
      BY DEF BInv, BookTyped
    <3>2. CASE held[s] > 0
      <4>1. Kept(a, held[s]) \in Nat /\ Kept(a, held[s]) <= held[s]
        BY <3>1, <3>2 DEF Kept
      <4> QED BY <2>5, <3>1, <3>2, <4>1
    <3>3. CASE ~(held[s] > 0)
      BY <1>1, <2>5, <3>3 DEF NoPosition, BInv, Frozenness
    <3> QED BY <3>2, <3>3
  <2>7. NoPositions' = NoPositions /\ Reductions' = Reductions
    BY DEF NoPositions, NoPosition, Reductions
  <2>8. Frozenness'
    <3>1. ~Carried'
      BY <1>1, <2>2, <2>3 DEF Carried, StoreShape
    <3>2. ASSUME NEW b \in Actions, NEW s \in Symbols
          PROVE  checkpoint'[b].positions[s].original \in Nat /\ checkpoint'[b].positions[s].target \in Nat
      BY <2>2, <2>3, <2>6 DEF BInv, Frozenness
    <3>3. ASSUME NEW b \in Reductions
          PROVE  /\ ~HasTargets(b)' => checkpoint'[b].positions = NoPositions
                 /\ checkpoint'[b].supersedes = NoAction
      BY <1>1, <2>2, <2>3 DEF BInv, Frozenness, HasTargets, Reductions
    <3> QED BY <2>7, <3>1, <3>2, <3>3 DEF Frozenness
  <2>9. a \in Reductions => \A s \in Symbols :
          Cardinality(Units(Committed, OrdersOf(a, s))) = 0
    <3> SUFFICES ASSUME a \in Reductions, NEW s \in Symbols
                 PROVE  Cardinality(Units(Committed, OrdersOf(a, s))) = 0
      OBVIOUS
    <3>1. checkpoint[a].positions = NoPositions
      BY <1>1 DEF BInv, Frozenness, Reduction, Reductions, a
    <3>2. Cardinality(Units(Committed, OrdersOf(a, s))) <= 0 - 0
      BY <3>1 DEF BInv, Within, NoPositions, NoPosition
    <3>3. Cardinality(Units(Committed, OrdersOf(a, s))) \in Nat
      BY <1>1, BookRows, Split DEF BInv
    <3> QED BY <3>2, <3>3
  <2>10. \A o \in Orders : Committed'[o] = Committed[o]
    BY <1>1, <1>2 DEF Committed, MayTrade
  <2>11. ASSUME NEW b \in Reductions, NEW s \in Symbols
         PROVE  Units(Committed, OrdersOf(b, s))' = Units(Committed, OrdersOf(b, s))
    <3>1. b \in Actions /\ OrdersOf(b, s) \subseteq Orders
      BY OrdersOfIn DEF Reductions
    <3>2. Units(Committed', OrdersOf(b, s)) = Units(Committed, OrdersOf(b, s))
      BY <2>10, <3>1 DEF Units
    <3> QED BY <3>1, <3>2, SameUnits
  <2>12. Within'
    <3>1. ASSUME NEW b \in Reductions, NEW s \in Symbols
          PROVE  Cardinality(Units(Committed, OrdersOf(b, s)))'
                   <= checkpoint'[b].positions[s].original - checkpoint'[b].positions[s].target
      <4>1. CASE b = a
        BY <2>2, <2>3, <2>6, <2>9, <2>11, <1>1, <4>1
      <4>2. CASE b # a
        BY <2>3, <2>11, <4>2 DEF BInv, Within, Reductions
      <4> QED BY <4>1, <4>2
    <3> QED BY <2>7, <3>1 DEF Within
  <2>13. ASSUME a \in Reductions, NEW s \in Symbols, Targets(a)[s] # NoPosition
         PROVE  Bought(traded, s) <= Targets(a)[s].original
                                       + Cardinality(Units(traded, OthersOf(a, s)))
    <3>1. held[s] > 0 /\ held[s] = Net(recorded, s) /\ Targets(a)[s].original = held[s]
      BY <2>5, <2>13 DEF Owned
    <3>2. Bought(recorded, s) = Bought(traded, s)
      <4>1. \A o \in OpeningIn[s] : recorded[o] = traded[o]
        BY <1>1, OrdersFinite DEF AllFinal
      <4> QED BY <4>1 DEF Bought, Units
    <3>3. /\ SoldBy(recorded, s) = Cardinality(Units(recorded, OrdersOf(a, s)))
                                    + Cardinality(Units(recorded, OthersOf(a, s)))
          /\ Cardinality(Units(recorded, OrdersOf(a, s))) \in Nat
          /\ Cardinality(Units(recorded, OthersOf(a, s))) \in Nat
          /\ IsFiniteSet(Units(recorded, OthersOf(a, s)))
          /\ Bought(recorded, s) \in Nat
      BY <1>1, BookRows, Split DEF BInv
    <3>4. OrdersOf(a, s) \in SUBSET Orders /\ OthersOf(a, s) \in SUBSET Orders
      BY <1>1, OrdersOfIn
    <3>5. \A o \in Orders : /\ recorded[o] \in Nat /\ traded[o] \in Nat /\ Committed[o] \in Nat
                            /\ recorded[o] <= traded[o] /\ recorded[o] <= Committed[o]
      <4>1. ASSUME NEW o \in Orders
            PROVE  /\ recorded[o] \in Nat /\ traded[o] \in Nat /\ Committed[o] \in Nat
                   /\ recorded[o] <= traded[o] /\ recorded[o] <= Committed[o]
        <5>1. /\ recorded[o] \in Nat /\ traded[o] \in Nat /\ Committed[o] \in Nat
              /\ recorded[o] <= traded[o] /\ traded[o] <= Committed[o]
          BY BookRows DEF BInv, BookRow
        <5> QED BY <5>1
      <4> QED BY <4>1
    <3>6. Cardinality(Units(recorded, OrdersOf(a, s))) <= Cardinality(Units(Committed, OrdersOf(a, s)))
      <4>1. Units(recorded, OrdersOf(a, s)) \subseteq Units(Committed, OrdersOf(a, s))
        BY <3>4, <3>5, MoreUnits
      <4>2. IsFiniteSet(Units(Committed, OrdersOf(a, s)))
        BY <1>1, <3>5, Split
      <4> QED BY <4>1, <4>2, NoMoreUnits
    <3>7. /\ Cardinality(Units(recorded, OthersOf(a, s))) <= Cardinality(Units(traded, OthersOf(a, s)))
          /\ Cardinality(Units(traded, OthersOf(a, s))) \in Nat
      <4>1. Units(recorded, OthersOf(a, s)) \subseteq Units(traded, OthersOf(a, s))
        BY <3>4, <3>5, MoreUnits
      <4>2. IsFiniteSet(Units(traded, OthersOf(a, s)))
        BY <1>1, <3>5, Split
      <4> QED BY <4>1, <4>2, NoMoreUnits
    <3>8. Cardinality(Units(recorded, OrdersOf(a, s))) = 0
      BY <2>9, <2>13, <3>3, <3>6
    <3>9. held[s] = Bought(traded, s) - Cardinality(Units(recorded, OthersOf(a, s)))
      BY <3>1, <3>2, <3>3, <3>8 DEF Net
    <3>10. held[s] \in Int /\ Bought(traded, s) \in Nat
      BY <3>2, <3>3 DEF BInv, BookTyped
    <3> QED BY <3>1, <3>3, <3>7, <3>9, <3>10
  <2>14. Backed'
    <3>1. ASSUME NEW b \in Reductions, checkpoint'[b].status = "active", NEW s \in Symbols,
                 checkpoint'[b].positions[s] # NoPosition
          PROVE  Bought(traded, s) <= checkpoint'[b].positions[s].original
                                        + Cardinality(Units(traded, OthersOf(b, s)))
      <4>1. CASE b = a
        BY <2>2, <2>3, <2>13, <1>1, <3>1, <4>1
      <4>2. CASE b # a
        <5>1. checkpoint'[b] = checkpoint[b] /\ b \in Actions
          BY <2>3, <4>2 DEF Reductions
        <5>2. s \in Covered(b)
          BY <3>1, <5>1 DEF Covered, At
        <5> QED BY <3>1, <5>1, <5>2 DEF BInv, Backed
      <4> QED BY <4>1, <4>2
    <3>2. \A b \in Reductions : Covered(b)' = {s \in Symbols : checkpoint'[b].positions[s] # NoPosition}
      BY DEF Covered, At, NoPosition
    <3>3. \A b \in Reductions, s \in Symbols :
            /\ Bought(traded, s)' = Bought(traded, s)
            /\ Units(traded, OthersOf(b, s))' = Units(traded, OthersOf(b, s))
      BY <1>1, SameUnits DEF Reductions
    <3> QED BY <2>7, <3>1, <3>2, <3>3 DEF Backed
  <2>15. AtExit'
    BY <2>2, <2>3, <2>4, <2>7, <1>1 DEF AtExit, Exiting, a
  <2> QED BY <1>3, <2>8, <2>12, <2>14, <2>15 DEF BInv, Calm
<1> QED BY <1>4, <1>5 DEF Freeze

-----------------------------------------------------------------------------
(* Every step.                                                              *)
(* The market and the ends of a tick, away from the exits or beside them.   *)
LEMMA OuterAtExit ==
    ASSUME NInv, BInv,
         \/ \E o \in Orders : VenueTrades(o) \/ VenueEnds(o) \/ Enter(o)
         \/ \E s \in Symbols : Protect(s)
         \/ BreakerMoves \/ (\E due \in BOOLEAN : StartTick(due))
         \/ Aside \/ EndTick \/ Crash \/ UNCHANGED vars
    PROVE  AtExit'
<1>1. CASE pc' \in Free
  BY <1>1, NotAtExit DEF Free, Exiting
<1>2. CASE pc' \notin Free
  <2>1. /\ UNCHANGED <<row, size, held, index, checkpoint, pc, todo, symbols, order, tick>>
        /\ \/ \E o \in Orders : VenueTrades(o) \/ VenueEnds(o)
           \/ UNCHANGED <<venue, traded>>
    BY <1>2 DEF VenueTrades, VenueEnds, Enter, Protect, Place, Restart, BreakerMoves, StartTick,
                Aside, Recover, Confirm, CancelRaises,
                EndTick, Crash, control, store, ledger, Free, vars
  <2>2. \A o \in Orders : /\ venue'[o] = "working" => venue[o] = "working"
                          /\ venue[o] = "none" => venue'[o] = "none"
    <3>1. ASSUME NEW o \in Orders, VenueTrades(o) PROVE
            \A p \in Orders : /\ venue'[p] = "working" => venue[p] = "working"
                              /\ venue[p] = "none" => venue'[p] = "none"
      BY <3>1 DEF VenueTrades, NInv, OrderFacts, OrdersTyped
    <3>2. ASSUME NEW o \in Orders, VenueEnds(o) PROVE
            \A p \in Orders : /\ venue'[p] = "working" => venue[p] = "working"
                              /\ venue[p] = "none" => venue'[p] = "none"
      BY <3>2 DEF VenueEnds, NInv, OrderFacts, OrdersTyped
    <3> QED BY <2>1, <3>1, <3>2
  <2>3. ASSUME pc = "recheck"
        PROVE  VenuePosition(tick.symbol)' = VenuePosition(tick.symbol)
    <3>1. tick.symbol \in Symbols /\ \A o \in OrdersIn(tick.symbol) : venue[o] # "working"
      BY <2>3 DEF BInv, AtExit, Exiting
    <3>2. \A o \in OpeningIn[tick.symbol] \cup ExitsIn[tick.symbol] : traded'[o] = traded[o]
      <4>1. ASSUME NEW p \in Orders, VenueTrades(p), NEW o \in OrdersIn(tick.symbol)
            PROVE  traded'[o] = traded[o]
        <5>1. o # p /\ o \in Orders
          BY <3>1, <4>1, OrdersFinite DEF VenueTrades
        <5>2. traded' = [traded EXCEPT ![p] = @ + 1]
          BY <4>1 DEF VenueTrades
        <5> QED BY <5>1, <5>2 DEF BInv, BookTyped
      <4> QED BY <2>1, <4>1 DEF VenueEnds, OrdersIn
    <3>3. /\ VenuePosition(tick.symbol) = Net(traded, tick.symbol)
          /\ VenuePosition(tick.symbol)' = Net(traded', tick.symbol)
      <4>1. tick'.symbol = tick.symbol
        BY <2>1
      <4>2. OpeningIn' = OpeningIn /\ ExitsIn' = ExitsIn
        BY DEF OpeningIn, ExitsIn, Opening, Exits, Orders
      <4> QED BY <4>1, <4>2 DEF VenuePosition, Net, Bought, SoldBy, Units
    <3>4. /\ Units(traded', OpeningIn[tick.symbol]) = Units(traded, OpeningIn[tick.symbol])
          /\ Units(traded', ExitsIn[tick.symbol]) = Units(traded, ExitsIn[tick.symbol])
      BY <3>2 DEF Units
    <3> QED BY <3>3, <3>4 DEF Net, Bought, SoldBy
  <2>4. \A a \in Actions, s \in Symbols : OrdersOf(a, s)' = OrdersOf(a, s)
    BY DEF OrdersOf, OrdersIn, OpeningIn, ExitsIn, Opening, Exits, Orders
  <2>5. \A s \in Symbols : OrdersIn(s)' = OrdersIn(s) /\ \A o \in OrdersIn(s) : o \in Orders
    <3>1. \A s \in Symbols : OrdersIn(s)' = OrdersIn(s)
      BY DEF OrdersIn, OpeningIn, ExitsIn, Opening, Exits, Orders
    <3> QED BY <3>1, OrdersFinite
  <2>6. Reductions' = Reductions /\ Covered(tick.plan)' = Covered(tick.plan)
    BY <2>1 DEF Reductions, Covered, At, NoPosition
  <2>7. pc \in Exiting => tick.plan \in Actions
    BY DEF Exiting, NInv, IInv, PlanOK, Free
  <2>8. pc = "cancel_competing" => (\A o \in OrdersIn(tick.symbol) : Live(o) => o \in todo)'
    BY <2>1, <2>5 DEF BInv, AtExit, Exiting, Live
  <2>9. pc = "recheck" => /\ \A o \in OrdersIn(tick.symbol) : venue'[o] # "working"
                          /\ OrdersIn(tick.symbol)' = OrdersIn(tick.symbol)
                          /\ held'[tick.symbol] = VenuePosition(tick.symbol)'
    BY <2>1, <2>2, <2>3, <2>5 DEF BInv, AtExit, Exiting
  <2>10. pc = "send" => /\ order \in OrdersOf(tick.plan, tick.symbol)'
                        /\ row'[order] = "unknown" /\ venue'[order] = "none" /\ size'[order] > 0
    <3> SUFFICES ASSUME pc = "send"
                 PROVE  /\ order \in OrdersOf(tick.plan, tick.symbol)'
                        /\ row'[order] = "unknown" /\ venue'[order] = "none" /\ size'[order] > 0
      OBVIOUS
    <3>1. /\ order \in OrdersOf(tick.plan, tick.symbol) /\ tick.symbol \in Symbols /\ tick.plan \in Actions
          /\ row[order] = "unknown" /\ venue[order] = "none" /\ size[order] > 0
      BY <2>7 DEF BInv, AtExit, Exiting
    <3>2. order \in Orders
      BY <3>1, OrdersOfIn
    <3>3. OrdersOf(tick.plan, tick.symbol)' = OrdersOf(tick.plan, tick.symbol)
      BY <2>1 DEF OrdersOf, OrdersIn, OpeningIn, ExitsIn, Opening, Exits, Orders
    <3> QED BY <2>1, <2>2, <3>1, <3>2, <3>3
  <2> QED BY <2>1, <2>6, <2>8, <2>9, <2>10 DEF BInv, AtExit, Exiting
<1> QED BY <1>1, <1>2

LEMMA OuterCalm ==
    ASSUME NInv, BInv,
         \/ \E o \in Orders : VenueTrades(o) \/ VenueEnds(o) \/ Enter(o)
         \/ \E s \in Symbols : Protect(s)
         \/ BreakerMoves \/ (\E due \in BOOLEAN : StartTick(due))
         \/ Aside \/ EndTick \/ Crash \/ UNCHANGED vars
    PROVE  Calm
<1>1. BookTyped /\ OrdersTyped
  BY DEF NInv, OrderFacts, BInv
<1>2. CASE BreakerMoves \/ (\E due \in BOOLEAN : StartTick(due)) \/ EndTick
           \/ (\E o \in Orders : CancelRaises(o)) \/ UNCHANGED vars
  <2>1. UNCHANGED <<venue, traded, row, recorded, size>>
    BY <1>2 DEF BreakerMoves, StartTick, EndTick, CancelRaises, vars, market, ledger
  <2>2. NothingSent
    BY <1>2 DEF BreakerMoves, StartTick, EndTick, CancelRaises, vars, control, NothingSent
  <2>3. held' \in [Symbols -> Int]
    <3>1. Synced \/ UNCHANGED held
      BY <1>2 DEF BreakerMoves, StartTick, EndTick, CancelRaises, vars
    <3> QED BY <1>1, <3>1, SyncTyped DEF BookTyped
  <2> QED BY <1>1, <2>1, <2>2, <2>3, StillCalm
<1>3. CASE \E o \in Orders : VenueTrades(o) \/ VenueEnds(o) \/ Enter(o)
  BY <1>1, <1>3, TradeCalm, EndsCalm, EnterCalm
<1>4. CASE \/ \E s \in Symbols : Protect(s)
           \/ \E expired \in SUBSET Intents : Recover(expired)
           \/ \E o \in Orders : Confirm(o)
  BY <1>1, <1>4, ProtectCalm, RecoverCalm, ConfirmCalm
<1>5. CASE Crash
  <2>1. pc = "send" =>
          /\ order \in OrdersOf(tick.plan, tick.symbol) /\ venue[order] = "none"
          /\ tick.symbol \in Symbols /\ tick.plan \in Actions
    BY DEF BInv, AtExit, Exiting, NInv, IInv, PlanOK, Free
  <2>2. pc = "send" => order \in Orders /\ venue[order] = "none"
    BY <2>1, OrdersOfIn
  <2> QED BY <1>1, <1>5, <2>2, CrashCalm
<1> QED BY <1>2, <1>3, <1>4, <1>5 DEF Aside

(* The cancellations and exits, but for the submission.                     *)
LEMMA ExitsCalm ==
    ASSUME NInv, BInv,
         \/ \E o \in Orders : CancelOne(o)
         \/ Cancelled \/ OwnSync \/ Decide \/ Send \/ Answer \/ ExitSync
         \/ \E s \in Symbols : ExitStart(s)
    PROVE  Calm
<1>1. BookTyped /\ OrdersTyped
  BY DEF NInv, OrderFacts, BInv
<1>2. CASE Cancelled \/ OwnSync \/ Decide \/ ExitSync
  <2>1. UNCHANGED <<venue, traded, row, recorded, size>>
    BY <1>2 DEF Cancelled, OwnSync, Decide, ExitSync, market, ledger
  <2>2. NothingSent
    <3>1. ASSUME NEW accepted, SymbolDone(accepted) PROVE NothingSent
      BY <3>1 DEF SymbolDone, NothingSent
    <3>2. ASSUME GiveUp PROVE NothingSent
      BY <3>1, <3>2 DEF GiveUp, EndRisk, NothingSent
    <3>3. ASSUME Cancelled PROVE NothingSent
      BY <3>1, <3>2, <3>3 DEF Cancelled, CancelLoops, Goto, NothingSent
    <3>4. ASSUME OwnSync \/ Decide \/ ExitSync PROVE NothingSent
      BY <3>1, <3>4 DEF OwnSync, Decide, ExitSync, CancelLoop, NothingSent
    <3> QED BY <1>2, <3>3, <3>4
  <2>3. held' \in [Symbols -> Int]
    <3>1. Synced \/ UNCHANGED held
      BY <1>2 DEF Cancelled, OwnSync, Decide, ExitSync
    <3> QED BY <1>1, <3>1, SyncTyped DEF BookTyped
  <2> QED BY <1>1, <2>1, <2>2, <2>3, StillCalm
<1>3. CASE Send
  <2>1. /\ order \in OrdersOf(tick.plan, tick.symbol) /\ tick.symbol \in Symbols /\ tick.plan \in Actions
        /\ row[order] = "unknown" /\ venue[order] = "none" /\ size[order] > 0
    BY <1>3 DEF Send, BInv, AtExit, Exiting, NInv, IInv, PlanOK, Free
  <2>2. order \in Orders
    BY <2>1, OrdersOfIn
  <2> QED BY <1>1, <1>3, <2>1, <2>2, SendCalm
<1> QED BY <1>1, <1>2, <1>3, CancelCalm, AnswerCalm, ExitStartCalm

LEMMA ExitsAtExit ==
    ASSUME NInv, BInv, Quiet,
         \/ \E o \in Orders : CancelOne(o)
         \/ Cancelled \/ OwnSync \/ Decide \/ Send \/ Answer \/ ExitSync
         \/ \E s \in Symbols : ExitStart(s)
    PROVE  AtExit'
<1>1. BookTyped /\ OrdersTyped /\ AtExit /\ TickShape(tick)
  BY DEF NInv, IInv, PlanOK, OrderFacts, BInv
<1> QED BY <1>1, CancelAtExit, CancelledAtExit, DecideAtExit, OtherAtExit, ExitStartAtExit

LEMMA InitB == Init => BInv
<1> SUFFICES ASSUME Init PROVE BInv OBVIOUS
<1>1. BookTyped
  BY DEF Init, BookTyped
<1>2. ~Carried /\ pc = "idle" /\ checkpoint = [a \in Actions |-> NoCheckpoint]
  BY DEF Init, Carried, NoIndex
<1>3. \A a \in Actions : /\ checkpoint[a].positions = NoPositions
                         /\ checkpoint[a].supersedes = NoAction /\ checkpoint[a].status = "none"
  BY <1>2 DEF NoCheckpoint, NoPositions
<1>4. \A s \in Symbols : NoPositions[s].original = 0 /\ NoPositions[s].target = 0
  BY DEF NoPositions, NoPosition
<1>5. Frozenness
  BY <1>2, <1>3, <1>4 DEF Frozenness, Reductions
<1>6. Within
  <2>1. ASSUME NEW a \in Reductions, NEW s \in Symbols
        PROVE  Cardinality(Units(Committed, OrdersOf(a, s)))
                 <= checkpoint[a].positions[s].original - checkpoint[a].positions[s].target
    <3>1. a \in Actions /\ OrdersOf(a, s) \subseteq Orders
      BY OrdersOfIn DEF Reductions
    <3>2. \A o \in Orders : Committed[o] = 0
      BY DEF Init, Committed, MayTrade
    <3>3. Units(Committed, OrdersOf(a, s)) = {}
      BY <3>1, <3>2 DEF Units
    <3>4. Cardinality({}) = 0
      BY FS_EmptySet
    <3> QED BY <1>3, <1>4, <3>1, <3>3, <3>4
  <2> QED BY <2>1 DEF Within
<1>7. Backed
  BY <1>3 DEF Backed, Reductions
<1>8. AtExit
  BY <1>2 DEF AtExit, Exiting
<1> QED BY <1>1, <1>5, <1>6, <1>7, <1>8 DEF BInv

LEMMA NextB == NInv /\ NoneOrphaned /\ BInv /\ [Next]_vars => BInv'
<1> SUFFICES ASSUME NInv, NoneOrphaned, BInv, [Next]_vars PROVE BInv' OBVIOUS
<1>c. ASSUME Calm, Frozenness', NothingFrozen, AtExit' PROVE BInv'
  BY <1>c, CalmKeeps DEF BInv, Calm
<1>1. CASE \/ \E o \in Orders : VenueTrades(o) \/ VenueEnds(o) \/ Enter(o)
           \/ \E s \in Symbols : Protect(s)
           \/ BreakerMoves \/ (\E due \in BOOLEAN : StartTick(due))
           \/ Aside \/ EndTick \/ Crash \/ UNCHANGED vars
  <2>1. UNCHANGED <<index, checkpoint>>
    BY <1>1 DEF VenueTrades, VenueEnds, Enter, Protect, Place, Restart, BreakerMoves, StartTick, Aside,
         Recover, Confirm, CancelRaises, EndTick, Crash, store, vars
  <2>2. Frozenness' /\ NothingFrozen
    BY <2>1, SameStore DEF BInv
  <2> QED BY <1>1, <1>c, <2>2, OuterCalm, OuterAtExit
<1>2. CASE \/ \E o \in Orders : CancelOne(o)
           \/ Cancelled \/ OwnSync \/ Decide \/ Send \/ Answer \/ ExitSync
           \/ \E s \in Symbols : ExitStart(s)
  <2>1. Quiet
    BY <1>2, ExitSteps DEF NInv
  <2>2. Frozenness' /\ NothingFrozen
    BY <2>1, SameStore DEF BInv, Quiet
  <2> QED BY <1>2, <1>c, <2>1, <2>2, ExitsCalm, ExitsAtExit
<1>3. CASE SubmitExit
  BY <1>3, ExitSteps, SubmitKeeps DEF NInv
<1>4. CASE RestoreCarried \/ TakeUp \/ BeginAction \/ WriteKey \/ Begin
             \/ WriteIndex \/ Supersede \/ Complete \/ ClearIndex
  BY <1>4, <1>c, StoreSteps
<1>5. CASE Freeze
  BY <1>5, FreezeKeeps
<1> QED BY <1>1, <1>2, <1>3, <1>4, <1>5 DEF Next, Step, Aside

(* What an action has sold is part of what it may yet have sold.            *)
LEMMA SoldWithin == BInv => ReductionBounded
<1> SUFFICES ASSUME BInv, NEW a \in Actions \ Liquidations, NEW s \in Symbols
             PROVE  Sold(a, s) <= checkpoint[a].positions[s].original
                                    - checkpoint[a].positions[s].target
  BY DEF ReductionBounded
<1>1. OrdersOf(a, s) \in SUBSET Orders
  BY OrdersOfIn
<1>2. \A o \in Orders : /\ traded[o] \in Nat /\ Committed[o] \in Nat /\ traded[o] <= Committed[o]
  BY BookRows DEF BInv
<1>3. Units(traded, OrdersOf(a, s)) \subseteq Units(Committed, OrdersOf(a, s))
  BY <1>1, <1>2, MoreUnits
<1>4. IsFiniteSet(Units(Committed, OrdersOf(a, s)))
  BY <1>2, Split
<1>5. /\ Cardinality(Units(traded, OrdersOf(a, s))) <= Cardinality(Units(Committed, OrdersOf(a, s)))
      /\ Cardinality(Units(traded, OrdersOf(a, s))) \in Nat
      /\ Cardinality(Units(Committed, OrdersOf(a, s))) \in Nat
  BY <1>3, <1>4, NoMoreUnits
<1>6. Cardinality(Units(Committed, OrdersOf(a, s)))
        <= checkpoint[a].positions[s].original - checkpoint[a].positions[s].target
  BY DEF BInv, Within, Reductions
<1>7. checkpoint[a].positions[s].original \in Nat /\ checkpoint[a].positions[s].target \in Nat
  BY DEF BInv, Frozenness
<1> QED BY <1>5, <1>6, <1>7 DEF Sold

(* Whatever the symbols, actions and sizes, and over any crash, refusal and *)
(* lost answer: a reduction, though it submits again whenever it does not   *)
(* know, sells no more than what it froze is above its target               *)
(* (risk_actions.py:181-206, tick_orchestrator.py:985-1061), as long as no  *)
(* reduction is left behind with its targets.                               *)
THEOREM ReductionsStayBounded == Spec /\ []NoneOrphaned => []ReductionBounded
BY InitN, NextN, InitB, NextB, SoldWithin, PTL DEF Spec

-----------------------------------------------------------------------------
(* No reduction is left behind where there is one liquidation at most       *)
(* (risk_actions.py:136-156).                                               *)
OneLiquidation == \A a, b \in Liquidations : a = b

NoneUnfinished == \A a \in Reductions : ~Unfinished(a)

(* Every reduction that is not over is the action in the index, or the one  *)
(* that takes its place has it on record.                                   *)
Accounted == \A a \in Reductions : Unfinished(a) => UnderWay(a)

(* Ids are used once, and a transition is not asked for under another id.   *)
Asked ==
    /\ directive \in issued \cup {NoAction} /\ transition \in issued \cup {NoAction}
    /\ \A a \in Actions : /\ checkpoint[a].status \in Statuses
                          /\ checkpoint[a].status # "none" => a \in issued
    /\ Carried => index.action \in issued
    /\ directive \in DailyHalts \/ directive = transition
    /\ transition \notin DailyHalts

(* A liquidation that was begun before the reduction in the index is not    *)
(* asked for any more.                                                      *)
NotAskedAgain ==
    \A a \in Liquidations :
        index.action \in Reductions /\ (Active \/ Carried) /\ checkpoint[a].status # "none"
            => directive # a

AtHand ==
    /\ pc \notin Free \cup {"write_key"} => checkpoint[tick.plan].status # "none"
    /\ pc \notin Free \cup {"begin"} /\ tick.plan \in Reductions => index.action = tick.plan
    /\ pc = "begin" /\ tick.plan \in Reductions =>
          index.action = tick.plan \/ checkpoint[tick.plan].status = "completed"
    /\ pc \notin Free /\ tick.plan \in Liquidations => index.action = tick.plan \/ NoneUnfinished
    /\ pc \in Exiting /\ tick.plan \in Liquidations => NoneUnfinished
    /\ pc = "clear" => NoneUnfinished

OInv == Accounted /\ Asked /\ NotAskedAgain /\ AtHand

LEMMA AccountedFor == OInv => NoneOrphaned
BY DEF OInv, Accounted, NoneOrphaned, Reductions, Unfinished

LEMMA InitO == Init => OInv
<1> SUFFICES ASSUME Init PROVE OInv OBVIOUS
<1>1. /\ ~Carried /\ ~Active /\ pc = "idle"
      /\ \A a \in Actions : checkpoint[a].status = "none"
  BY DEF Init, Carried, Active, NoIndex, NoCheckpoint
<1>2. Accounted /\ NotAskedAgain /\ AtHand
  BY <1>1 DEF Accounted, NotAskedAgain, AtHand, Unfinished, Reductions, Free, Exiting
<1>3. Asked
  BY <1>1, RiskActionsAssumption DEF Init, Asked, Statuses
<1> QED BY <1>2, <1>3 DEF OInv

(* What the store says is kept where it is left alone.                      *)
LEMMA SameIndex ==
    ASSUME UNCHANGED <<index, checkpoint>>
    PROVE  /\ Carried' = Carried /\ Active' = Active /\ NoneUnfinished' = NoneUnfinished
           /\ Accounted' = Accounted
BY DEF Carried, Active, NoneUnfinished, Unfinished, Accounted, UnderWay, Reductions

(* The steps between the writes.                                            *)
LEMMA Between ==
    ASSUME OInv, UNCHANGED <<index, checkpoint, directive, transition, issued>>,
           \/ pc' \in Free
           \/ pc' = pc /\ tick'.plan = tick.plan
           \/ pc' = "freeze" /\ pc = "cancel_openings" /\ tick'.plan = tick.plan
           \/ pc' \in Exiting /\ pc \in Exiting /\ tick'.plan = tick.plan
    PROVE  OInv'
<1>1. /\ Carried' = Carried /\ Active' = Active /\ NoneUnfinished' = NoneUnfinished
      /\ Accounted' = Accounted
  BY SameIndex
<1>2. Accounted' /\ Asked' /\ NotAskedAgain'
  BY <1>1 DEF OInv, Asked, NotAskedAgain, Reductions
<1>3. AtHand'
  <2>1. CASE pc' \in Free
    BY <2>1 DEF AtHand, Free, Exiting
  <2>2. CASE pc' = pc /\ tick'.plan = tick.plan
    BY <1>1, <2>2 DEF OInv, AtHand, Reductions
  <2>3. CASE pc' = "freeze" /\ pc = "cancel_openings" /\ tick'.plan = tick.plan
    BY <1>1, <2>3 DEF OInv, AtHand, Reductions, Free, Exiting
  <2>4. CASE pc' \in Exiting /\ pc \in Exiting /\ tick'.plan = tick.plan
    BY <1>1, <2>4 DEF OInv, AtHand, Reductions, Free, Exiting
  <2> QED BY <2>1, <2>2, <2>3, <2>4
<1> QED BY <1>2, <1>3 DEF OInv

LEMMA BetweenSteps ==
    ASSUME NInv, OInv,
         \/ \E o \in Orders : VenueTrades(o) \/ VenueEnds(o) \/ Enter(o)
         \/ \E s \in Symbols : Protect(s)
         \/ (\E due \in BOOLEAN : StartTick(due)) \/ Aside \/ EndTick \/ Crash \/ UNCHANGED vars
         \/ \E o \in Orders : CancelOne(o)
         \/ Cancelled \/ OwnSync \/ Decide \/ SubmitExit \/ Send \/ Answer \/ ExitSync
         \/ \E s \in Symbols : ExitStart(s)
    PROVE  OInv'
<1>t. TickShape(tick) /\ IInv /\ OrderFacts /\ (pc \in AtSymbol => tick.symbol \in Symbols)
  BY DEF NInv, IInv, PlanOK, Hand
<1>1. CASE \/ \E o \in Orders : VenueTrades(o) \/ VenueEnds(o) \/ Enter(o)
           \/ \E s \in Symbols : Protect(s)
           \/ (\E due \in BOOLEAN : StartTick(due)) \/ Aside \/ EndTick \/ Crash \/ UNCHANGED vars
  <2>1. UNCHANGED <<index, checkpoint, directive, transition, issued>>
    BY <1>1 DEF VenueTrades, VenueEnds, Enter, Protect, Place, Restart, StartTick, Aside,
         Recover, Confirm, CancelRaises, EndTick, Crash, store, breaker, vars
  <2>2. UNCHANGED <<pc, tick>> \/ pc' \in Free
    BY <1>1 DEF VenueTrades, VenueEnds, Enter, Protect, Place, Restart, StartTick, Aside,
         Recover, Confirm, CancelRaises, EndTick, Crash, control, Free, vars
  <2> QED BY <2>1, <2>2, Between
<1>2. CASE \/ \E o \in Orders : CancelOne(o)
           \/ Cancelled \/ OwnSync \/ Decide \/ SubmitExit \/ Send \/ Answer \/ ExitSync
           \/ \E s \in Symbols : ExitStart(s)
  <2>1. Quiet
    BY <1>2, <1>t, ExitSteps
  <2>2. Flow
    BY <1>2, <1>t, ExitFlow
  <2>3. issued' = issued
    BY <1>2 DEF CancelOne, Cancelled, OwnSync, Decide, SubmitExit, Send, Answer, ExitSync, ExitStart,
                breaker
  <2>4. pc' \in Free \/ tick'.plan = tick.plan
    BY <2>1 DEF Quiet, GoesOn
  <2>5. Working \ {"cancel_openings"} \subseteq Exiting
    BY DEF Working, Exiting
  <2>6. \/ pc' \in Free
        \/ pc' = "freeze" /\ pc = "cancel_openings"
        \/ pc' \in Exiting /\ pc \in Exiting
        \/ pc' = pc
    BY <2>2, <2>5 DEF Flow, Free
  <2>7. UNCHANGED <<index, checkpoint, directive, transition>>
    BY <2>1 DEF Quiet
  <2> QED BY <2>3, <2>4, <2>6, <2>7, Between
<1> QED BY <1>1, <1>2

(* The breaker asks for nothing a second time.                              *)
LEMMA BreakerO ==
    ASSUME OneLiquidation, NInv, OInv, BreakerMoves
    PROVE  OInv'
<1>1. UNCHANGED <<index, checkpoint, pc, tick>> /\ pc = "idle"
  BY DEF BreakerMoves, store, control
<1>2. Carried' = Carried /\ Active' = Active /\ Accounted' = Accounted
  BY <1>1, SameIndex
<1>3. AtHand'
  BY <1>1 DEF AtHand, Free, Exiting
<1>4. /\ issued' = issued \cup ({directive', transition'} \ {NoAction})
      /\ \/ /\ transition' \in (Actions \ (issued \cup DailyHalts)) \cup {NoAction}
            /\ directive' = IF directive \in DailyHalts THEN directive ELSE transition'
         \/ directive' \in (DailyHalts \ issued) \cup {transition} /\ transition' = transition
  BY DEF BreakerMoves
<1>5. NoAction \notin Actions /\ DailyHalts \subseteq Liquidations /\ Liquidations \subseteq Actions
  BY RiskActionsAssumption
<1>6. Asked'
  BY <1>1, <1>2, <1>4, <1>5 DEF OInv, Asked
<1>7. NotAskedAgain'
  <2> SUFFICES ASSUME NEW a \in Liquidations, index.action \in Reductions, Active \/ Carried,
                      checkpoint[a].status # "none", directive' = a
               PROVE  FALSE
    BY <1>1, <1>2 DEF NotAskedAgain, Reductions
  <2>1. directive # a /\ a \in issued /\ a # NoAction /\ a \in Actions
    BY <1>5 DEF OInv, NotAskedAgain, Asked
  <2>2. transition # a
    <3>1. DailyHalts \subseteq {a}
      BY <1>5 DEF OneLiquidation
    <3> QED BY <2>1, <3>1 DEF OInv, Asked
  <2> QED BY <1>4, <2>1, <2>2
<1> QED BY <1>2, <1>3, <1>6, <1>7 DEF OInv

(* The carried checkpoint becomes the key.                                  *)
LEMMA KeyWrittenO ==
    ASSUME NInv, BInv, OInv, Carried, UNCHANGED index,
           checkpoint' = [checkpoint EXCEPT ![index.action] = index.copy]
    PROVE  /\ Accounted' /\ ~Carried' /\ Active'
           /\ checkpoint'[index.action].status = "preparing"
           /\ \A a \in Actions \ {index.action} : checkpoint'[a] = checkpoint[a]
<1> DEFINE x == index.action
<1>1. /\ x \in Actions /\ x # NoAction /\ checkpoint[x].status = "none" /\ index.copy.status = "preparing"
  BY DEF Carried, NInv, IInv, StoreShape, IndexKept
<1>2. checkpoint'[x] = index.copy /\ \A a \in Actions \ {x} : checkpoint'[a] = checkpoint[a]
  BY <1>1 DEF NInv, IInv, StoreShape
<1>3. ~Carried' /\ Active'
  BY <1>1, <1>2 DEF Carried, Active
<1>4. ASSUME NEW a \in Reductions, Unfinished(a)' PROVE UnderWay(a)'
  <2>1. CASE a = x
    BY <2>1 DEF UnderWay
  <2>2. CASE a # x
    <3>1. Unfinished(a)
      BY <1>2, <1>4, <2>2 DEF Unfinished, Reductions
    <3>2. UnderWay(a)
      BY <3>1 DEF OInv, Accounted
    <3>3. index.copy.supersedes = a
      BY <1>1, <2>2, <3>2 DEF UnderWay, Active
    <3> QED BY <1>2, <1>3, <3>3 DEF UnderWay
  <2> QED BY <2>1, <2>2
<1> QED BY <1>1, <1>2, <1>3, <1>4 DEF Accounted, Reductions

LEMMA RestoreO ==
    ASSUME NInv, BInv, OInv, RestoreCarried
    PROVE  OInv'
<1>1. /\ Carried /\ UNCHANGED <<index, directive, transition, issued>> /\ pc' = "plan"
      /\ checkpoint' = [checkpoint EXCEPT ![index.action] = index.copy]
  BY DEF RestoreCarried, breaker, control
<1>2. /\ Accounted' /\ ~Carried' /\ Active'
      /\ checkpoint'[index.action].status = "preparing"
      /\ \A a \in Actions \ {index.action} : checkpoint'[a] = checkpoint[a]
  BY <1>1, KeyWrittenO
<1>3. Asked'
  BY <1>1, <1>2 DEF OInv, Asked, Statuses
<1>4. NotAskedAgain'
  BY <1>1, <1>2, RiskActionsAssumption DEF OInv, NotAskedAgain, Reductions
<1>5. AtHand'
  BY <1>1 DEF AtHand, Free, Exiting
<1> QED BY <1>2, <1>3, <1>4, <1>5 DEF OInv

LEMMA WriteKeyO ==
    ASSUME NInv, BInv, OInv, WriteKey
    PROVE  OInv'
<1>1. /\ pc = "write_key" /\ tick.plan \in Actions /\ checkpoint[tick.plan].status = "none"
      /\ index.action = tick.plan
      /\ UNCHANGED <<index, directive, transition, issued, tick>> /\ pc' = "begin"
      /\ checkpoint' = [checkpoint EXCEPT ![index.action] = index.copy]
  BY DEF WriteKey, breaker, NInv, IInv, PlanOK, IndexKept, Free
<1>2. Carried
  BY <1>1, RiskActionsAssumption DEF Carried
<1>3. /\ Accounted' /\ ~Carried' /\ Active'
      /\ checkpoint'[index.action].status = "preparing"
      /\ \A a \in Actions \ {index.action} : checkpoint'[a] = checkpoint[a]
  BY <1>1, <1>2, KeyWrittenO
<1>4. Asked'
  BY <1>1, <1>2, <1>3 DEF OInv, Asked, Statuses
<1>5. NotAskedAgain'
  BY <1>1, <1>2, <1>3, RiskActionsAssumption DEF OInv, NotAskedAgain, Reductions
<1>6. AtHand'
  BY <1>1, <1>3 DEF AtHand, Free, Exiting
<1> QED BY <1>3, <1>4, <1>5, <1>6 DEF OInv

LEMMA TakeUpO ==
    ASSUME OneLiquidation, NInv, BInv, OInv, TakeUp
    PROVE  OInv'
<1> USE DEF store
<1>1. pc = "plan" /\ ~Carried /\ UNCHANGED <<index, checkpoint, directive, transition, issued>>
  BY DEF TakeUp, breaker
<1>2. CASE Plan = NoAction
  BY <1>1, <1>2, Between DEF TakeUp, EndRisk, Free
<1>3. CASE Plan # NoAction
  <2>1. /\ checkpoint[Plan].status # "none" /\ pc' = "begin" /\ tick' = [tick EXCEPT !.plan = Plan]
        /\ Plan \in Actions
    BY <1>3, PlanIsAction DEF TakeUp, NInv, IInv
  <2>2. tick'.plan = Plan
    BY <2>1 DEF NInv, IInv, PlanOK, TickShape
  <2>3. /\ Carried' = Carried /\ Active' = Active /\ NoneUnfinished' = NoneUnfinished
        /\ Accounted' = Accounted
    BY <1>1, SameIndex
  <2>4. Accounted' /\ Asked' /\ NotAskedAgain'
    BY <1>1, <2>3 DEF OInv, Asked, NotAskedAgain, Reductions
  <2>5. ~Active => NoneUnfinished
    BY <1>1, RiskActionsAssumption
       DEF OInv, Accounted, NoneUnfinished, UnderWay, Active, Unfinished, Reductions
  <2>6. Plan \in Reductions => Plan = index.action \/ checkpoint[Plan].status = "completed"
    <3>1. CASE Active
      BY <3>1 DEF Plan, Supersedes, Reductions
    <3>2. CASE ~Active
      <4>1. Plan \in Reductions => ~Unfinished(Plan)
        BY <2>5, <3>2 DEF NoneUnfinished
      <4>2. checkpoint[Plan].status \in Statuses
        BY <2>1 DEF OInv, Asked
      <4> QED BY <2>1, <4>1, <4>2 DEF Unfinished, Statuses
    <3> QED BY <3>1, <3>2
  <2>7. Plan \in Liquidations => Plan = index.action \/ NoneUnfinished
    <3> SUFFICES ASSUME Plan \in Liquidations, Active, Plan # index.action PROVE NoneUnfinished
      BY <2>5
    <3>1. Plan = directive /\ index.action \in Actions
      BY DEF Plan, Active, NInv, IInv, StoreShape
    <3>2. index.action \notin Reductions
      BY <2>1, <3>1 DEF OInv, NotAskedAgain
    <3> QED BY <3>1, <3>2 DEF OneLiquidation, Reductions
  <2>8. AtHand'
    BY <1>1, <2>1, <2>2, <2>3, <2>6, <2>7 DEF AtHand, Free, Exiting, Reductions
  <2> QED BY <2>4, <2>8 DEF OInv
<1> QED BY <1>2, <1>3

LEMMA BeginActionO ==
    ASSUME OneLiquidation, NInv, BInv, OInv, BeginAction
    PROVE  OInv'
<1>1. /\ index' = [action |-> Plan, copy |-> New] /\ Plan \in Actions
      /\ UNCHANGED <<checkpoint, directive, transition, issued>> /\ checkpoint[Plan].status = "none"
      /\ pc' = "write_key" /\ tick' = [tick EXCEPT !.plan = Plan] /\ pc = "plan" /\ ~Carried
  BY PlanIsAction DEF BeginAction, breaker, NInv, IInv
<1>2. tick'.plan = Plan
  BY <1>1 DEF NInv, IInv, PlanOK, TickShape
<1>3. New.supersedes = Supersedes
  BY DEF New, NoCheckpoint
<1>4. Carried' /\ ~Active'
  BY <1>1, RiskActionsAssumption DEF Carried, Active
<1>5. Plan = directive
  <2>1. Plan = index.action => ~Active
    BY <1>1 DEF Active
  <2> QED BY <2>1 DEF Plan
<1>6. ASSUME NEW a \in Reductions, Unfinished(a) PROVE a = index.action /\ a = Supersedes
  <2>1. a \in Actions /\ UnderWay(a)
    BY <1>6 DEF OInv, Accounted, Reductions
  <2>2. CASE index.action = a
    <3>1. Active
      BY <1>6, <2>1, <2>2, RiskActionsAssumption DEF Active, Unfinished
    <3>2. Plan # index.action
      BY <1>1, <3>1 DEF Active
    <3> QED BY <2>2, <3>1, <3>2 DEF Plan, Supersedes
  <2>3. CASE Active /\ checkpoint[index.action].supersedes = a /\ index.action # a
    <3>1. index.action \in Liquidations
      <4>1. index.action \in Actions
        BY <2>3 DEF Active, NInv, IInv, StoreShape
      <4>2. index.action \notin Reductions
        <5>1. a # NoAction
          BY <2>1, RiskActionsAssumption
        <5>2. \A b \in Reductions : checkpoint[b].supersedes = NoAction
          BY DEF BInv, Frozenness
        <5> QED BY <2>3, <5>1, <5>2
      <4> QED BY <4>1, <4>2 DEF Reductions
    <3>2. Supersedes = NoAction
      BY <3>1 DEF Supersedes, OneLiquidation
    <3>3. Plan = index.action
      BY <2>3, <3>2 DEF Plan
    <3> QED BY <1>1, <2>3, <3>3 DEF Active
  <2> QED BY <1>1, <2>1, <2>2, <2>3 DEF UnderWay
<1>7. Accounted'
  <2>1. ASSUME NEW a \in Reductions, Unfinished(a)' PROVE UnderWay(a)'
    <3>1. Unfinished(a)
      BY <1>1, <2>1 DEF Unfinished
    <3>2. a = Supersedes
      BY <1>6, <3>1
    <3> QED BY <1>1, <1>3, <1>4, <3>2 DEF UnderWay
  <2> QED BY <2>1 DEF Accounted, Reductions
<1>8. Asked'
  BY <1>1, <1>5, RiskActionsAssumption DEF OInv, Asked
<1>9. NotAskedAgain'
  BY <1>1, <1>5 DEF NotAskedAgain, Reductions
<1>10. AtHand'
  BY <1>1, <1>2 DEF AtHand, Free, Exiting
<1> QED BY <1>7, <1>8, <1>9, <1>10 DEF OInv

LEMMA BeginO ==
    ASSUME NInv, BInv, OInv, Begin
    PROVE  OInv'
<1> USE DEF store
<1>1. pc = "begin" /\ UNCHANGED <<index, checkpoint, directive, transition, issued>> /\ tick.plan \in Actions
  BY DEF Begin, breaker, NInv, IInv, PlanOK, Free
<1>2. /\ Carried' = Carried /\ Active' = Active /\ NoneUnfinished' = NoneUnfinished
      /\ Accounted' = Accounted
  BY <1>1, SameIndex
<1>3. Accounted' /\ Asked' /\ NotAskedAgain'
  BY <1>1, <1>2 DEF OInv, Asked, NotAskedAgain, Reductions
<1>4. CASE EndRisk(FALSE, FALSE)
  BY <1>1, <1>4, Between DEF EndRisk, Free
<1>5. CASE Frozen(tick.plan) /\ pc' = "exits" /\ UNCHANGED tick
  <2>1. tick.plan \in Reductions /\ checkpoint[tick.plan].status = "active"
    BY <1>1, <1>5 DEF Frozen, Reduction, Reductions, At
  <2>2. AtHand'
    BY <1>1, <1>5, <2>1 DEF OInv, AtHand, Free, Exiting, Reductions
  <2> QED BY <1>3, <2>2 DEF OInv
<1>6. CASE /\ ~(Reduction(tick.plan) /\ At(tick.plan).status = "completed")
           /\ pc' = "cancel_openings"
           /\ tick' = [tick EXCEPT !.performed = ToCancel(tick.plan) # {}]
  <2> DEFINE performed == ToCancel(tick.plan) # {}
  <2>1. tick' = [tick EXCEPT !.performed = performed]
    BY <1>6
  <2> HIDE DEF performed
  <2>2. tick'.plan = tick.plan
    BY <2>1 DEF NInv, IInv, PlanOK, TickShape
  <2>3. tick.plan \in Reductions => checkpoint[tick.plan].status # "completed"
    BY <1>1, <1>6 DEF Reduction, Reductions, At
  <2>4. AtHand'
    BY <1>1, <1>2, <1>6, <2>2, <2>3 DEF OInv, AtHand, Free, Exiting, Reductions
  <2> QED BY <1>3, <2>4 DEF OInv
<1> QED BY <1>4, <1>5, <1>6 DEF Begin

LEMMA FreezeO ==
    ASSUME NInv, BInv, OInv, Freeze
    PROVE  OInv'
<1> USE DEF store
<1> DEFINE a == tick.plan
<1>1. /\ pc = "freeze" /\ a \in Actions /\ ~Carried
      /\ UNCHANGED <<index, directive, transition, issued>>
      /\ checkpoint[a].status # "none" /\ StoreShape
      /\ ~(Reduction(a) /\ HasTargets(a))
  BY DEF Freeze, breaker, NInv, IndexKept, IInv, PlanOK, Free, OInv, AtHand
<1>2. CASE EndRisk(TRUE, tick.performed) /\ UNCHANGED checkpoint
  BY <1>1, <1>2, Between DEF EndRisk, Free
<1>3. CASE /\ checkpoint' = [checkpoint EXCEPT ![tick.plan] =
                  [@ EXCEPT !.status = "active", !.positions = Targets(tick.plan)]]
           /\ Goto("write_index")
  <2> DEFINE positions == Targets(a)
             c == [checkpoint[a] EXCEPT !.status = "active", !.positions = positions]
  <2>1. checkpoint' = [checkpoint EXCEPT ![a] = c]
    BY <1>1, <1>3 DEF StoreShape
  <2> HIDE DEF positions
  <2>2. c.status = "active" /\ c.supersedes = checkpoint[a].supersedes
    BY <1>1 DEF StoreShape, CheckpointShape
  <2> HIDE DEF c
  <2>3. /\ checkpoint'[a].status = "active" /\ checkpoint'[a].supersedes = checkpoint[a].supersedes
        /\ \A b \in Actions \ {a} : checkpoint'[b] = checkpoint[b]
    BY <1>1, <2>1, <2>2 DEF StoreShape
  <2>4. pc' = "write_index" /\ tick' = tick
    BY <1>3 DEF Goto
  <2> HIDE DEF a
  <2>5. \A b \in Reductions : Unfinished(b)' <=> Unfinished(b)
    <3>1. a \in Reductions => Unfinished(a)
      BY <1>1 DEF Reductions, Reduction, OInv, Asked, Statuses, HasTargets, Unfinished
    <3> QED BY <2>3, <3>1 DEF Unfinished, Reductions
  <2>6. NoneUnfinished' <=> NoneUnfinished
    BY <2>5 DEF NoneUnfinished, Reductions
  <2>7. ~Carried' /\ (Active => Active')
    BY <1>1, <2>3 DEF Carried, Active, StoreShape
  <2>8. ASSUME NEW b \in Reductions, UnderWay(b) PROVE UnderWay(b)'
    BY <1>1, <2>3, <2>7, <2>8 DEF UnderWay, StoreShape, Active
  <2>9. Accounted'
    BY <2>5, <2>8 DEF OInv, Accounted, Reductions
  <2>10. Asked'
    BY <1>1, <2>3, <2>7 DEF OInv, Asked, Statuses
  <2>11. a \in Reductions => index.action = a
    BY <1>1 DEF OInv, AtHand, Free, a
  <2>12. a \in Liquidations => index.action = a \/ NoneUnfinished
    BY <1>1 DEF OInv, AtHand, Free, a
  <2>13. NotAskedAgain'
    <3> SUFFICES ASSUME NEW b \in Liquidations, index.action \in Reductions, Active',
                        checkpoint'[b].status # "none"
                 PROVE  directive # b
      BY <1>1, <2>7 DEF NotAskedAgain, Reductions
    <3>1. b \in Actions /\ index.action \in Actions /\ index.action \notin Liquidations
      BY RiskActionsAssumption DEF Reductions
    <3>2. checkpoint[b].status # "none"
      BY <1>1, <2>3, <3>1
    <3>3. Unfinished(index.action)
      <4>1. Unfinished(index.action)'
        BY <1>1 DEF Active, Unfinished
      <4> QED BY <1>1, <2>5, <4>1 DEF Unfinished
    <3>4. Active
      BY <3>1, <3>3, RiskActionsAssumption DEF Active, Unfinished
    <3> QED BY <3>2, <3>4 DEF OInv, NotAskedAgain
  <2>14. AtHand'
    BY <1>1, <2>3, <2>4, <2>6, <2>11, <2>12 DEF AtHand, Free, Exiting, Reductions, a
  <2> QED BY <2>9, <2>10, <2>13, <2>14 DEF OInv
<1> QED BY <1>2, <1>3 DEF Freeze

LEMMA WriteIndexO ==
    ASSUME NInv, BInv, OInv, WriteIndex
    PROVE  OInv'
<1>1. /\ pc = "write_index" /\ tick.plan \in Actions
      /\ UNCHANGED <<checkpoint, directive, transition, issued, tick>>
      /\ index' = [action |-> tick.plan, copy |-> checkpoint[tick.plan]] /\ pc' = "supersede"
      /\ checkpoint[tick.plan].status = "active" /\ ~Carried
  BY DEF WriteIndex, At, Goto, breaker, NInv, IInv, PlanOK, Free, IndexKept
<1>2. ~Carried' /\ Active'
  BY <1>1, RiskActionsAssumption DEF Carried, Active
<1>3. (\A a \in Reductions : Unfinished(a)' <=> Unfinished(a)) /\ NoneUnfinished' = NoneUnfinished
  BY <1>1 DEF Unfinished, NoneUnfinished, Reductions
<1>4. index.action = tick.plan \/ NoneUnfinished
  BY <1>1 DEF OInv, AtHand, Free, Reductions
<1>5. Accounted'
  <2>1. ASSUME NEW a \in Reductions, Unfinished(a) PROVE UnderWay(a)'
    <3>1. UnderWay(a) /\ index.action = tick.plan
      BY <1>4, <2>1 DEF OInv, Accounted, NoneUnfinished
    <3> QED BY <1>1, <1>2, <3>1 DEF UnderWay
  <2> QED BY <1>3, <2>1 DEF Accounted, Reductions
<1>6. Asked'
  BY <1>1, <1>2 DEF OInv, Asked
<1>7. NotAskedAgain'
  <2>1. tick.plan \in Reductions => index.action = tick.plan
    BY <1>1 DEF OInv, AtHand, Free
  <2>2. tick.plan \in Reductions => Active
    BY <1>1, <2>1, RiskActionsAssumption DEF Active
  <2> QED BY <1>1, <1>2, <2>1, <2>2 DEF OInv, NotAskedAgain, Reductions
<1>8. AtHand'
  BY <1>1 DEF AtHand, Free, Exiting, Reductions
<1> QED BY <1>5, <1>6, <1>7, <1>8 DEF OInv

LEMMA SupersedeO ==
    ASSUME NInv, BInv, OInv, Supersede
    PROVE  OInv'
<1> DEFINE plan == tick.plan
<1>1. /\ pc = "supersede" /\ plan \in Actions /\ ~Carried /\ pc' = "exits"
      /\ UNCHANGED <<index, directive, transition, issued, tick>> /\ StoreShape
      /\ checkpoint' = [a \in Actions |->
           IF a = At(plan).supersedes /\ checkpoint[a].status # "none"
             THEN [checkpoint[a] EXCEPT !.status = "completed"] ELSE checkpoint[a]]
  BY DEF Supersede, breaker, NInv, IndexKept, IInv, PlanOK, Free
<1>2. ASSUME NEW a \in Actions
      PROVE  /\ checkpoint'[a].supersedes = checkpoint[a].supersedes
             /\ checkpoint'[a].status \in {checkpoint[a].status, "completed"}
             /\ checkpoint[a].status = "none" <=> checkpoint'[a].status = "none"
             /\ a = checkpoint[plan].supersedes => checkpoint'[a].status \in {"none", "completed"}
             /\ a # checkpoint[plan].supersedes => checkpoint'[a] = checkpoint[a]
  <2>1. CheckpointShape(checkpoint[a])
    BY <1>1 DEF StoreShape
  <2>2. checkpoint'[a] = IF a = checkpoint[plan].supersedes /\ checkpoint[a].status # "none"
             THEN [checkpoint[a] EXCEPT !.status = "completed"] ELSE checkpoint[a]
    BY <1>1 DEF At
  <2> HIDE DEF plan
  <2>3. CASE a = checkpoint[plan].supersedes /\ checkpoint[a].status # "none"
    BY <2>1, <2>2, <2>3 DEF CheckpointShape
  <2>4. CASE ~(a = checkpoint[plan].supersedes /\ checkpoint[a].status # "none")
    BY <2>2, <2>4
  <2> QED BY <2>3, <2>4
<1> HIDE DEF plan
<1>3. ~Carried' /\ (Active' => Active)
  BY <1>1, <1>2 DEF Carried, Active, StoreShape
<1>4. ASSUME NEW a \in Reductions, Unfinished(a)'
      PROVE  Unfinished(a) /\ a # checkpoint[plan].supersedes /\ index.action = a
             /\ plan \in Reductions
  <2>1. a \in Actions
    BY DEF Reductions
  <2>2. Unfinished(a) /\ a # checkpoint[plan].supersedes
    BY <1>2, <1>4, <2>1 DEF Unfinished
  <2>3. UnderWay(a)
    BY <2>2 DEF OInv, Accounted
  <2>4. index.action = plan
    BY <1>1, <2>2 DEF OInv, AtHand, NoneUnfinished, Free, Reductions, plan
  <2>5. index.action = a
    BY <1>1, <2>2, <2>3, <2>4 DEF UnderWay
  <2> QED BY <2>2, <2>4, <2>5
<1>5. Accounted'
  BY <1>1, <1>4 DEF Accounted, UnderWay, Reductions
<1>6. Asked'
  BY <1>1, <1>2, <1>3 DEF OInv, Asked, Statuses
<1>7. NotAskedAgain'
  BY <1>1, <1>2, <1>3, RiskActionsAssumption DEF OInv, NotAskedAgain, Reductions
<1>8. AtHand'
  <2>1. checkpoint'[plan].status # "none"
    BY <1>1, <1>2 DEF OInv, AtHand, Free, plan
  <2>2. plan \in Reductions => index.action = plan
    BY <1>1 DEF OInv, AtHand, Free, plan
  <2>3. plan \in Liquidations => NoneUnfinished'
    BY <1>4 DEF NoneUnfinished, Reductions
  <2>4. tick'.plan = plan
    BY <1>1 DEF plan
  <2> QED BY <1>1, <2>1, <2>2, <2>3, <2>4 DEF AtHand, Free, Exiting, Reductions
<1> QED BY <1>5, <1>6, <1>7, <1>8 DEF OInv

LEMMA CompleteO ==
    ASSUME NInv, BInv, OInv, Complete
    PROVE  OInv'
<1> DEFINE plan == tick.plan
<1>1. /\ pc = "exits" /\ plan \in Actions /\ ~Carried
      /\ UNCHANGED <<index, directive, transition, issued>> /\ StoreShape
      /\ checkpoint[plan].status # "none"
  BY DEF Complete, breaker, NInv, IndexKept, IInv, PlanOK, Free, OInv, AtHand
<1>2. CASE EndRisk(TRUE, tick.performed) /\ UNCHANGED checkpoint
  BY <1>1, <1>2, Between DEF EndRisk, Free
<1>3. CASE checkpoint' = [checkpoint EXCEPT ![plan].status = "completed"] /\ Goto("clear")
  <2>1. /\ checkpoint'[plan].status = "completed"
        /\ \A a \in Actions \ {plan} : checkpoint'[a] = checkpoint[a]
    BY <1>1, <1>3 DEF StoreShape, CheckpointShape
  <2>2. pc' = "clear" /\ tick' = tick
    BY <1>3 DEF Goto
  <2> HIDE DEF plan
  <2>3. ~Carried' /\ (Active' => Active)
    BY <1>1, <2>1 DEF Carried, Active, StoreShape
  <2>4. NoneUnfinished'
    <3>1. ASSUME NEW a \in Reductions, Unfinished(a)' PROVE FALSE
      <4>1. a \in Actions /\ a # plan /\ Unfinished(a)
        BY <1>1, <2>1, <3>1 DEF Unfinished, Reductions
      <4>2. UnderWay(a)
        BY <4>1 DEF OInv, Accounted
      <4>3. plan \in Reductions /\ index.action = plan
        BY <1>1, <4>1 DEF OInv, AtHand, NoneUnfinished, Free, Exiting, Reductions, plan
      <4>4. checkpoint[plan].supersedes = NoAction
        BY <4>3 DEF BInv, Frozenness
      <4> QED BY <1>1, <4>1, <4>2, <4>3, <4>4, RiskActionsAssumption DEF UnderWay
    <3> QED BY <3>1 DEF NoneUnfinished, Reductions
  <2>5. Accounted'
    BY <2>4 DEF Accounted, NoneUnfinished
  <2>6. Asked'
    BY <1>1, <2>1, <2>3 DEF OInv, Asked, Statuses
  <2>7. NotAskedAgain'
    BY <1>1, <2>1, <2>3, RiskActionsAssumption DEF OInv, NotAskedAgain, Reductions
  <2>8. AtHand'
    <3>1. plan \in Reductions => index.action = plan
      BY <1>1 DEF OInv, AtHand, Free, plan
    <3>2. tick'.plan = plan
      BY <2>2 DEF plan
    <3> QED BY <1>1, <2>1, <2>2, <2>4, <3>1, <3>2 DEF AtHand, Free, Exiting, Reductions
  <2> QED BY <2>5, <2>6, <2>7, <2>8 DEF OInv
<1> QED BY <1>2, <1>3 DEF Complete

LEMMA ClearO ==
    ASSUME NInv, BInv, OInv, ClearIndex
    PROVE  OInv'
<1>1. /\ pc = "clear" /\ pc' = "after" /\ ~Carried /\ index' \in {NoIndex, index}
      /\ UNCHANGED <<checkpoint, directive, transition, issued>>
  BY DEF ClearIndex, EndRisk, breaker, NInv, IndexKept
<1>2. CASE index' = index
  BY <1>1, <1>2, Between DEF Free
<1>3. CASE index' = NoIndex
  <2>1. ~Carried' /\ ~Active'
    BY <1>3 DEF Carried, Active, NoIndex
  <2>2. NoneUnfinished'
    BY <1>1 DEF OInv, AtHand, NoneUnfinished, Unfinished, Reductions
  <2>3. Accounted'
    BY <2>2 DEF Accounted, NoneUnfinished
  <2>4. Asked' /\ NotAskedAgain'
    BY <1>1, <2>1 DEF OInv, Asked, NotAskedAgain
  <2>5. AtHand'
    BY <1>1 DEF AtHand, Free, Exiting
  <2> QED BY <2>3, <2>4, <2>5 DEF OInv
<1> QED BY <1>1, <1>2, <1>3

LEMMA NextO ==
    ASSUME OneLiquidation
    PROVE  NInv /\ BInv /\ OInv /\ [Next]_vars => OInv'
<1> SUFFICES ASSUME NInv, BInv, OInv, [Next]_vars PROVE OInv' OBVIOUS
<1>1. CASE \/ \E o \in Orders : VenueTrades(o) \/ VenueEnds(o) \/ Enter(o)
           \/ \E s \in Symbols : Protect(s)
           \/ (\E due \in BOOLEAN : StartTick(due)) \/ Aside \/ EndTick \/ Crash \/ UNCHANGED vars
           \/ \E o \in Orders : CancelOne(o)
           \/ Cancelled \/ OwnSync \/ Decide \/ SubmitExit \/ Send \/ Answer \/ ExitSync
           \/ \E s \in Symbols : ExitStart(s)
  BY <1>1, BetweenSteps
<1>2. CASE BreakerMoves
  BY <1>2, BreakerO
<1>3. CASE RestoreCarried \/ TakeUp \/ BeginAction \/ WriteKey \/ Begin
  BY <1>3, RestoreO, TakeUpO, BeginActionO, WriteKeyO, BeginO
<1>4. CASE Freeze \/ WriteIndex \/ Supersede \/ Complete \/ ClearIndex
  BY <1>4, FreezeO, WriteIndexO, SupersedeO, CompleteO, ClearO
<1> QED BY <1>1, <1>2, <1>3, <1>4 DEF Next, Step, Aside

(* Where only one liquidation can be asked for, a reduction that has        *)
(* targets is never left behind (risk_actions.py:136-156, 207-212): it goes *)
(* on, or what takes its place ends it.                                     *)
THEOREM NoneIsOrphaned == OneLiquidation => (Spec => []NoneOrphaned)
<1> SUFFICES ASSUME OneLiquidation PROVE Spec => []NoneOrphaned
  OBVIOUS
<1>1. NInv /\ BInv /\ OInv /\ [Next]_vars => OInv'
  BY NextO
<1>2. OInv /\ NInv /\ BInv /\ [Next]_vars => BInv'
  BY NextB, AccountedFor
<1> QED BY InitN, NextN, InitB, InitO, <1>1, <1>2, AccountedFor, PTL DEF Spec

(* And then it sells no more than it may, whatever is asked of it and       *)
(* whatever fails.                                                          *)
THEOREM OneLiquidationBounded == OneLiquidation => (Spec => []ReductionBounded)
<1> SUFFICES ASSUME OneLiquidation PROVE Spec => []ReductionBounded
  OBVIOUS
<1> QED BY NoneIsOrphaned, ReductionsStayBounded, PTL
=============================================================================
