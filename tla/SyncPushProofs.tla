--------------------------- MODULE SyncPushProofs ---------------------------
(***************************************************************************)
(* Theorems about the push, for any operations, batches, handlers, faults  *)
(* and changes of permission:                                              *)
(*                                                                         *)
(*   TypeCorrect          Spec => []TypeOK                                 *)
(*   InTheBooksOnce       Spec => []CreatesOnce                            *)
(*   RecordsAreTrue       Spec => []RecordIsTrue                           *)
(*   NothingIsLost        OneAtATime: Spec => []SettledIsDecided           *)
(*   PushKeepsItsPromise  OneAtATime: Spec => DecidedOnce                  *)
(*                                                                         *)
(* The argument.  The books (BInv): a row is there exactly when the one    *)
(* operation that creates it took effect, and rows never go; so a handler  *)
(* that finds the row may record 'applied'.  One handler at a time (DInv): *)
(* past the claim it owns it, an operation without a decision has had no   *)
(* effect, and what was answered for good is decided.  Each step is then   *)
(* of one of five kinds, and each kind keeps DInv and maps to a step of    *)
(* the promise or to none.                                                 *)
(***************************************************************************)
EXTENDS SyncPush, NumberFacts

Labels == {"claim", "lookup", "authorize", "read", "write", "failed"}
Results == Statuses \cup {"duplicate", "retryable"}

\* What the device waits for is of operations it holds and is not backing off
\* from, so an answer never touches another one.
AnswersHeld ==
  /\ \A h \in Handlers : pc[h] = "free" => \A q \in Ops : answer[h][q] = "none"
  /\ \A h \in Handlers : awaiting = h =>
       \A q \in Ops : q \in todo[h] \/ answer[h][q] # "none" => q \in outbox \ backoff

TInv == TypeOK /\ AnswersHeld

-----------------------------------------------------------------------------
(* What a handler's steps do to its own variables.                         *)

\* Operations are numbered in the order they are queued.
LEMMA OpsAreNumbers == Ops \subseteq Nat /\ \A n \in 0 .. N : 1 .. n \subseteq Ops
<1>1. N \in Nat
  BY PushAssumption
<1> QED BY <1>1 DEF Ops

\* A working handler has a current operation.
LEMMA CurrentInBatch ==
  ASSUME HandlerTypeOK, NEW h \in Handlers, pc[h] \in Labels
  PROVE  Current(h) \in todo[h] /\ Current(h) \in Ops
<1>1. todo[h] \subseteq Ops /\ todo[h] # {} /\ todo[h] \in SUBSET Nat
  BY OpsAreNumbers DEF HandlerTypeOK, Labels
<1>2. \E q \in todo[h] : \A r \in todo[h] : q <= r
  BY <1>1, LeastExists
<1> QED BY <1>1, <1>2 DEF Current

LEMMA AnswerTyped ==
  ASSUME HandlerTypeOK, NEW h \in Handlers, pc[h] \in Labels, NEW s \in Results, Answer(h, s)
  PROVE  HandlerTypeOK' /\ \A g \in Handlers : pc[g] # "free" <=> pc'[g] # "free"
<1> DEFINE q == Current(h)
<1>1. q \in todo[h] /\ q \in Ops
  BY CurrentInBatch
<1>2. /\ pc' = [pc EXCEPT ![h] = IF todo[h] = {q} THEN "respond" ELSE "claim"]
      /\ todo' = [todo EXCEPT ![h] = todo[h] \ {q}]
      /\ answer' = [answer EXCEPT ![h][q] = s]
      /\ seen' = [seen EXCEPT ![h] = Absent] /\ grants' = grants
  BY DEF Answer
<1> HIDE DEF q
<1>3. \A g \in Handlers : todo'[g] = {} <=> pc'[g] \in {"free", "respond"}
  BY <1>1, <1>2 DEF HandlerTypeOK
<1>4. answer' \in [Handlers -> [Ops -> Statuses \cup {"none", "duplicate", "retryable"}]]
  BY <1>1, <1>2 DEF HandlerTypeOK, Results
<1>5. pc' \in [Handlers -> {"free", "claim", "lookup", "authorize", "read", "write", "failed", "respond"}]
  BY <1>1, <1>2 DEF HandlerTypeOK
<1>6. todo' \in [Handlers -> SUBSET Ops] /\ grants' \in [Handlers -> BOOLEAN]
      /\ seen' \in [Handlers -> Nat]
  BY <1>1, <1>2 DEF HandlerTypeOK, Absent
<1>7. \A g \in Handlers : pc[g] # "free" <=> pc'[g] # "free"
  BY <1>2 DEF HandlerTypeOK, Labels
<1> QED BY <1>3, <1>4, <1>5, <1>6, <1>7 DEF HandlerTypeOK

LEMMA GoToTyped ==
  ASSUME HandlerTypeOK, NEW h \in Handlers, pc[h] \in Labels, NEW l \in Labels, GoTo(h, l)
  PROVE  HandlerTypeOK' /\ \A g \in Handlers : pc[g] # "free" <=> pc'[g] # "free"
BY DEF HandlerTypeOK, Labels, GoTo

LEMMA EndTyped ==
  ASSUME HandlerTypeOK, NEW h \in Handlers, End(h)
  PROVE  HandlerTypeOK' /\ \A g \in Handlers \ {h} : pc'[g] = pc[g]
<1>1. [q \in Ops |-> "none"] \in [Ops -> Statuses \cup {"none", "duplicate", "retryable"}]
  OBVIOUS
<1> QED BY <1>1 DEF HandlerTypeOK, End, Absent

\* The outcome of an operation, with its answer.
LEMMA RecordTyped ==
  ASSUME TypeOK, NEW h \in Handlers, pc[h] \in Labels, NEW s \in Statuses, RecordOutcome(h, s)
  PROVE  /\ HandlerTypeOK' /\ DeviceTypeOK'
         /\ processed' \in [Ops -> Statuses \cup {"none", "in_progress"}]
         /\ permitted' \in BOOLEAN /\ toggles' \in 0 .. MaxToggles /\ faults' \in 0 .. MaxFaults
<1>1. Answer(h, s) /\ s \in Results
  BY DEF RecordOutcome, Results
<1>2. Current(h) \in Ops /\ HandlerTypeOK' /\ \A g \in Handlers : pc[g] # "free" <=> pc'[g] # "free"
  BY <1>1, AnswerTyped, CurrentInBatch DEF TypeOK
<1>3. DeviceTypeOK'
  BY <1>2 DEF TypeOK, DeviceTypeOK, RecordOutcome, deviceVars
<1>4. processed' = [processed EXCEPT ![Current(h)] = s]
  BY DEF RecordOutcome
<1> QED BY <1>2, <1>3, <1>4 DEF TypeOK, ServerTypeOK, RecordOutcome, boundVars

LEMMA WrittenTyped ==
  ASSUME ServerTypeOK, NEW q \in Ops, Written(q)
  PROVE  stamp' \in [Rows -> Nat] /\ effect' \in [Ops -> Nat]
<1>1. q + 1 \in Nat
  BY OpsAreNumbers
<1>2. stamp \in [Rows -> Nat] /\ effect \in [Ops -> Nat]
  BY DEF ServerTypeOK
<1>3. stamp' \in [Rows -> Nat]
  BY <1>1, <1>2 DEF Written
<1>4. effect[q] + 1 \in Nat /\ effect' = [effect EXCEPT ![q] = effect[q] + 1]
  BY <1>2 DEF Written
<1>5. effect' \in [Ops -> Nat]
  BY <1>2, <1>4
<1> QED BY <1>3, <1>5

LEMMA UnwrittenTyped ==
  ASSUME ServerTypeOK, UNCHANGED <<stamp, effect>>
  PROVE  stamp' \in [Rows -> Nat] /\ effect' \in [Ops -> Nat]
BY DEF ServerTypeOK

LEMMA BatchTyped ==
  ASSUME DeviceTypeOK
  PROVE  NextBatch \subseteq outbox /\ NextBatch \subseteq Ops /\ NextBatch \subseteq 1 .. queued
<1>1. NextBatch \subseteq outbox
  BY DEF NextBatch, Pending, FirstOf
<1>2. outbox \subseteq 1 .. queued /\ 1 .. queued \subseteq Ops
  BY OpsAreNumbers DEF DeviceTypeOK
<1> QED BY <1>1, <1>2

-----------------------------------------------------------------------------
(* Type correctness.                                                       *)

LEMMA InitTyped == Init => TypeOK
<1> SUFFICES ASSUME Init PROVE TypeOK
  OBVIOUS
<1>1. DeviceTypeOK
  BY PushAssumption DEF Init, DeviceTypeOK
<1>2. ServerTypeOK
  BY PushAssumption DEF Init, ServerTypeOK, Absent
<1>3. HandlerTypeOK
  BY DEF Init, HandlerTypeOK, Absent
<1> QED BY <1>1, <1>2, <1>3 DEF TypeOK

\* The steps of a handler at work on an operation.
LEMMA WorkTyped ==
  ASSUME TypeOK, NEW h \in Handlers,
         \/ ClaimInsert(h) \/ ClaimLookup(h) \/ Authorize(h) \/ RejectUnauthorized(h)
         \/ ApplyRead(h) \/ ApplyCreate(h) \/ ApplyEdit(h) \/ ApplyReject(h) \/ ApplyFail(h)
         \/ ReleaseClaim(h)
  PROVE  TypeOK'
<1> DEFINE q == Current(h)
<1>1. pc[h] \in Labels
  BY DEF ClaimInsert, ClaimLookup, Authorize, RejectUnauthorized, ApplyRead, ApplyCreate,
         ApplyEdit, ApplyReject, ApplyFail, ReleaseClaim, Labels
<1>2. q \in Ops /\ Entity[q] \in Rows
  BY <1>1, CurrentInBatch DEF TypeOK, Rows
<1>a. ASSUME HandlerTypeOK', \A g \in Handlers : pc[g] # "free" <=> pc'[g] # "free",
             UNCHANGED deviceVars
      PROVE  DeviceTypeOK'
  BY <1>a DEF TypeOK, DeviceTypeOK, deviceVars
<1>3. CASE ClaimInsert(h)
  <2>1. \E l \in Labels : GoTo(h, l)
    BY <1>3 DEF ClaimInsert, Labels
  <2>2. HandlerTypeOK' /\ DeviceTypeOK'
    BY <1>1, <1>a, <2>1, <1>3, GoToTyped DEF TypeOK, ClaimInsert
  <2>3. ServerTypeOK'
    BY <1>2, <1>3 DEF TypeOK, ServerTypeOK, ClaimInsert, boundVars
  <2> QED BY <2>2, <2>3 DEF TypeOK
<1>4. CASE ClaimLookup(h)
  <2>1. GoTo(h, "authorize") \/ Answer(h, "duplicate")
    BY <1>4 DEF ClaimLookup
  <2>2. HandlerTypeOK' /\ DeviceTypeOK'
    BY <1>1, <1>a, <2>1, <1>4, GoToTyped, AnswerTyped DEF TypeOK, ClaimLookup, Labels, Results
  <2>3. ServerTypeOK'
    BY <1>4 DEF TypeOK, ServerTypeOK, ClaimLookup, boundVars, serverVars
  <2> QED BY <2>2, <2>3 DEF TypeOK
<1>5. CASE Authorize(h)
  <2>1. GoTo(h, "read")
    BY <1>5 DEF Authorize
  <2>2. HandlerTypeOK' /\ DeviceTypeOK'
    BY <1>1, <1>a, <2>1, <1>5, GoToTyped DEF TypeOK, Authorize, Labels
  <2>3. ServerTypeOK'
    BY <1>5 DEF TypeOK, ServerTypeOK, Authorize, boundVars, serverVars
  <2> QED BY <2>2, <2>3 DEF TypeOK
<1>6. CASE RejectUnauthorized(h)
  <2>1. Answer(h, "rejected") /\ "rejected" \in Results
    BY <1>6 DEF RejectUnauthorized, Results, Statuses
  <2>2. HandlerTypeOK' /\ DeviceTypeOK'
    BY <1>1, <1>a, <2>1, <1>6, AnswerTyped DEF TypeOK, RejectUnauthorized
  <2>3. ServerTypeOK'
    BY <1>2, <1>6 DEF TypeOK, ServerTypeOK, RejectUnauthorized, boundVars, Statuses
  <2> QED BY <2>2, <2>3 DEF TypeOK
<1>7. CASE ApplyRead(h)
  <2>1. stamp[Entity[q]] \in Nat
    BY <1>2 DEF TypeOK, ServerTypeOK
  <2>2. HandlerTypeOK' /\ \A g \in Handlers : pc[g] # "free" <=> pc'[g] # "free"
    BY <2>1, <1>7 DEF TypeOK, HandlerTypeOK, ApplyRead
  <2>3. DeviceTypeOK'
    BY <2>2, <1>a, <1>7 DEF ApplyRead
  <2>4. ServerTypeOK'
    BY <1>7 DEF TypeOK, ServerTypeOK, ApplyRead, boundVars, serverVars
  <2> QED BY <2>2, <2>3, <2>4 DEF TypeOK
<1>8. CASE ApplyCreate(h)
  <2>1. RecordOutcome(h, "applied") /\ "applied" \in Statuses
    BY <1>8 DEF ApplyCreate, Statuses
  <2>2. stamp' \in [Rows -> Nat] /\ effect' \in [Ops -> Nat]
    BY <1>2, <1>8, WrittenTyped, UnwrittenTyped DEF TypeOK, ApplyCreate
  <2>3. conflicts' \subseteq Ops
    BY <1>8 DEF TypeOK, ServerTypeOK, ApplyCreate
  <2> QED BY <1>1, <2>1, <2>2, <2>3, RecordTyped DEF TypeOK, ServerTypeOK
<1>9. CASE ApplyEdit(h)
  <2>1. \E s \in Statuses : RecordOutcome(h, s)
    BY <1>9 DEF ApplyEdit, Statuses
  <2>2. stamp' \in [Rows -> Nat] /\ effect' \in [Ops -> Nat]
    BY <1>2, <1>9, WrittenTyped, UnwrittenTyped DEF TypeOK, ApplyEdit
  <2>3. conflicts' \subseteq Ops
    <3>1. conflicts' = conflicts \/ conflicts' = conflicts \cup {q}
      BY <1>9 DEF ApplyEdit
    <3> QED BY <1>2, <3>1 DEF TypeOK, ServerTypeOK
  <2> QED BY <1>1, <2>1, <2>2, <2>3, RecordTyped DEF TypeOK, ServerTypeOK
<1>10. CASE ApplyReject(h)
  <2>1. RecordOutcome(h, "rejected") /\ "rejected" \in Statuses
    BY <1>10 DEF ApplyReject, Statuses
  <2>2. UNCHANGED <<stamp, effect, conflicts>>
    BY <1>10 DEF ApplyReject
  <2> QED BY <1>1, <2>1, <2>2, RecordTyped DEF TypeOK, ServerTypeOK
<1>11. CASE ApplyFail(h)
  <2>1. GoTo(h, "failed")
    BY <1>11 DEF ApplyFail
  <2>2. HandlerTypeOK' /\ DeviceTypeOK'
    BY <1>1, <1>a, <2>1, <1>11, GoToTyped DEF TypeOK, ApplyFail, Labels
  <2>3. faults' \in 0 .. MaxFaults
    BY <1>11, PushAssumption DEF TypeOK, ServerTypeOK, ApplyFail
  <2>4. ServerTypeOK'
    BY <1>11, <2>3 DEF TypeOK, ServerTypeOK, ApplyFail, serverVars
  <2> QED BY <2>2, <2>4 DEF TypeOK
<1>12. CASE ReleaseClaim(h)
  <2>1. Answer(h, "retryable") /\ "retryable" \in Results
    BY <1>12 DEF ReleaseClaim, Results
  <2>2. HandlerTypeOK' /\ DeviceTypeOK'
    BY <1>1, <1>a, <2>1, <1>12, AnswerTyped DEF TypeOK, ReleaseClaim
  <2>3. ServerTypeOK'
    BY <1>2, <1>12 DEF TypeOK, ServerTypeOK, ReleaseClaim, boundVars
  <2> QED BY <2>2, <2>3 DEF TypeOK
<1> QED BY <1>3, <1>4, <1>5, <1>6, <1>7, <1>8, <1>9, <1>10, <1>11, <1>12

LEMMA NextTyped == TInv /\ [Next]_vars => TypeOK'
<1> SUFFICES ASSUME TInv, [Next]_vars PROVE TypeOK'
  OBVIOUS
<1> USE DEF TInv
<1>1. CASE UNCHANGED vars
  <2>1. UNCHANGED deviceVars /\ UNCHANGED serverVars /\ UNCHANGED handlerVars /\ UNCHANGED boundVars
    BY <1>1 DEF vars
  <2>2. HandlerTypeOK'
    BY <2>1 DEF TypeOK, HandlerTypeOK, handlerVars
  <2>3. ServerTypeOK'
    BY <2>1 DEF TypeOK, ServerTypeOK, serverVars, boundVars
  <2>4. DeviceTypeOK'
    BY <2>1 DEF TypeOK, DeviceTypeOK, deviceVars, handlerVars
  <2> QED BY <2>2, <2>3, <2>4 DEF TypeOK
<1>2. CASE Enqueue
  <2>1. queued' \in 0 .. N /\ outbox' \subseteq 1 .. queued'
    BY <1>2, PushAssumption DEF Enqueue, TypeOK, DeviceTypeOK
  <2>2. DeviceTypeOK'
    BY <1>2, <2>1 DEF Enqueue, TypeOK, DeviceTypeOK, handlerVars
  <2>3. ServerTypeOK' /\ HandlerTypeOK'
    BY <1>2 DEF Enqueue, TypeOK, ServerTypeOK, HandlerTypeOK, serverVars, handlerVars, boundVars
  <2> QED BY <2>2, <2>3 DEF TypeOK
<1>3. CASE GiveUp
  <2>1. DeviceTypeOK' /\ HandlerTypeOK'
    BY <1>3 DEF GiveUp, TypeOK, DeviceTypeOK, HandlerTypeOK, handlerVars
  <2>2. ServerTypeOK'
    BY <1>3, PushAssumption DEF GiveUp, TypeOK, ServerTypeOK, serverVars
  <2> QED BY <2>1, <2>2 DEF TypeOK
<1>4. CASE ChangePermission
  <2>1. DeviceTypeOK' /\ HandlerTypeOK'
    BY <1>4 DEF ChangePermission, TypeOK, DeviceTypeOK, HandlerTypeOK, handlerVars, deviceVars
  <2>2. ServerTypeOK'
    BY <1>4, PushAssumption DEF ChangePermission, TypeOK, ServerTypeOK, serverVars
  <2> QED BY <2>1, <2>2 DEF TypeOK
<1>5. CASE \E q \in Ops : BackoffEnds(q)
  <2>1. DeviceTypeOK' /\ HandlerTypeOK'
    BY <1>5 DEF BackoffEnds, TypeOK, DeviceTypeOK, HandlerTypeOK, handlerVars
  <2>2. ServerTypeOK'
    BY <1>5 DEF BackoffEnds, TypeOK, ServerTypeOK, serverVars, boundVars
  <2> QED BY <2>1, <2>2 DEF TypeOK
<1>6. ASSUME NEW h \in Handlers, Push(h)
      PROVE  TypeOK'
  <2>1. NextBatch \in SUBSET Ops /\ NextBatch # {}
    BY <1>6, BatchTyped DEF Push, TypeOK
  <2>2. HandlerTypeOK' /\ pc'[h] # "free"
    BY <1>6, <2>1 DEF Push, TypeOK, HandlerTypeOK, ServerTypeOK
  <2>3. DeviceTypeOK'
    BY <1>6, <2>2 DEF Push, TypeOK, DeviceTypeOK
  <2>4. ServerTypeOK'
    BY <1>6 DEF Push, TypeOK, ServerTypeOK, serverVars, boundVars
  <2> QED BY <2>2, <2>3, <2>4 DEF TypeOK
<1>7. ASSUME NEW h \in Handlers, Vanish(h), faults' \in 0 .. MaxFaults
      PROVE  TypeOK'
  <2>1. HandlerTypeOK' /\ \A g \in Handlers \ {h} : pc'[g] = pc[g]
    BY <1>7, EndTyped DEF Vanish, TypeOK
  <2>2. DeviceTypeOK'
    BY <1>7, <2>1 DEF Vanish, TypeOK, DeviceTypeOK
  <2>3. ServerTypeOK'
    BY <1>7 DEF Vanish, TypeOK, ServerTypeOK, serverVars
  <2> QED BY <2>1, <2>2, <2>3 DEF TypeOK
<1>8. ASSUME NEW h \in Handlers, Crash(h)
      PROVE  TypeOK'
  <2>1. faults' \in 0 .. MaxFaults
    BY <1>8, PushAssumption DEF Crash, TypeOK, ServerTypeOK
  <2> QED BY <1>7, <1>8, <2>1 DEF Crash
<1>9. ASSUME NEW h \in Handlers, RecordThrows(h)
      PROVE  TypeOK'
  BY <1>7, <1>9 DEF RecordThrows, TypeOK, ServerTypeOK
<1>10. ASSUME NEW h \in Handlers, Respond(h)
       PROVE  TypeOK'
  <2>1. HandlerTypeOK'
    BY <1>10, EndTyped DEF Respond, TypeOK
  <2>2. backoff' \subseteq outbox'
    <3>1. SUFFICES ASSUME NEW q \in backoff' PROVE q \in outbox'
      OBVIOUS
    <3>2. h = awaiting /\ answer[h] \in [Ops -> Statuses \cup {"none", "duplicate", "retryable"}]
      BY <1>10 DEF Respond, TypeOK, HandlerTypeOK
    <3>3. CASE q \in AnsweredWith(h, {"retryable"})
      <4>1. q \in outbox /\ answer[h][q] = "retryable"
        BY <3>2, <3>3 DEF AnswersHeld, AnsweredWith
      <4> QED BY <1>10, <4>1 DEF Respond, AnsweredWith, Acknowledged
    <3>4. CASE q \in backoff
      <4>1. q \in outbox /\ ~ (q \in Ops /\ answer[h][q] # "none")
        BY <3>2, <3>4 DEF AnswersHeld, TypeOK, DeviceTypeOK
      <4> QED BY <1>10, <4>1 DEF Respond, AnsweredWith, Acknowledged
    <3> QED BY <1>10, <3>1, <3>3, <3>4 DEF Respond
  <2>3. queued' = queued /\ outbox' \subseteq outbox /\ awaiting' = NoHandler
    BY <1>10 DEF Respond
  <2>4. DeviceTypeOK'
    BY <2>2, <2>3 DEF TypeOK, DeviceTypeOK
  <2>5. ServerTypeOK'
    BY <1>10 DEF Respond, TypeOK, ServerTypeOK, serverVars, boundVars
  <2> QED BY <2>1, <2>4, <2>5 DEF TypeOK
<1>11. ASSUME NEW h \in Handlers, RespondToNobody(h)
       PROVE  TypeOK'
  <2>1. HandlerTypeOK' /\ \A g \in Handlers \ {h} : pc'[g] = pc[g]
    BY <1>11, EndTyped DEF RespondToNobody, TypeOK
  <2>2. DeviceTypeOK'
    BY <1>11, <2>1 DEF RespondToNobody, TypeOK, DeviceTypeOK, deviceVars
  <2>3. ServerTypeOK'
    BY <1>11 DEF RespondToNobody, TypeOK, ServerTypeOK, serverVars, boundVars
  <2> QED BY <2>1, <2>2, <2>3 DEF TypeOK
<1> QED
  BY <1>1, <1>2, <1>3, <1>4, <1>5, <1>6, <1>8, <1>9, <1>10, <1>11, WorkTyped DEF Next, HandlerStep

-----------------------------------------------------------------------------
(* The answers.                                                            *)

LEMMA AnswerHeld ==
  ASSUME TInv, NEW h \in Handlers, pc[h] \in Labels, NEW s \in Results, Answer(h, s),
         UNCHANGED deviceVars
  PROVE  AnswersHeld'
<1> DEFINE q == Current(h)
<1>1. q \in todo[h] /\ q \in Ops
  BY CurrentInBatch DEF TInv, TypeOK
<1>2. /\ pc' = [pc EXCEPT ![h] = IF todo[h] = {q} THEN "respond" ELSE "claim"]
      /\ todo' = [todo EXCEPT ![h] = todo[h] \ {q}]
      /\ answer' = [answer EXCEPT ![h][q] = s]
  BY DEF Answer
<1> HIDE DEF q
<1>3. \A g \in Handlers : pc'[g] = "free" => pc[g] = "free" /\ g # h
  BY <1>2 DEF TInv, TypeOK, HandlerTypeOK
<1>4. \A g \in Handlers : g # h => answer'[g] = answer[g] /\ todo'[g] = todo[g]
  BY <1>2 DEF TInv, TypeOK, HandlerTypeOK
<1>5. todo'[h] \subseteq todo[h] /\ \A r \in Ops : r # q => answer'[h][r] = answer[h][r]
  BY <1>1, <1>2 DEF TInv, TypeOK, HandlerTypeOK
<1>6. awaiting' = awaiting /\ outbox' = outbox /\ backoff' = backoff
  BY DEF deviceVars
<1> QED BY <1>1, <1>3, <1>4, <1>5, <1>6 DEF TInv, AnswersHeld

LEMMA NextAnswersHeld == TInv /\ [Next]_vars => AnswersHeld'
<1> SUFFICES ASSUME TInv, [Next]_vars PROVE AnswersHeld'
  OBVIOUS
<1> USE DEF TInv
<1>0. \A h \in Handlers : NoHandler # h
  BY PushAssumption
<1>1. CASE UNCHANGED vars
  BY <1>1 DEF vars, deviceVars, handlerVars, AnswersHeld
<1>2. CASE Enqueue
  BY <1>2 DEF Enqueue, handlerVars, AnswersHeld, TypeOK, DeviceTypeOK
<1>3. CASE GiveUp
  BY <1>0, <1>3 DEF GiveUp, handlerVars, AnswersHeld
<1>4. CASE ChangePermission
  BY <1>4 DEF ChangePermission, handlerVars, deviceVars, AnswersHeld
<1>5. CASE \E q \in Ops : BackoffEnds(q)
  BY <1>5 DEF BackoffEnds, handlerVars, AnswersHeld
<1>6. ASSUME NEW h \in Handlers, Push(h)
      PROVE  AnswersHeld'
  <2>1. NextBatch \subseteq outbox \ backoff
    BY DEF NextBatch, Pending, FirstOf
  <2>2. todo'[h] = NextBatch /\ awaiting' = h /\ \A q \in Ops : answer'[h][q] = "none"
    BY <1>6 DEF Push, TypeOK, HandlerTypeOK, AnswersHeld
  <2>3. \A g \in Handlers : pc'[g] = "free" => pc[g] = "free"
    BY <1>6 DEF Push, TypeOK, HandlerTypeOK
  <2> QED BY <1>6, <2>1, <2>2, <2>3 DEF Push, AnswersHeld
<1>7. ASSUME NEW h \in Handlers, End(h), \A g \in Handlers : awaiting' = g => awaiting = g /\ g # h,
             (outbox' = outbox /\ backoff' = backoff) \/ awaiting' = NoHandler
      PROVE  AnswersHeld'
  <2>1. \A q \in Ops : answer'[h][q] = "none"
    BY <1>7 DEF End, TypeOK, HandlerTypeOK
  <2>2. \A g \in Handlers \ {h} : pc'[g] = pc[g] /\ answer'[g] = answer[g] /\ todo'[g] = todo[g]
    BY <1>7 DEF End, TypeOK, HandlerTypeOK
  <2> QED BY <1>0, <1>7, <2>1, <2>2 DEF AnswersHeld
<1>8. ASSUME NEW h \in Handlers, Crash(h) \/ RecordThrows(h)
      PROVE  AnswersHeld'
  BY <1>0, <1>7, <1>8 DEF Crash, RecordThrows, Vanish
<1>9. ASSUME NEW h \in Handlers, Respond(h)
      PROVE  AnswersHeld'
  BY <1>0, <1>7, <1>9 DEF Respond
<1>10. ASSUME NEW h \in Handlers, RespondToNobody(h)
       PROVE  AnswersHeld'
  BY <1>7, <1>10 DEF RespondToNobody, deviceVars
<1>11. ASSUME NEW h \in Handlers, pc[h] \in Labels, NEW s \in Results, Answer(h, s), UNCHANGED deviceVars
       PROVE  AnswersHeld'
  BY <1>11, AnswerHeld
<1>12. ASSUME NEW h \in Handlers, pc[h] \in Labels, UNCHANGED <<todo, answer>>,
              NEW l \in Labels, pc' = [pc EXCEPT ![h] = l], UNCHANGED deviceVars
       PROVE  AnswersHeld'
  BY <1>12 DEF Labels, deviceVars, AnswersHeld, TypeOK, HandlerTypeOK
<1>13. ASSUME NEW h \in Handlers, ClaimInsert(h) \/ ClaimLookup(h) \/ Authorize(h) \/ ApplyRead(h) \/ ApplyFail(h)
       PROVE  AnswersHeld'
  <2>1. pc[h] \in Labels /\ UNCHANGED deviceVars
    BY <1>13 DEF ClaimInsert, ClaimLookup, Authorize, ApplyRead, ApplyFail, Labels
  <2>2. \/ Answer(h, "duplicate")
        \/ UNCHANGED <<todo, answer>> /\ \E l \in Labels : pc' = [pc EXCEPT ![h] = l]
    BY <1>13 DEF ClaimInsert, ClaimLookup, Authorize, ApplyRead, ApplyFail, GoTo, Labels
  <2> QED BY <2>1, <2>2, <1>11, <1>12 DEF Results
<1>14. ASSUME NEW h \in Handlers,
              \/ RejectUnauthorized(h) \/ ApplyCreate(h) \/ ApplyEdit(h) \/ ApplyReject(h) \/ ReleaseClaim(h)
       PROVE  AnswersHeld'
  <2>1. pc[h] \in Labels /\ UNCHANGED deviceVars
    BY <1>14 DEF RejectUnauthorized, ApplyCreate, ApplyEdit, ApplyReject, ReleaseClaim, RecordOutcome, Labels
  <2>2. \E s \in Results : Answer(h, s)
    BY <1>14 DEF RejectUnauthorized, ApplyCreate, ApplyEdit, ApplyReject, ReleaseClaim, RecordOutcome,
                 Results, Statuses
  <2> QED BY <2>1, <2>2, <1>11
<1> QED
  BY <1>1, <1>2, <1>3, <1>4, <1>5, <1>6, <1>8, <1>9, <1>10, <1>13, <1>14 DEF Next, HandlerStep

LEMMA InitTInv == Init => TInv
BY InitTyped, PushAssumption DEF TInv, AnswersHeld, Init

LEMMA TInvHolds == Spec => []TInv
<1>1. TInv /\ [Next]_vars => TInv'
  BY NextTyped, NextAnswersHeld DEF TInv
<1> QED BY InitTInv, <1>1, PTL DEF Spec

\* The shape of the state, whatever handlers run: in particular a backoff is of
\* an operation the device still holds.
THEOREM TypeCorrect == Spec => []TypeOK
BY TInvHolds, PTL DEF TInv
-----------------------------------------------------------------------------
(* The books.                                                              *)

\* A row is there exactly when the operation that creates it took effect, and
\* rows never go.
EffectsInRows ==
  \A q \in Ops : Creates(q) => effect[q] <= 1 /\ (stamp[Entity[q]] = Absent => effect[q] = 0)

RowsAreMade ==
  \A e \in Rows \ Stocked : stamp[e] # Absent =>
    \E q \in Ops : Creates(q) /\ Entity[q] = e /\ effect[q] > 0

SeenIsThere ==
  \A h \in Handlers : pc[h] = "write" /\ seen[h] # Absent => stamp[Entity[Current(h)]] # Absent

BInv == EffectsInRows /\ RowsAreMade /\ SeenIsThere /\ RecordIsTrue

\* A step leaves the books alone, or writes one operation: the create of a row
\* that is not there, or an edit of one its handler has seen.
LEMMA BooksStep ==
  ASSUME TInv, [Next]_vars
  PROVE  \/ UNCHANGED <<stamp, effect>>
         \/ \E h \in Handlers :
              /\ pc[h] = "write" /\ Current(h) \in Ops /\ Written(Current(h))
              /\ \/ Creates(Current(h)) /\ stamp[Entity[Current(h)]] = Absent
                 \/ ~ Creates(Current(h)) /\ seen[h] # Absent
<1>1. ASSUME NEW h \in Handlers, ApplyCreate(h) \/ ApplyEdit(h)
      PROVE  \/ UNCHANGED <<stamp, effect>>
             \/ /\ pc[h] = "write" /\ Current(h) \in Ops /\ Written(Current(h))
                /\ \/ Creates(Current(h)) /\ stamp[Entity[Current(h)]] = Absent
                   \/ ~ Creates(Current(h)) /\ seen[h] # Absent
  <2>1. pc[h] = "write" /\ Current(h) \in Ops
    BY <1>1, CurrentInBatch DEF ApplyCreate, ApplyEdit, TInv, TypeOK, Labels
  <2> QED BY <1>1, <2>1 DEF ApplyCreate, ApplyEdit, Creates
<1>2. ASSUME ~ \E h \in Handlers : ApplyCreate(h) \/ ApplyEdit(h)
      PROVE  UNCHANGED <<stamp, effect>>
  BY <1>2 DEF Next, HandlerStep, Enqueue, GiveUp, ChangePermission, BackoffEnds, Push, Crash, Vanish,
       ClaimInsert, ClaimLookup, Authorize, RejectUnauthorized, RecordThrows, ApplyRead, ApplyReject,
       ApplyFail, ReleaseClaim, Respond, RespondToNobody, serverVars, vars
<1> QED BY <1>1, <1>2

\* Writing one operation raises its effect by one and makes its row.
LEMMA WrittenSets ==
  ASSUME TInv, NEW q \in Ops, Written(q)
  PROVE  /\ effect'[q] = effect[q] + 1 /\ stamp'[Entity[q]] = q + 1 /\ q + 1 # Absent
         /\ \A p \in Ops \ {q} : effect'[p] = effect[p]
         /\ \A e \in Rows \ {Entity[q]} : stamp'[e] = stamp[e]
<1>1. stamp \in [Rows -> Nat] /\ effect \in [Ops -> Nat] /\ Entity[q] \in Rows /\ q \in Nat
  BY OpsAreNumbers DEF TInv, TypeOK, ServerTypeOK, Rows
<1>2. stamp' = [stamp EXCEPT ![Entity[q]] = q + 1]
  BY DEF Written
<1>3. effect' = [effect EXCEPT ![q] = effect[q] + 1]
  BY DEF Written
<1>4. q + 1 # Absent
  BY <1>1 DEF Absent
<1> QED BY <1>1, <1>2, <1>3, <1>4

\* Rows never go and effects are never taken back.
LEMMA BooksGrow ==
  ASSUME TInv, [Next]_vars
  PROVE  /\ \A e \in Rows : stamp[e] # Absent => stamp'[e] # Absent
         /\ \A q \in Ops : effect[q] <= effect'[q]
<1>1. \A q \in Ops : effect[q] \in Nat
  BY DEF TInv, TypeOK, ServerTypeOK
<1>2. CASE UNCHANGED <<stamp, effect>>
  BY <1>1, <1>2
<1>3. ASSUME NEW q \in Ops, Written(q)
      PROVE  /\ \A e \in Rows : stamp[e] # Absent => stamp'[e] # Absent
             /\ \A p \in Ops : effect[p] <= effect'[p]
  BY <1>1, <1>3, WrittenSets
<1> QED BY <1>2, <1>3, BooksStep

LEMMA EffectsInRowsStep == TInv /\ BInv /\ [Next]_vars => EffectsInRows'
<1> SUFFICES ASSUME TInv, BInv, [Next]_vars, NEW q \in Ops, Creates(q)
             PROVE  effect'[q] <= 1 /\ (stamp'[Entity[q]] = Absent => effect'[q] = 0)
  BY DEF EffectsInRows
<1>1. effect[q] \in Nat /\ effect[q] <= 1 /\ (stamp[Entity[q]] = Absent => effect[q] = 0)
  BY DEF BInv, EffectsInRows, TInv, TypeOK, ServerTypeOK
<1>2. CASE UNCHANGED <<stamp, effect>>
  BY <1>1, <1>2
<1>3. ASSUME NEW h \in Handlers, Current(h) \in Ops, Written(Current(h)),
             \/ Creates(Current(h)) /\ stamp[Entity[Current(h)]] = Absent
             \/ ~ Creates(Current(h)) /\ seen[h] # Absent
      PROVE  effect'[q] <= 1 /\ (stamp'[Entity[q]] = Absent => effect'[q] = 0)
  <2>1. CASE q = Current(h)
    BY <1>1, <1>3, <2>1, WrittenSets
  <2>2. CASE q # Current(h)
    <3>1. effect'[q] = effect[q]
      BY <1>3, <2>2, WrittenSets
    <3>2. Entity[q] \in Rows
      BY DEF Rows
    <3> QED BY <1>1, <3>1, <3>2, BooksGrow
  <2> QED BY <2>1, <2>2
<1> QED BY <1>2, <1>3, BooksStep

LEMMA RowsAreMadeStep == TInv /\ BInv /\ [Next]_vars => RowsAreMade'
<1> SUFFICES ASSUME TInv, BInv, [Next]_vars, NEW e \in Rows \ Stocked, stamp'[e] # Absent
             PROVE  \E q \in Ops : Creates(q) /\ Entity[q] = e /\ effect'[q] > 0
  BY DEF RowsAreMade, Rows
<1>1. \A q \in Ops : effect[q] \in Nat /\ effect'[q] \in Nat
  BY NextTyped DEF TInv, TypeOK, ServerTypeOK
<1>2. CASE stamp[e] # Absent
  <2>1. PICK q \in Ops : Creates(q) /\ Entity[q] = e /\ effect[q] > 0
    BY <1>2 DEF BInv, RowsAreMade
  <2>2. effect[q] <= effect'[q]
    BY BooksGrow
  <2> QED BY <1>1, <2>1, <2>2
<1>3. CASE stamp[e] = Absent
  <2>1. PICK h \in Handlers :
          /\ pc[h] = "write" /\ Current(h) \in Ops /\ Written(Current(h))
          /\ \/ Creates(Current(h)) /\ stamp[Entity[Current(h)]] = Absent
             \/ ~ Creates(Current(h)) /\ seen[h] # Absent
    BY <1>3, BooksStep
  <2>2. Entity[Current(h)] = e /\ effect'[Current(h)] = effect[Current(h)] + 1
    BY <1>3, <2>1, WrittenSets
  <2>3. Creates(Current(h))
    BY <1>3, <2>1, <2>2 DEF BInv, SeenIsThere
  <2> QED BY <1>1, <2>1, <2>2, <2>3
<1> QED BY <1>2, <1>3

\* A handler that is about to write read its row in this step or holds what it read.
LEMMA ReadStep ==
  ASSUME TInv, [Next]_vars, NEW g \in Handlers, pc'[g] = "write"
  PROVE  /\ todo'[g] = todo[g]
         /\ \/ pc[g] = "write" /\ seen'[g] = seen[g]
            \/ seen'[g] = stamp[Entity[Current(g)]]
<1>1. CASE UNCHANGED <<pc, todo, seen>>
  BY <1>1
<1>2. ASSUME NEW h \in Handlers, ApplyRead(h)
      PROVE  /\ todo'[g] = todo[g]
             /\ \/ pc[g] = "write" /\ seen'[g] = seen[g]
                \/ seen'[g] = stamp[Entity[Current(g)]]
  BY <1>2 DEF ApplyRead, TInv, TypeOK, HandlerTypeOK
<1>3. ASSUME NEW h \in Handlers, NEW l, l # "write", pc' = [pc EXCEPT ![h] = l],
             \A f \in Handlers \ {h} : todo'[f] = todo[f] /\ seen'[f] = seen[f]
      PROVE  todo'[g] = todo[g] /\ pc[g] = "write" /\ seen'[g] = seen[g]
  BY <1>3 DEF TInv, TypeOK, HandlerTypeOK
<1>4. ASSUME NEW h \in Handlers, NEW l, l # "write", GoTo(h, l)
      PROVE  todo'[g] = todo[g] /\ pc[g] = "write" /\ seen'[g] = seen[g]
  BY <1>3, <1>4 DEF GoTo
<1>5. ASSUME NEW h \in Handlers, NEW s, Answer(h, s)
      PROVE  todo'[g] = todo[g] /\ pc[g] = "write" /\ seen'[g] = seen[g]
  <2>1. \A f \in Handlers \ {h} : todo'[f] = todo[f] /\ seen'[f] = seen[f]
    BY <1>5 DEF Answer, TInv, TypeOK, HandlerTypeOK
  <2>2. \E l \in {"respond", "claim"} : pc' = [pc EXCEPT ![h] = l]
    BY <1>5 DEF Answer
  <2> QED BY <1>3, <2>1, <2>2
<1>6. ASSUME NEW h \in Handlers, End(h)
      PROVE  todo'[g] = todo[g] /\ pc[g] = "write" /\ seen'[g] = seen[g]
  <2>1. \A f \in Handlers \ {h} : todo'[f] = todo[f] /\ seen'[f] = seen[f]
    BY <1>6 DEF End, TInv, TypeOK, HandlerTypeOK
  <2> QED BY <1>3, <1>6, <2>1 DEF End
<1>7. ASSUME NEW h \in Handlers, Push(h)
      PROVE  todo'[g] = todo[g] /\ pc[g] = "write" /\ seen'[g] = seen[g]
  BY <1>3, <1>7 DEF Push, TInv, TypeOK, HandlerTypeOK
<1>8. ASSUME NEW h \in Handlers, HandlerStep(h) \/ Crash(h)
      PROVE  ApplyRead(h) \/ End(h) \/ (\E s : Answer(h, s)) \/ \E l \in Labels \ {"write"} : GoTo(h, l)
  BY <1>8 DEF HandlerStep, Crash, Vanish, ClaimInsert, ClaimLookup, Authorize, RejectUnauthorized,
       RecordThrows, ApplyCreate, ApplyEdit, ApplyReject, ApplyFail, RecordOutcome, ReleaseClaim, Respond,
       RespondToNobody, Labels
<1>9. CASE Enqueue \/ GiveUp \/ ChangePermission \/ (\E q \in Ops : BackoffEnds(q)) \/ UNCHANGED vars
  BY <1>1, <1>9 DEF Enqueue, GiveUp, ChangePermission, BackoffEnds, handlerVars, vars
<1> QED BY <1>2, <1>4, <1>5, <1>6, <1>7, <1>8, <1>9 DEF Next

LEMMA SeenIsThereStep == TInv /\ BInv /\ [Next]_vars => SeenIsThere'
<1> SUFFICES ASSUME TInv, BInv, [Next]_vars, NEW h \in Handlers, pc'[h] = "write", seen'[h] # Absent
             PROVE  stamp'[Entity[Current(h)']] # Absent
  BY DEF SeenIsThere
<1>1. Current(h)' = Current(h) /\ pc'[h] \in Labels
  BY ReadStep DEF Current, Labels
<1>2. Current(h) \in Ops /\ Entity[Current(h)] \in Rows
  <2>1. HandlerTypeOK'
    BY NextTyped DEF TypeOK
  <2>2. todo'[h] = todo[h] /\ todo'[h] # {} /\ todo[h] \in SUBSET Ops
    BY <2>1, ReadStep DEF TInv, TypeOK, HandlerTypeOK
  <2>3. \E q \in todo[h] : \A r \in todo[h] : q <= r
    BY <2>2, OpsAreNumbers, LeastExists
  <2> QED BY <2>2, <2>3 DEF Current, Rows
<1>3. stamp[Entity[Current(h)]] # Absent
  BY ReadStep DEF BInv, SeenIsThere
<1> QED BY <1>1, <1>2, <1>3, BooksGrow

\* An outcome is recorded of an operation whose work has just committed.
LEMMA RecordStep ==
  ASSUME TInv, [Next]_vars, NEW q \in Ops
  PROVE  /\ conflicts \subseteq conflicts'
         /\ processed'[q] = "conflict" /\ processed[q] # "conflict" => q \in conflicts' \cup Bare
         /\ processed'[q] = "applied" /\ processed[q] # "applied" =>
              \E h \in Handlers : /\ pc[h] = "write" /\ q = Current(h)
                               /\ \/ Written(q)
                                  \/ Creates(q) /\ seen[h] # Absent
<1> DEFINE Goal ==
      /\ conflicts \subseteq conflicts'
      /\ processed'[q] = "conflict" /\ processed[q] # "conflict" => q \in conflicts' \cup Bare
      /\ processed'[q] = "applied" /\ processed[q] # "applied" =>
           \E h \in Handlers : /\ pc[h] = "write" /\ q = Current(h)
                            /\ \/ Written(q)
                               \/ Creates(q) /\ seen[h] # Absent
<1>0. processed \in [Ops -> Statuses \cup {"none", "in_progress"}]
  BY DEF TInv, TypeOK, ServerTypeOK
<1>1. ASSUME UNCHANGED <<processed, conflicts>> PROVE Goal
  BY <1>1
<1>2. ASSUME NEW h \in Handlers, NEW s \in {"in_progress", "none", "rejected"},
             processed' = [processed EXCEPT ![Current(h)] = s], UNCHANGED conflicts
      PROVE  Goal
  BY <1>0, <1>2
<1>3. ASSUME NEW h \in Handlers, ApplyCreate(h) PROVE Goal
  <2>1. processed' = [processed EXCEPT ![Current(h)] = "applied"] /\ UNCHANGED conflicts
    BY <1>3 DEF ApplyCreate, RecordOutcome
  <2>2. pc[h] = "write" /\ (Written(Current(h)) \/ (Creates(Current(h)) /\ seen[h] # Absent))
    BY <1>3 DEF ApplyCreate
  <2> QED BY <1>0, <2>1, <2>2
<1>4. ASSUME NEW h \in Handlers, ApplyEdit(h) PROVE Goal
  <2>1. CASE RecordOutcome(h, "applied") /\ Written(Current(h)) /\ UNCHANGED conflicts
    <3>1. processed' = [processed EXCEPT ![Current(h)] = "applied"] /\ pc[h] = "write"
      BY <1>4, <2>1 DEF ApplyEdit, RecordOutcome
    <3> QED BY <1>0, <2>1, <3>1
  <2>2. CASE /\ RecordOutcome(h, "conflict")
             /\ conflicts' = IF Current(h) \in Bare THEN conflicts ELSE conflicts \cup {Current(h)}
    <3>1. processed' = [processed EXCEPT ![Current(h)] = "conflict"]
      BY <2>2 DEF RecordOutcome
    <3> QED BY <1>0, <2>2, <3>1
  <2> QED BY <1>4, <2>1, <2>2 DEF ApplyEdit
<1>5. ASSUME NEW h \in Handlers, ApplyReject(h) \/ RejectUnauthorized(h) PROVE Goal
  <2>1. processed' = [processed EXCEPT ![Current(h)] = "rejected"] /\ UNCHANGED conflicts
    BY <1>5 DEF ApplyReject, RecordOutcome, RejectUnauthorized
  <2> QED BY <1>2, <2>1
<1>6. ASSUME NEW h \in Handlers, ClaimInsert(h) \/ ReleaseClaim(h) PROVE Goal
  <2>1. \/ UNCHANGED <<processed, conflicts>>
        \/ /\ UNCHANGED conflicts
           /\ \E s \in {"in_progress", "none"} : processed' = [processed EXCEPT ![Current(h)] = s]
        \/ /\ UNCHANGED conflicts
           /\ processed' = [processed EXCEPT ![Current(h)] = processed[Current(h)]]
    BY <1>6 DEF ClaimInsert, ReleaseClaim
  <2> QED BY <1>0, <1>1, <1>2, <2>1
<1>7. CASE ~ \E h \in Handlers : \/ ApplyCreate(h) \/ ApplyEdit(h) \/ ApplyReject(h) \/ RejectUnauthorized(h)
                                 \/ ClaimInsert(h) \/ ReleaseClaim(h)
  <2>1. UNCHANGED <<processed, conflicts>>
    BY <1>7 DEF Next, HandlerStep, Enqueue, GiveUp, ChangePermission, BackoffEnds, Push, Crash, Vanish,
         ClaimLookup, Authorize, RecordThrows, ApplyRead, ApplyFail, Respond, RespondToNobody,
         serverVars, vars
  <2> QED BY <1>1, <2>1
<1> QED BY <1>3, <1>4, <1>5, <1>6, <1>7

LEMMA RecordIsTrueStep == TInv /\ BInv /\ [Next]_vars => RecordIsTrue'
<1> SUFFICES ASSUME TInv, BInv, [Next]_vars, NEW q \in Ops
             PROVE  /\ processed'[q] = "applied" => effect'[q] > 0
                    /\ processed'[q] = "conflict" => q \in conflicts' \cup Bare
  BY DEF RecordIsTrue
<1>1. effect[q] \in Nat /\ effect'[q] \in Nat /\ effect[q] <= effect'[q]
  BY NextTyped, BooksGrow DEF TInv, TypeOK, ServerTypeOK
<1>2. processed'[q] = "conflict" => q \in conflicts' \cup Bare
  BY RecordStep DEF BInv, RecordIsTrue
<1>3. ASSUME processed'[q] = "applied", processed[q] # "applied" PROVE effect'[q] > 0
  <2>1. PICK h \in Handlers : /\ pc[h] = "write" /\ q = Current(h)
                              /\ Written(q) \/ (Creates(q) /\ seen[h] # Absent)
    BY <1>3, RecordStep
  <2>2. CASE Written(q)
    BY <1>1, <2>2, WrittenSets
  <2>3. CASE Creates(q) /\ seen[h] # Absent
    <3>1. stamp[Entity[q]] # Absent /\ Entity[q] \in Rows \ Stocked
      BY <2>1, <2>3, RowIdsAreFresh DEF BInv, SeenIsThere, Rows
    <3>2. PICK p \in Ops : Creates(p) /\ Entity[p] = Entity[q] /\ effect[p] > 0
      BY <3>1 DEF BInv, RowsAreMade
    <3>3. p = q
      BY <2>3, <3>2, RowIdsAreFresh
    <3> QED BY <1>1, <3>2, <3>3
  <2> QED BY <2>1, <2>2, <2>3
<1>4. ASSUME processed[q] = "applied" PROVE effect'[q] > 0
  BY <1>1, <1>4 DEF BInv, RecordIsTrue
<1> QED BY <1>2, <1>3, <1>4

LEMMA InitBInv == Init => BInv
<1> SUFFICES ASSUME Init PROVE BInv
  OBVIOUS
<1>1. EffectsInRows /\ RowsAreMade
  BY DEF Init, EffectsInRows, RowsAreMade
<1>2. SeenIsThere /\ RecordIsTrue
  BY DEF Init, SeenIsThere, RecordIsTrue
<1> QED BY <1>1, <1>2 DEF BInv

LEMMA BInvHolds == Spec => []BInv
<1>1. TInv /\ BInv /\ [Next]_vars => BInv'
  BY EffectsInRowsStep, RowsAreMadeStep, SeenIsThereStep, RecordIsTrueStep DEF BInv
<1> QED BY InitBInv, <1>1, TInvHolds, PTL DEF Spec

\* Each sale, payment and new product is in the books at most once, however many
\* handlers work on it, are abandoned, crash and are repeated.
THEOREM InTheBooksOnce == Spec => []CreatesOnce
<1>1. BInv => CreatesOnce
  BY DEF BInv, EffectsInRows, CreatesOnce
<1> QED BY <1>1, BInvHolds, PTL

\* The record of an operation is true of the books and of the inbox, in every
\* interleaving of handlers and at every crash; a conflict has no row of the
\* inbox only where the edit named no field.
THEOREM RecordsAreTrue == Spec => []RecordIsTrue
<1>1. BInv => RecordIsTrue
  BY DEF BInv
<1> QED BY <1>1, BInvHolds, PTL

-----------------------------------------------------------------------------
(* One handler at a time.                                                  *)

\* The handler at work owns the claim of its operation; an operation without a
\* decision has had no effect; whatever is answered for good is decided.
OneHandler == \A g, h \in Handlers : pc[g] # "free" /\ pc[h] # "free" => g = h

ClaimIsOwned ==
  \A h \in Handlers :
    /\ pc[h] \in {"authorize", "read", "write", "failed"} => processed[Current(h)] = "in_progress"
    /\ pc[h] = "lookup" => processed[Current(h)] # "none"

BatchIsQueued == \A h \in Handlers : todo[h] \subseteq 1 .. queued

AnswerIsDecided ==
  \A h \in Handlers : \A q \in Ops :
    answer[h][q] \in Statuses \cup {"duplicate"} => processed[q] \in Statuses

UndecidedIsIdle == \A q \in Ops : processed[q] \notin Statuses => effect[q] = 0

DecidedIsQueued == \A q \in Ops : processed[q] # "none" => q <= queued

DInv ==
  /\ OneHandler /\ ClaimIsOwned /\ BatchIsQueued /\ AnswerIsDecided
  /\ UndecidedIsIdle /\ DecidedIsQueued /\ SettledIsDecided

\* The kinds of steps, as far as the promise is concerned.

\* A handler moves on to its next statement, perhaps with a new claim.
Moves(h, l, v) ==
  /\ pc[h] \in Labels /\ l \in Labels \ {"claim"}
  /\ pc' = [pc EXCEPT ![h] = l]
  /\ processed' = [processed EXCEPT ![Current(h)] = v]
  /\ v = processed[Current(h)] \/ (processed[Current(h)] = "none" /\ v = "in_progress")
  /\ IF l = "lookup" THEN v # "none" ELSE v = "in_progress"
  /\ UNCHANGED <<todo, answer, effect, queued, outbox>>

\* It decides its operation, finds it decided, or leaves it to be retried.
Verdict(h, v) ==
  /\ processed[Current(h)] = "in_progress" /\ v \in Statuses
  /\ \E n \in {0, 1} : /\ effect' = [effect EXCEPT ![Current(h)] = n]
                       /\ v = "applied" => n = 1
                       /\ v = "rejected" => n = 0

Answers(h, s, v) ==
  /\ pc[h] \in Labels /\ s \in Results /\ Answer(h, s)
  /\ processed' = [processed EXCEPT ![Current(h)] = v]
  /\ \/ Verdict(h, v)
     \/ v = processed[Current(h)] /\ v \in Statuses /\ UNCHANGED effect
     \/ v = "none" /\ processed[Current(h)] = "in_progress" /\ s = "retryable" /\ UNCHANGED effect
  /\ UNCHANGED <<queued, outbox>>

\* It is gone; the device may have settled what it answered.
Ends(h) ==
  /\ pc[h] # "free" /\ End(h)
  /\ \E settled \in SUBSET Ops :
       /\ \A q \in settled : answer[h][q] \in Statuses \cup {"duplicate"}
       /\ outbox' = outbox \ settled
  /\ UNCHANGED <<processed, effect, queued>>

\* No handler moves; the device may queue an operation.
Idles ==
  /\ UNCHANGED <<pc, todo, answer, processed, effect>>
  /\ \/ UNCHANGED <<queued, outbox>>
     \/ queued < N /\ queued' = queued + 1 /\ outbox' = outbox \cup {queued + 1}

LEMMA StepKinds ==
  ASSUME OneAtATime, TInv, BInv, DInv, [Next]_vars
  PROVE  \/ Idles
         \/ \E h \in Handlers : \/ Push(h) \/ Ends(h)
                                \/ \E l, v : Moves(h, l, v)
                                \/ \E s, v : Answers(h, s, v)
<1>0. /\ processed \in [Ops -> Statuses \cup {"none", "in_progress"}]
      /\ effect \in [Ops -> Nat]
  BY DEF TInv, TypeOK, ServerTypeOK
<1>a. ASSUME NEW h \in Handlers, pc[h] \in Labels
      PROVE  Current(h) \in Ops /\ processed = [processed EXCEPT ![Current(h)] = processed[Current(h)]]
  BY <1>0, <1>a, CurrentInBatch DEF TInv, TypeOK
<1>b. ASSUME NEW h \in Handlers, pc[h] = "write"
      PROVE  /\ Current(h) \in Ops /\ processed[Current(h)] = "in_progress"
             /\ effect[Current(h)] = 0 /\ effect = [effect EXCEPT ![Current(h)] = 0]
             /\ Written(Current(h)) => effect' = [effect EXCEPT ![Current(h)] = 1]
  <2>1. Current(h) \in Ops /\ processed[Current(h)] = "in_progress"
    BY <1>a, <1>b DEF DInv, ClaimIsOwned, Labels
  <2>2. effect[Current(h)] = 0
    BY <2>1 DEF DInv, UndecidedIsIdle, Statuses
  <2>3. Written(Current(h)) => effect' = [effect EXCEPT ![Current(h)] = 1]
    BY <2>2 DEF Written
  <2> QED BY <1>0, <2>1, <2>2, <2>3
<1>1. CASE Enqueue \/ GiveUp \/ ChangePermission \/ (\E q \in Ops : BackoffEnds(q)) \/ UNCHANGED vars
  BY <1>1 DEF Enqueue, GiveUp, ChangePermission, BackoffEnds, Idles, vars, deviceVars, serverVars, handlerVars
<1>2. ASSUME NEW h \in Handlers, ClaimInsert(h)
      PROVE  \E l, v : Moves(h, l, v)
  <2>1. pc[h] \in Labels /\ UNCHANGED <<effect, queued, outbox>>
    BY <1>2 DEF ClaimInsert, Labels, deviceVars
  <2>2. CASE processed[Current(h)] = "none"
    <3>1. Moves(h, "authorize", "in_progress")
      BY <1>2, <2>1, <2>2 DEF ClaimInsert, GoTo, Moves, Labels
    <3> QED BY <3>1
  <2>3. CASE processed[Current(h)] # "none"
    <3>1. Moves(h, "lookup", processed[Current(h)])
      BY <1>2, <1>a, <2>1, <2>3 DEF ClaimInsert, GoTo, Moves, Labels
    <3> QED BY <3>1
  <2> QED BY <2>2, <2>3
<1>3. ASSUME NEW h \in Handlers, ClaimLookup(h)
      PROVE  (\E l, v : Moves(h, l, v)) \/ \E s, v : Answers(h, s, v)
  <2>1. pc[h] = "lookup" /\ pc[h] \in Labels /\ UNCHANGED <<effect, queued, outbox, processed>>
    BY <1>3 DEF ClaimLookup, Labels, deviceVars, serverVars
  <2>2. CASE processed[Current(h)] = "in_progress"
    <3>1. Moves(h, "authorize", "in_progress")
      BY <1>3, <1>a, <2>1, <2>2 DEF ClaimLookup, GoTo, Moves, Labels
    <3> QED BY <3>1
  <2>3. CASE processed[Current(h)] # "in_progress"
    <3>1. processed[Current(h)] \in Statuses
      BY <1>0, <1>a, <2>1, <2>3 DEF DInv, ClaimIsOwned
    <3>2. Answers(h, "duplicate", processed[Current(h)])
      BY <1>3, <1>a, <2>1, <2>3, <3>1 DEF ClaimLookup, Answers, Results
    <3> QED BY <3>2
  <2> QED BY <2>2, <2>3
<1>4. ASSUME NEW h \in Handlers, Authorize(h) \/ ApplyRead(h) \/ ApplyFail(h)
      PROVE  \E l, v : Moves(h, l, v)
  <2>1. pc[h] \in Labels /\ UNCHANGED <<todo, answer, effect, queued, outbox, processed>>
    BY <1>4 DEF Authorize, ApplyRead, ApplyFail, GoTo, Labels, deviceVars, serverVars
  <2>2. processed[Current(h)] = "in_progress"
    BY <1>4 DEF Authorize, ApplyRead, ApplyFail, DInv, ClaimIsOwned
  <2>3. PICK l \in {"read", "write", "failed"} : pc' = [pc EXCEPT ![h] = l]
    BY <1>4 DEF Authorize, ApplyRead, ApplyFail, GoTo
  <2>4. Moves(h, l, "in_progress")
    BY <1>a, <2>1, <2>2, <2>3 DEF Moves, Labels
  <2> QED BY <2>4
<1>5. ASSUME NEW h \in Handlers, RejectUnauthorized(h)
      PROVE  \E s, v : Answers(h, s, v)
  <2>1. pc[h] = "authorize" /\ pc[h] \in Labels /\ UNCHANGED <<effect, queued, outbox>>
    BY <1>5 DEF RejectUnauthorized, Labels, deviceVars
  <2>2. Current(h) \in Ops /\ processed[Current(h)] = "in_progress"
    BY <1>a, <2>1 DEF DInv, ClaimIsOwned
  <2>3. effect[Current(h)] = 0 /\ effect = [effect EXCEPT ![Current(h)] = 0]
    BY <1>0, <2>2 DEF DInv, UndecidedIsIdle, Statuses
  <2>4. Verdict(h, "rejected")
    BY <2>1, <2>2, <2>3 DEF Verdict, Statuses
  <2>5. Answers(h, "rejected", "rejected")
    BY <1>5, <2>1, <2>4 DEF RejectUnauthorized, Answers, Results, Statuses
  <2> QED BY <2>5
<1>6. ASSUME NEW h \in Handlers, NEW v \in Statuses, pc[h] = "write", RecordOutcome(h, v), Verdict(h, v)
      PROVE  \E s, w : Answers(h, s, w)
  <2>1. Answers(h, v, v)
    BY <1>6 DEF RecordOutcome, Answers, Results, Labels, deviceVars
  <2> QED BY <2>1
<1>7. ASSUME NEW h \in Handlers, ApplyCreate(h)
      PROVE  \E s, v : Answers(h, s, v)
  <2>1. pc[h] = "write" /\ RecordOutcome(h, "applied") /\ Creates(Current(h))
    BY <1>7 DEF ApplyCreate
  <2>2. CASE seen[h] # Absent
    <3>1. Entity[Current(h)] \in Rows \ Stocked /\ stamp[Entity[Current(h)]] # Absent
      BY <1>b, <2>1, <2>2, RowIdsAreFresh DEF BInv, SeenIsThere, Rows
    <3>2. PICK p \in Ops : Creates(p) /\ Entity[p] = Entity[Current(h)] /\ effect[p] > 0
      BY <3>1 DEF BInv, RowsAreMade
    <3>3. p = Current(h)
      BY <1>b, <2>1, <3>2, RowIdsAreFresh
    <3> QED BY <1>b, <2>1, <3>2, <3>3
  <2>3. CASE seen[h] = Absent
    <3>1. Written(Current(h))
      BY <1>7, <2>3 DEF ApplyCreate
    <3>2. Verdict(h, "applied")
      BY <1>b, <2>1, <3>1 DEF Verdict, Statuses
    <3> QED BY <1>6, <2>1, <3>2 DEF Statuses
  <2> QED BY <2>2, <2>3
<1>8. ASSUME NEW h \in Handlers, ApplyEdit(h)
      PROVE  \E s, v : Answers(h, s, v)
  <2>1. pc[h] = "write"
    BY <1>8 DEF ApplyEdit
  <2>2. PICK v \in {"applied", "conflict"} :
          RecordOutcome(h, v) /\ (Written(Current(h)) \/ (v = "conflict" /\ UNCHANGED effect))
    BY <1>8 DEF ApplyEdit
  <2>3. Verdict(h, v)
    BY <1>b, <2>1, <2>2 DEF Verdict, Statuses
  <2> QED BY <1>6, <2>1, <2>2, <2>3 DEF Statuses
<1>9. ASSUME NEW h \in Handlers, ApplyReject(h)
      PROVE  \E s, v : Answers(h, s, v)
  <2>1. pc[h] = "write" /\ RecordOutcome(h, "rejected") /\ UNCHANGED effect
    BY <1>9 DEF ApplyReject
  <2>2. Verdict(h, "rejected")
    BY <1>b, <2>1 DEF Verdict, Statuses
  <2> QED BY <1>6, <2>1, <2>2 DEF Statuses
<1>10. ASSUME NEW h \in Handlers, ReleaseClaim(h)
       PROVE  \E s, v : Answers(h, s, v)
  <2>1. pc[h] = "failed" /\ processed[Current(h)] = "in_progress" /\ UNCHANGED <<effect, queued, outbox>>
    BY <1>10 DEF ReleaseClaim, DInv, ClaimIsOwned, deviceVars
  <2>2. Answers(h, "retryable", "none")
    BY <1>10, <2>1 DEF ReleaseClaim, Answers, Results, Labels
  <2> QED BY <2>2
<1>11. ASSUME NEW h \in Handlers, Crash(h) \/ RecordThrows(h) \/ RespondToNobody(h)
       PROVE  Ends(h)
  <2>1. /\ pc[h] # "free" /\ End(h) /\ outbox' = outbox \ {}
        /\ UNCHANGED <<processed, effect, queued>>
    BY <1>11 DEF Crash, RecordThrows, RespondToNobody, Vanish, deviceVars, serverVars
  <2> QED BY <2>1 DEF Ends
<1>12. ASSUME NEW h \in Handlers, Respond(h)
       PROVE  Ends(h)
  <2> DEFINE settled == Acknowledged(h) \cup AnsweredWith(h, {"rejected"})
  <2>1. settled \in SUBSET Ops /\ \A q \in settled : answer[h][q] \in Statuses \cup {"duplicate"}
    BY DEF Acknowledged, AnsweredWith, Statuses
  <2>2. /\ pc[h] # "free" /\ End(h) /\ outbox' = outbox \ settled
        /\ UNCHANGED <<processed, effect, queued>>
    BY <1>12 DEF Respond, serverVars
  <2> QED BY <2>1, <2>2 DEF Ends
<1> QED
  BY <1>1, <1>2, <1>3, <1>4, <1>5, <1>7, <1>8, <1>9, <1>10, <1>11, <1>12 DEF Next, HandlerStep
\* Whoever works keeps all others out.
LEMMA OthersRest ==
  ASSUME TInv, DInv, NEW h \in Handlers, pc[h] # "free"
  PROVE  \A g \in Handlers \ {h} : pc[g] = "free" /\ todo[g] = {} /\ \A q \in Ops : answer[g][q] = "none"
BY DEF TInv, TypeOK, HandlerTypeOK, AnswersHeld, DInv, OneHandler

LEMMA IdlesKeeps ==
  ASSUME TInv, DInv, Idles
  PROVE  DInv'
<1>1. \A h \in Handlers : Current(h)' = Current(h)
  BY DEF Idles, Current
<1>2. queued \in Nat /\ queued' \in Nat /\ queued <= queued'
      /\ (1 .. queued) \subseteq 1 .. queued' /\ Settled' \subseteq Settled
  BY PushAssumption DEF TInv, TypeOK, DeviceTypeOK, Idles, Settled
<1>3. OneHandler' /\ ClaimIsOwned' /\ AnswerIsDecided' /\ UndecidedIsIdle'
  BY <1>1 DEF Idles, DInv, OneHandler, ClaimIsOwned, AnswerIsDecided, UndecidedIsIdle
<1>4. BatchIsQueued'
  BY <1>2 DEF Idles, DInv, BatchIsQueued
<1>5. DecidedIsQueued'
  BY <1>2, OpsAreNumbers DEF Idles, DInv, DecidedIsQueued
<1>6. SettledIsDecided'
  BY <1>2 DEF Idles, DInv, SettledIsDecided
<1> QED BY <1>3, <1>4, <1>5, <1>6 DEF DInv

LEMMA PushKeeps ==
  ASSUME OneAtATime, TInv, DInv, NEW h \in Handlers, Push(h)
  PROVE  DInv'
<1>1. \A g \in Handlers : pc[g] = "free" /\ todo[g] = {} /\ (g # h => pc'[g] = "free" /\ todo'[g] = {})
  BY DEF Push, TInv, TypeOK, HandlerTypeOK
<1>2. pc'[h] = "claim" /\ todo'[h] = NextBatch /\ NextBatch \subseteq 1 .. queued
  BY BatchTyped DEF Push, TInv, TypeOK, HandlerTypeOK
<1>3. UNCHANGED <<queued, outbox, answer, processed, effect>>
  BY DEF Push, serverVars
<1>4. OneHandler' /\ ClaimIsOwned' /\ BatchIsQueued'
  BY <1>1, <1>2, <1>3 DEF OneHandler, ClaimIsOwned, BatchIsQueued
<1>5. AnswerIsDecided' /\ UndecidedIsIdle' /\ DecidedIsQueued' /\ SettledIsDecided'
  BY <1>3 DEF DInv, AnswerIsDecided, UndecidedIsIdle, DecidedIsQueued, SettledIsDecided, Settled
<1> QED BY <1>4, <1>5 DEF DInv

LEMMA MovesKeeps ==
  ASSUME TInv, DInv, NEW h \in Handlers, NEW l, NEW v, Moves(h, l, v)
  PROVE  DInv'
<1> DEFINE q == Current(h)
<1>1. q \in todo[h] /\ q \in Ops /\ q <= queued /\ pc[h] # "free"
  <2>1. q \in todo[h] /\ q \in Ops /\ pc[h] # "free"
    BY CurrentInBatch DEF Moves, TInv, TypeOK, Labels
  <2> QED BY <2>1 DEF DInv, BatchIsQueued
<1>2. /\ processed' = [processed EXCEPT ![q] = v] /\ pc' = [pc EXCEPT ![h] = l]
      /\ v = processed[q] \/ (processed[q] = "none" /\ v = "in_progress")
      /\ UNCHANGED <<todo, answer, effect, queued, outbox>>
      /\ l \in Labels \ {"claim"} /\ IF l = "lookup" THEN v # "none" ELSE v = "in_progress"
  BY DEF Moves
<1>3. \A g \in Handlers : Current(g)' = Current(g)
  BY <1>2 DEF Current
<1> HIDE DEF q
<1>4. /\ \A p \in Ops : p # q => processed'[p] = processed[p]
      /\ processed'[q] = v /\ \A p \in Ops : processed'[p] \in Statuses <=> processed[p] \in Statuses
  BY <1>1, <1>2 DEF TInv, TypeOK, ServerTypeOK, Statuses
<1>5. pc'[h] = l /\ \A g \in Handlers \ {h} : pc'[g] = "free"
  BY <1>1, <1>2, OthersRest DEF TInv, TypeOK, HandlerTypeOK
<1>6. OneHandler' /\ BatchIsQueued'
  BY <1>2, <1>5 DEF DInv, OneHandler, BatchIsQueued
<1>7. ClaimIsOwned'
  BY <1>2, <1>3, <1>4, <1>5 DEF ClaimIsOwned, Labels, q
<1>8. AnswerIsDecided' /\ UndecidedIsIdle' /\ DecidedIsQueued'
  BY <1>1, <1>2, <1>4 DEF DInv, AnswerIsDecided, UndecidedIsIdle, DecidedIsQueued
<1>9. SettledIsDecided'
  <2>1. Settled' = Settled /\ Settled \subseteq Ops
    BY <1>2, OpsAreNumbers DEF Settled, TInv, TypeOK, DeviceTypeOK
  <2> QED BY <1>4, <2>1 DEF DInv, SettledIsDecided
<1> QED BY <1>6, <1>7, <1>8, <1>9 DEF DInv

LEMMA AnswersKeeps ==
  ASSUME TInv, DInv, NEW h \in Handlers, NEW s, NEW v, Answers(h, s, v)
  PROVE  DInv'
<1> DEFINE q == Current(h)
<1>1. q \in todo[h] /\ q \in Ops /\ q <= queued /\ pc[h] # "free"
  <2>1. q \in todo[h] /\ q \in Ops /\ pc[h] # "free"
    BY CurrentInBatch DEF Answers, TInv, TypeOK, Labels
  <2> QED BY <2>1 DEF DInv, BatchIsQueued
<1>2. /\ processed' = [processed EXCEPT ![q] = v]
      /\ pc' = [pc EXCEPT ![h] = IF todo[h] = {q} THEN "respond" ELSE "claim"]
      /\ todo' = [todo EXCEPT ![h] = todo[h] \ {q}]
      /\ answer' = [answer EXCEPT ![h][q] = s]
      /\ s \in Results /\ UNCHANGED <<queued, outbox>>
  BY DEF Answers, Answer
<1>3. \/ v \in Statuses
      \/ v = "none" /\ processed[q] = "in_progress" /\ s = "retryable" /\ effect' = effect
  BY DEF Answers, Verdict
<1>4. \A p \in Ops : p # q => effect'[p] = effect[p]
  BY <1>1 DEF Answers, Verdict, TInv, TypeOK, ServerTypeOK
<1> HIDE DEF q
<1>5. /\ \A p \in Ops : p # q => processed'[p] = processed[p]
      /\ processed'[q] = v
  BY <1>1, <1>2 DEF TInv, TypeOK, ServerTypeOK
<1>6. pc'[h] \in {"respond", "claim"} /\ \A g \in Handlers \ {h} : pc'[g] = "free"
  BY <1>1, <1>2, OthersRest DEF TInv, TypeOK, HandlerTypeOK
<1>7. \A p \in Ops : processed[p] \in Statuses => processed'[p] \in Statuses
  BY <1>3, <1>5 DEF Statuses
<1>8. OneHandler' /\ ClaimIsOwned'
  BY <1>6 DEF OneHandler, ClaimIsOwned
<1>9. BatchIsQueued'
  BY <1>2 DEF DInv, BatchIsQueued, TInv, TypeOK, HandlerTypeOK
<1>10. AnswerIsDecided'
  <2>1. SUFFICES ASSUME NEW g \in Handlers, NEW p \in Ops, answer'[g][p] \in Statuses \cup {"duplicate"}
                 PROVE  processed'[p] \in Statuses
    BY DEF AnswerIsDecided
  <2>2. CASE g = h /\ p = q
    <3>1. answer'[g][p] = s
      BY <1>1, <1>2, <2>2 DEF TInv, TypeOK, HandlerTypeOK
    <3> QED BY <1>3, <1>5, <2>1, <2>2, <3>1 DEF Statuses
  <2>3. CASE ~ (g = h /\ p = q)
    <3>1. answer'[g][p] = answer[g][p]
      BY <1>2, <2>3 DEF TInv, TypeOK, HandlerTypeOK
    <3> QED BY <1>7, <2>1, <3>1 DEF DInv, AnswerIsDecided
  <2> QED BY <2>2, <2>3
<1>11. UndecidedIsIdle'
  <2>1. processed'[q] \notin Statuses => effect'[q] = 0
    BY <1>1, <1>3, <1>5 DEF DInv, UndecidedIsIdle, Statuses
  <2> QED BY <1>4, <1>5, <2>1 DEF DInv, UndecidedIsIdle
<1>12. DecidedIsQueued'
  BY <1>1, <1>2, <1>5 DEF DInv, DecidedIsQueued
<1>13. SettledIsDecided'
  <2>1. Settled' = Settled /\ Settled \subseteq Ops
    BY <1>2, OpsAreNumbers DEF Settled, TInv, TypeOK, DeviceTypeOK
  <2> QED BY <1>7, <2>1 DEF DInv, SettledIsDecided
<1> QED BY <1>8, <1>9, <1>10, <1>11, <1>12, <1>13 DEF DInv

LEMMA EndsKeeps ==
  ASSUME TInv, DInv, NEW h \in Handlers, Ends(h)
  PROVE  DInv'
<1>1. UNCHANGED <<processed, effect, queued>> /\ pc[h] # "free" /\ End(h)
  BY DEF Ends
<1>2. \A g \in Handlers : pc'[g] = "free" /\ todo'[g] = {} /\ \A q \in Ops : answer'[g][q] = "none"
  BY <1>1, OthersRest DEF End, TInv, TypeOK, HandlerTypeOK
<1>3. OneHandler' /\ ClaimIsOwned' /\ BatchIsQueued' /\ AnswerIsDecided'
  BY <1>2 DEF OneHandler, ClaimIsOwned, BatchIsQueued, AnswerIsDecided, Statuses
<1>4. UndecidedIsIdle' /\ DecidedIsQueued'
  BY <1>1 DEF DInv, UndecidedIsIdle, DecidedIsQueued
<1>5. SettledIsDecided'
  <2>1. PICK settled \in SUBSET Ops :
          /\ \A q \in settled : answer[h][q] \in Statuses \cup {"duplicate"}
          /\ outbox' = outbox \ settled
    BY DEF Ends
  <2>2. \A q \in settled : processed[q] \in Statuses
    BY <2>1 DEF DInv, AnswerIsDecided
  <2>3. Settled' \subseteq Settled \cup settled
    BY <1>1, <2>1 DEF Settled
  <2> QED BY <1>1, <2>2, <2>3 DEF DInv, SettledIsDecided
<1> QED BY <1>3, <1>4, <1>5 DEF DInv

LEMMA InitDInv == Init => DInv
<1> SUFFICES ASSUME Init PROVE DInv
  OBVIOUS
<1>1. OneHandler /\ ClaimIsOwned /\ BatchIsQueued /\ AnswerIsDecided
  BY DEF Init, OneHandler, ClaimIsOwned, BatchIsQueued, AnswerIsDecided, Statuses
<1>2. UndecidedIsIdle /\ DecidedIsQueued /\ SettledIsDecided
  BY DEF Init, UndecidedIsIdle, DecidedIsQueued, SettledIsDecided, Settled
<1> QED BY <1>1, <1>2 DEF DInv

LEMMA DInvHolds ==
  ASSUME OneAtATime
  PROVE  Spec => []DInv
<1>1. TInv /\ BInv /\ DInv /\ [Next]_vars => DInv'
  BY StepKinds, IdlesKeeps, PushKeeps, MovesKeeps, AnswersKeeps, EndsKeeps
<1> QED BY InitDInv, <1>1, TInvHolds, BInvHolds, PTL DEF Spec

\* With one handler at a time an operation leaves the device only when the server
\* has decided it, whatever crashes, times out and is sent again.
THEOREM NothingIsLost ==
  ASSUME OneAtATime
  PROVE  Spec => []SettledIsDecided
<1>1. DInv => SettledIsDecided
  BY DEF DInv
<1> QED BY <1>1, DInvHolds, PTL

-----------------------------------------------------------------------------
(* The promise.                                                            *)

LEMMA InitPromise == Init => Delivery!Init
BY DEF Init, Delivery!Init, Decision, Statuses

\* A step decides one operation, queues one, settles some, or does nothing that
\* the promise speaks of.
LEMMA StepPromise ==
  ASSUME OneAtATime, TInv, BInv, DInv, [Next]_vars
  PROVE  [Delivery!Next]_<<outbox, [q \in Ops |-> Decision(q)], effect>>
<1> DEFINE V == [q \in Ops |-> Decision(q)]
<1>0. /\ processed \in [Ops -> Statuses \cup {"none", "in_progress"}]
      /\ effect \in [Ops -> Nat] /\ outbox \subseteq 1 .. queued /\ queued \in 0 .. N
  BY DEF TInv, TypeOK, ServerTypeOK, DeviceTypeOK
<1>a. ASSUME UNCHANGED processed PROVE V' = V
  BY <1>a DEF Decision
<1>1. CASE Idles
  <2>1. CASE UNCHANGED <<queued, outbox>>
    BY <1>1, <1>a, <2>1 DEF Idles
  <2>2. CASE queued < N /\ outbox' = outbox \cup {queued + 1}
    <3>1. queued + 1 \in Ops /\ queued + 1 \notin outbox
      BY <1>0, <2>2, PushAssumption DEF Ops
    <3>2. processed[queued + 1] = "none"
      BY <1>0, <3>1 DEF DInv, DecidedIsQueued
    <3>3. V[queued + 1] = "none"
      BY <3>1, <3>2 DEF Decision, Statuses
    <3>4. Delivery!Queue(queued + 1)
      BY <1>1, <1>a, <2>2, <3>1, <3>3 DEF Delivery!Queue, Idles
    <3> QED BY <3>1, <3>4 DEF Delivery!Next
  <2> QED BY <1>1, <2>1, <2>2 DEF Idles
<1>2. ASSUME NEW h \in Handlers, Push(h) PROVE UNCHANGED <<outbox, V, effect>>
  BY <1>a, <1>2 DEF Push, serverVars
<1>3. ASSUME NEW h \in Handlers, NEW l, NEW v, Moves(h, l, v) PROVE UNCHANGED <<outbox, V, effect>>
  <2>1. \A p \in Ops : Decision(p)' = Decision(p)
    BY <1>0, <1>3 DEF Moves, Decision, Statuses
  <2> QED BY <1>3, <2>1 DEF Moves
<1>4. ASSUME NEW h \in Handlers, NEW s, NEW v, Answers(h, s, v)
      PROVE  Delivery!Next \/ UNCHANGED <<outbox, V, effect>>
  <2>1. Current(h) \in Ops
    BY <1>4, CurrentInBatch DEF Answers, TInv, TypeOK
  <2>2. processed' = [processed EXCEPT ![Current(h)] = v] /\ outbox' = outbox
    BY <1>4 DEF Answers
  <2>3. CASE Verdict(h, v)
    <3>1. V[Current(h)] = "none" /\ v \in Statuses
      BY <2>1, <2>3 DEF Verdict, Decision, Statuses
    <3>2. V' = [V EXCEPT ![Current(h)] = v]
      BY <1>0, <2>1, <2>2, <3>1 DEF Decision
    <3>3. Delivery!Decide(Current(h), v)
      BY <2>2, <2>3, <3>1, <3>2 DEF Delivery!Decide, Verdict
    <3> QED BY <2>1, <3>1, <3>3 DEF Delivery!Next, Delivery!Verdicts, Statuses
  <2>4. CASE ~ Verdict(h, v)
    <3>1. UNCHANGED effect /\ (v = processed[Current(h)] \/ (v = "none" /\ processed[Current(h)] = "in_progress"))
      BY <1>4, <2>4 DEF Answers
    <3>2. \A p \in Ops : Decision(p)' = Decision(p)
      BY <1>0, <2>1, <2>2, <3>1 DEF Decision, Statuses
    <3> QED BY <2>2, <3>1, <3>2
  <2> QED BY <2>3, <2>4
<1>5. ASSUME NEW h \in Handlers, Ends(h)
      PROVE  Delivery!Next
  <2>1. PICK settled \in SUBSET Ops :
          /\ \A q \in settled : answer[h][q] \in Statuses \cup {"duplicate"}
          /\ outbox' = outbox \ settled
    BY <1>5 DEF Ends
  <2>2. \A q \in settled : V[q] # "none"
    BY <2>1 DEF DInv, AnswerIsDecided, Decision, Statuses
  <2>3. UNCHANGED <<processed, effect>>
    BY <1>5 DEF Ends
  <2>4. Delivery!Forget(settled \cap outbox)
    BY <1>a, <2>1, <2>2, <2>3 DEF Delivery!Forget
  <2> QED BY <2>4 DEF Delivery!Next
<1> QED BY <1>1, <1>2, <1>3, <1>4, <1>5, StepKinds

\* With one handler at a time the push implements the promise: every operation
\* is decided once, in one step with its effect, and held until then.
THEOREM PushKeepsItsPromise ==
  ASSUME OneAtATime
  PROVE  Spec => DecidedOnce
<1>1. TInv /\ BInv /\ DInv /\ [Next]_vars
      => [Delivery!Next]_<<outbox, [q \in Ops |-> Decision(q)], effect>>
  BY StepPromise
<1> QED BY InitPromise, <1>1, TInvHolds, BInvHolds, DInvHolds, PTL DEF Spec, DecidedOnce, Delivery!Spec
=============================================================================
