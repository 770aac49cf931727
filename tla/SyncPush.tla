------------------------------ MODULE SyncPush ------------------------------
(***************************************************************************)
(* The push half of the sync engine: the device's outbox, and the server   *)
(* handlers that claim, authorize, apply and record each queued operation, *)
(* one database transaction per step (SyncService.push runs outside the    *)
(* request transaction).  Handlers run side by side; the device waits for  *)
(* one of them, and may give up on it while it goes on.                    *)
(*                                                                         *)
(* The flush loop itself is not in the repository; it is modelled from the *)
(* functions the outbox offers it (pending, blockedEntityIds, acknowledge, *)
(* fail) and what their comments say they are for.                         *)
(***************************************************************************)
EXTENDS Naturals, FiniteSets

CONSTANTS
  N,            \* operations the device queues, in this order
  Kind,         \* what each operation is
  Entity,       \* the row each operation is about
  Bare,         \* edits whose patch names no field (a payload may be {})
  Stocked,      \* rows that exist before the first operation
  Handlers,     \* push requests the server may be running
  NoHandler,    \* none of them
  BatchLimit,   \* operations per push
  OneAtATime,   \* does the device wait out an abandoned request before the next?
  MaxToggles,   \* bound: changes of the user's permissions
  MaxFaults     \* bound: crashes, timeouts and transient failures

Ops == 1 .. N

\* create, edit: of a product; fact: a sale or payment; unknown: an entity the
\* server has no branch for; poison: its service throws every time.
Kinds == {"create", "edit", "fact", "unknown", "poison"}

ASSUME PushAssumption ==
  /\ N \in Nat /\ BatchLimit \in Nat \ {0}
  /\ Kind \in [Ops -> Kinds]
  /\ DOMAIN Entity = Ops
  /\ Bare \subseteq {q \in Ops : Kind[q] = "edit"}
  /\ NoHandler \notin Handlers
  /\ OneAtATime \in BOOLEAN
  /\ MaxToggles \in Nat /\ MaxFaults \in Nat

Creates(q) == Kind[q] \in {"create", "fact"}

\* Row ids are UUIDs the device draws: no two operations create the same row,
\* nor one that is already there.
ASSUME RowIdsAreFresh ==
  \A q \in Ops : Creates(q) =>
    /\ Entity[q] \notin Stocked
    /\ \A p \in Ops : Creates(p) /\ Entity[p] = Entity[q] => p = q

VARIABLES
  queued,       \* operations queued so far: 1 .. queued
  outbox,       \* sync_outbox
  backoff,      \* the ones whose next_retry_at is in the future
  awaiting,     \* the request the device waits for
  permitted,    \* does the user hold the permission the operations need?
  toggles, faults,
  processed,    \* processed_operation.status, "none" where there is no row
  stamp,        \* per row: 0 absent, else 1 + the op of its client_updated_at
  effect,       \* how many committed writes each operation has made
  conflicts,    \* operations with a sync_conflict row
  pc,           \* where each handler is
  todo,         \* what is left of its batch
  grants,       \* permissions the guard read when the request arrived
  seen,         \* the row's stamp as applyProduct... read it
  answer        \* the results so far

deviceVars  == <<queued, outbox, backoff, awaiting>>
serverVars  == <<processed, stamp, effect, conflicts>>
handlerVars == <<pc, todo, grants, seen, answer>>
boundVars   == <<permitted, toggles, faults>>
vars        == <<deviceVars, serverVars, handlerVars, boundVars>>

Rows == Stocked \cup {Entity[q] : q \in Ops}
Absent == 0

\* The lowest numbered members of a set: ORDER BY seq LIMIT n.
FirstOf(S, n) == {q \in S : Cardinality({r \in S : r < q}) < n}
Current(h) == CHOOSE q \in todo[h] : \A r \in todo[h] : q <= r

-----------------------------------------------------------------------------
(* The outbox.                                                             *)

Pending == FirstOf(outbox \ backoff, BatchLimit)
BlockedEntityIds == {Entity[q] : q \in backoff}
NextBatch == {q \in Pending : Entity[q] \notin BlockedEntityIds}

Init ==
  /\ queued = 0 /\ outbox = {} /\ backoff = {} /\ awaiting = NoHandler
  /\ permitted = TRUE /\ toggles = 0 /\ faults = 0
  /\ processed = [q \in Ops |-> "none"]
  /\ stamp = [e \in Rows |-> IF e \in Stocked THEN 1 ELSE Absent]
  /\ effect = [q \in Ops |-> 0]
  /\ conflicts = {}
  /\ pc = [h \in Handlers |-> "free"]
  /\ todo = [h \in Handlers |-> {}]
  /\ grants = [h \in Handlers |-> FALSE]
  /\ seen = [h \in Handlers |-> Absent]
  /\ answer = [h \in Handlers |-> [q \in Ops |-> "none"]]

\* enqueue: in the transaction that writes the domain rows; seq is a counter.
Enqueue ==
  /\ queued < N
  /\ queued' = queued + 1
  /\ outbox' = outbox \cup {queued + 1}
  /\ UNCHANGED <<backoff, awaiting, serverVars, handlerVars, boundVars>>

\* next_retry_at passes for one operation.
BackoffEnds(q) ==
  /\ q \in backoff
  /\ backoff' = backoff \ {q}
  /\ UNCHANGED <<queued, outbox, awaiting, serverVars, handlerVars, boundVars>>

\* The device pushes a batch; the guard reads the user's permissions.
Push(h) ==
  /\ awaiting = NoHandler
  /\ NextBatch # {}
  /\ pc[h] = "free"
  /\ OneAtATime => \A g \in Handlers : pc[g] = "free"
  /\ awaiting' = h
  /\ pc' = [pc EXCEPT ![h] = "claim"]
  /\ todo' = [todo EXCEPT ![h] = NextBatch]
  /\ grants' = [grants EXCEPT ![h] = permitted]
  /\ UNCHANGED <<queued, outbox, backoff, serverVars, seen, answer, boundVars>>

\* The device times out, or loses its connection; the server does not notice.
GiveUp ==
  /\ awaiting # NoHandler
  /\ faults < MaxFaults
  /\ faults' = faults + 1
  /\ awaiting' = NoHandler
  /\ UNCHANGED <<queued, outbox, backoff, serverVars, handlerVars, permitted, toggles>>

\* The user loses, or regains, the permission.
ChangePermission ==
  /\ toggles < MaxToggles
  /\ toggles' = toggles + 1
  /\ permitted' = ~ permitted
  /\ UNCHANGED <<deviceVars, serverVars, handlerVars, faults>>

-----------------------------------------------------------------------------
(* The handlers.  Each works through its batch in order, one operation at a *)
(* time; push returns when the last is answered.                            *)

\* The next operation of the batch, or the end of it.
Answer(h, status) ==
  LET q == Current(h)
  IN  /\ answer' = [answer EXCEPT ![h][q] = status]
      /\ todo' = [todo EXCEPT ![h] = todo[h] \ {q}]
      /\ pc' = [pc EXCEPT ![h] = IF todo[h] = {q} THEN "respond" ELSE "claim"]
      /\ seen' = [seen EXCEPT ![h] = Absent]
      /\ UNCHANGED grants

GoTo(h, label) ==
  /\ pc' = [pc EXCEPT ![h] = label]
  /\ UNCHANGED <<todo, grants, seen, answer>>

\* The handler is gone, with everything it had in memory.
End(h) ==
  /\ pc' = [pc EXCEPT ![h] = "free"]
  /\ todo' = [todo EXCEPT ![h] = {}]
  /\ grants' = [grants EXCEPT ![h] = FALSE]
  /\ seen' = [seen EXCEPT ![h] = Absent]
  /\ answer' = [answer EXCEPT ![h] = [q \in Ops |-> "none"]]

\* claimOperation, first statement: INSERT ... ON CONFLICT DO NOTHING.
ClaimInsert(h) ==
  /\ pc[h] = "claim"
  /\ LET q == Current(h)
     IN  IF processed[q] = "none"
         THEN /\ processed' = [processed EXCEPT ![q] = "in_progress"]
              /\ GoTo(h, "authorize")
         ELSE GoTo(h, "lookup") /\ UNCHANGED processed
  /\ UNCHANGED <<deviceVars, stamp, effect, conflicts, boundVars>>

\* (mutant) any row counts as processed, whoever left it there
ClaimLookupTrusting(h) ==
  /\ pc[h] = "lookup"
  /\ Answer(h, "duplicate")
  /\ UNCHANGED <<deviceVars, serverVars, boundVars>>

\* (mutant) an unfinished claim is left to the handler that made it
ClaimLookupWaiting(h) ==
  /\ pc[h] = "lookup"
  /\ Answer(h, IF processed[Current(h)] = "in_progress" THEN "retryable" ELSE "duplicate")
  /\ UNCHANGED <<deviceVars, serverVars, boundVars>>

\* claimOperation, second statement: what the row says now.  An unfinished claim
\* is taken over; a finished one, or a row gone meanwhile, is a duplicate.
ClaimLookup(h) ==
  /\ pc[h] = "lookup"
  /\ IF processed[Current(h)] = "in_progress" THEN GoTo(h, "authorize")
                                              ELSE Answer(h, "duplicate")
  /\ UNCHANGED <<deviceVars, serverVars, boundVars>>

\* authorizeQueuedOperation: an append-only fact is accepted from anyone.
IsAppendOnlyFact(q) == Kind[q] \in {"fact", "poison"}

Authorize(h) ==
  /\ pc[h] = "authorize"
  /\ grants[h] \/ IsAppendOnlyFact(Current(h))
  /\ GoTo(h, "read")
  /\ UNCHANGED <<deviceVars, serverVars, boundVars>>

\* recordOutcome updates the row by op id, whatever its status.
RejectUnauthorized(h) ==
  /\ pc[h] = "authorize"
  /\ ~ grants[h] /\ ~ IsAppendOnlyFact(Current(h))
  /\ processed[Current(h)] # "none"
  /\ processed' = [processed EXCEPT ![Current(h)] = "rejected"]
  /\ Answer(h, "rejected")
  /\ UNCHANGED <<deviceVars, stamp, effect, conflicts, boundVars>>

\* (mutant) the outcome is recorded before the work, in a transaction of its own
ApplyReadRecords(h) ==
  /\ pc[h] = "read"
  /\ pc' = [pc EXCEPT ![h] = "write"]
  /\ seen' = [seen EXCEPT ![h] = stamp[Entity[Current(h)]]]
  /\ processed' = [processed EXCEPT ![Current(h)] = "applied"]
  /\ UNCHANGED <<todo, grants, answer, deviceVars, stamp, effect, conflicts, boundVars>>

\* The transaction of the work begins: does the row exist, and when was it changed?
ApplyRead(h) ==
  /\ pc[h] = "read"
  /\ pc' = [pc EXCEPT ![h] = "write"]
  /\ seen' = [seen EXCEPT ![h] = stamp[Entity[Current(h)]]]
  /\ UNCHANGED <<todo, grants, answer, deviceVars, serverVars, boundVars>>

\* (mutant) the outcome is forgotten when the work commits
RecordNothing(h, status) ==
  /\ UNCHANGED processed
  /\ Answer(h, status)
  /\ UNCHANGED <<deviceVars, boundVars>>

\* recordOutcomeInTransaction: the row must still be there, and commits with the work.
RecordOutcome(h, status) ==
  /\ processed[Current(h)] # "none"
  /\ processed' = [processed EXCEPT ![Current(h)] = status]
  /\ Answer(h, status)
  /\ UNCHANGED <<deviceVars, boundVars>>

Written(q) ==
  /\ stamp' = [stamp EXCEPT ![Entity[q]] = q + 1]
  /\ effect' = [effect EXCEPT ![q] = effect[q] + 1]

\* (mutant) nothing in the database stops a second row of the same id
ApplyCreateTwice(h) ==
  LET q == Current(h)
  IN  /\ pc[h] = "write" /\ Creates(q)
      /\ \/ seen[h] # Absent /\ UNCHANGED <<stamp, effect>>
         \/ seen[h] = Absent /\ Written(q)
      /\ RecordOutcome(h, "applied")
      /\ UNCHANGED conflicts

\* applyProductCreate, sales.create, payments.record: a row of that id is the work done.
ApplyCreate(h) ==
  LET q == Current(h)
  IN  /\ pc[h] = "write" /\ Creates(q)
      /\ \/ seen[h] # Absent /\ UNCHANGED <<stamp, effect>>
         \/ seen[h] = Absent /\ stamp[Entity[q]] = Absent /\ Written(q)
      /\ RecordOutcome(h, "applied")
      /\ UNCHANGED conflicts

\* applyProductUpdate.  resolveProductConflict refuses every field unless the
\* edit is newer than the row read; of a newer one it may refuse some fields
\* (a price edited against an older version) or all.  With no field accepted the
\* answer is 'conflict', and only a field refused makes a row of the inbox: a
\* patch that names none is recorded as a conflict about nothing.
ApplyEdit(h) ==
  LET q == Current(h)
      newer == q + 1 > seen[h]
  IN  /\ pc[h] = "write" /\ Kind[q] = "edit" /\ seen[h] # Absent
      /\ \/ /\ newer /\ q \notin Bare
            /\ Written(q)
            /\ RecordOutcome(h, "applied")
            /\ UNCHANGED conflicts
         \/ /\ newer /\ q \notin Bare
            /\ Written(q)
            /\ RecordOutcome(h, "conflict")
            /\ conflicts' = conflicts \cup {q}
         \/ /\ UNCHANGED <<stamp, effect>>
            /\ RecordOutcome(h, "conflict")
            /\ conflicts' = IF q \in Bare THEN conflicts ELSE conflicts \cup {q}

\* NOT_FOUND and UNSUPPORTED_ENTITY: outcomes of dispatch, recorded as any other.
ApplyReject(h) ==
  LET q == Current(h)
  IN  /\ pc[h] = "write"
      /\ Kind[q] = "unknown" \/ (Kind[q] = "edit" /\ seen[h] = Absent)
      /\ RecordOutcome(h, "rejected")
      /\ UNCHANGED <<stamp, effect, conflicts>>

\* Everything that throws inside the transaction and rolls it back: the service
\* itself, a row of that id committed since it was read, the claim released by
\* another handler; or, with a fault, a deadlock or a timeout.
ApplyFail(h) ==
  LET q == Current(h)
  IN  /\ pc[h] = "write"
      /\ \/ /\ \/ Kind[q] = "poison"
               \/ Creates(q) /\ seen[h] = Absent /\ stamp[Entity[q]] # Absent
               \/ processed[q] = "none"
            /\ UNCHANGED faults
         \/ faults < MaxFaults /\ faults' = faults + 1
      /\ GoTo(h, "failed")
      /\ UNCHANGED <<deviceVars, serverVars, permitted, toggles>>

\* releaseClaim: DELETE ... WHERE status = 'in_progress'; the device may retry.
ReleaseClaim(h) ==
  LET q == Current(h)
  IN  /\ pc[h] = "failed"
      /\ processed' = [processed EXCEPT ![q] = IF @ = "in_progress" THEN "none" ELSE @]
      /\ Answer(h, "retryable")
      /\ UNCHANGED <<deviceVars, stamp, effect, conflicts, boundVars>>

Vanish(h) ==
  /\ End(h)
  /\ awaiting' = IF awaiting = h THEN NoHandler ELSE awaiting
  /\ UNCHANGED <<queued, outbox, backoff, serverVars, permitted, toggles>>

\* The process dies between two of its transactions.
Crash(h) ==
  /\ pc[h] # "free"
  /\ faults < MaxFaults
  /\ faults' = faults + 1
  /\ Vanish(h)

\* recordOutcome outside any try: with the row gone the error ends the request.
RecordThrows(h) ==
  /\ pc[h] = "authorize"
  /\ ~ grants[h] /\ ~ IsAppendOnlyFact(Current(h))
  /\ processed[Current(h)] = "none"
  /\ UNCHANGED faults
  /\ Vanish(h)

AnsweredWith(h, statuses) == {q \in Ops : answer[h][q] \in statuses}

\* (mutant) whatever was answered is acknowledged
AcknowledgedAll(h) == AnsweredWith(h, {"applied", "duplicate", "conflict", "retryable"})

\* acknowledge: the server has accounted for it.
Acknowledged(h) == AnsweredWith(h, {"applied", "duplicate", "conflict"})

\* The answer reaches the device, which goes through it: acknowledge; fail for
\* good, which drops the row; or fail and back off.
Respond(h) ==
  /\ pc[h] = "respond"
  /\ awaiting = h
  /\ outbox' = outbox \ (Acknowledged(h) \cup AnsweredWith(h, {"rejected"}))
  /\ backoff' = backoff \cup AnsweredWith(h, {"retryable"})
  /\ awaiting' = NoHandler
  /\ End(h)
  /\ UNCHANGED <<queued, serverVars, boundVars>>

\* Nobody waits for the answer any more.
RespondToNobody(h) ==
  /\ pc[h] = "respond"
  /\ awaiting # h
  /\ End(h)
  /\ UNCHANGED <<deviceVars, serverVars, boundVars>>

-----------------------------------------------------------------------------
HandlerStep(h) ==
  \/ ClaimInsert(h) \/ ClaimLookup(h) \/ Authorize(h) \/ RejectUnauthorized(h) \/ RecordThrows(h)
  \/ ApplyRead(h) \/ ApplyCreate(h) \/ ApplyEdit(h) \/ ApplyReject(h) \/ ApplyFail(h)
  \/ ReleaseClaim(h) \/ Respond(h) \/ RespondToNobody(h)

Next ==
  \/ Enqueue \/ GiveUp \/ ChangePermission
  \/ \E q \in Ops : BackoffEnds(q)
  \/ \E h \in Handlers : Push(h) \/ HandlerStep(h) \/ Crash(h)

Spec == Init /\ [][Next]_vars

\* A running handler goes on, an open app pushes what is pending, backoffs end:
\* what a run must wait out is its MaxFaults faults.
Fairness ==
  /\ \A h \in Handlers : WF_vars(HandlerStep(h))
  /\ WF_vars(\E h \in Handlers : Push(h))
  /\ \A q \in Ops : WF_vars(BackoffEnds(q))

FairSpec == Spec /\ Fairness
-----------------------------------------------------------------------------
(* Properties.                                                             *)

Statuses == {"applied", "conflict", "rejected"}

DeviceTypeOK ==
  /\ queued \in 0 .. N /\ outbox \subseteq 1 .. queued
  /\ backoff \subseteq outbox
  /\ awaiting \in Handlers \cup {NoHandler}
  /\ awaiting # NoHandler => pc[awaiting] # "free"

ServerTypeOK ==
  /\ permitted \in BOOLEAN /\ toggles \in 0 .. MaxToggles /\ faults \in 0 .. MaxFaults
  /\ processed \in [Ops -> Statuses \cup {"none", "in_progress"}]
  /\ stamp \in [Rows -> Nat] /\ effect \in [Ops -> Nat] /\ conflicts \subseteq Ops

HandlerTypeOK ==
  /\ pc \in [Handlers -> {"free", "claim", "lookup", "authorize", "read", "write", "failed", "respond"}]
  /\ todo \in [Handlers -> SUBSET Ops]
  /\ \A h \in Handlers : todo[h] = {} <=> pc[h] \in {"free", "respond"}
  /\ grants \in [Handlers -> BOOLEAN] /\ seen \in [Handlers -> Nat]
  /\ answer \in [Handlers -> [Ops -> Statuses \cup {"none", "duplicate", "retryable"}]]

\* The shape of the state.  The outbox holds operations already queued, a
\* backoff is of one still held, and only a running handler has work left.
TypeOK == DeviceTypeOK /\ ServerTypeOK /\ HandlerTypeOK

\* Operations the device has queued and no longer holds.
Settled == (1 .. queued) \ outbox

\* An operation leaves the device only when the server has decided it: an
\* acknowledgement is never for work that was lost.
SettledIsDecided == \A q \in Settled : processed[q] \in Statuses

\* A sale, a payment or a new product is in the books at most once, whatever
\* handlers work on the same operation at the same time.
CreatesOnce == \A q \in Ops : Creates(q) => effect[q] <= 1

\* What is recorded as applied is in the books, and what is recorded as a
\* conflict is in the inbox: the record commits with the work or not at all.  An
\* edit that names no field is the exception: it is a conflict, about nothing.
RecordIsTrue ==
  \A q \in Ops :
    /\ processed[q] = "applied" => effect[q] > 0
    /\ processed[q] = "conflict" => q \in conflicts \cup Bare

\* Every operation whose service can succeed leaves the outbox, poison or not
\* beside it.
OutboxDrains ==
  \A q \in Ops : Kind[q] # "poison" => (q \in outbox ~> q \notin outbox)

\* The push implements the promise: one decision per operation, its effect in
\* the same step.
Decision(q) == IF processed[q] \in Statuses THEN processed[q] ELSE "none"
Delivery == INSTANCE OpDelivery WITH held <- outbox,
              verdict <- [q \in Ops |-> Decision(q)], effect <- effect
DecidedOnce == Delivery!Spec
=============================================================================
