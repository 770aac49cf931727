-------------------------- MODULE ChangeFeedProofs --------------------------
(***************************************************************************)
(* Theorems about the change feed, for every value of its constants:       *)
(*                                                                         *)
(*   TypeCorrect        Spec => []TypeOK                                   *)
(*   SkippedInTwo       Spec => []SkippedInTwoWays                         *)
(*   DrainedIsRetained  Spec => []DrainedCursorIsRetained                  *)
(*                                                                         *)
(* The inductive invariant says of every position a device, its row or a   *)
(* request holds that nothing still running can commit behind it (Settled),*)
(* and of every request what its answer covers so far (ReadOK ...          *)
(* DatasetOK).  For retention it dates the rows a position leaves ahead    *)
(* (RInv): none is older than the pull that stored the position by more    *)
(* than the timeouts of the transactions involved.                         *)
(***************************************************************************)
EXTENDS ChangeFeed, NumberFacts, FiniteSetTheorems, TLAPS

\* Transactions that may still commit rows: the running ones and those to come.
Unended == running \cup {nextXid}

\* change_log ids are a sequence: below nextId, and no two rows share one.
IdsAreUnique ==
  /\ \A r \in staged \cup committed : r.id < nextId
  /\ \A r, s \in staged \cup committed : r.id = s.id => r = s

\* No row still to be committed can land at or behind the position.
SettledAmong(position, live) ==
  \A y \in live : /\ position.txid <= y
                  /\ position.id > 0 => position.txid < y
Settled(position) == SettledAmong(position, Unended)

CursorOK(d) == Settled(cursor[d]) /\ Covered(cursor[d], has[d] \cup missed[d], gap[d])
StoredOK(d) ==
  Settled(lastSyncXmin[d]) /\ Covered(lastSyncXmin[d], presumed[d].given, presumed[d].gap)
BackupOK(d) ==
  /\ Settled(backup[d].cursor)
  /\ Covered(backup[d].cursor, backup[d].has \cup backup[d].missed, backup[d].gap)

\* What a page read is, wherever the request's cursor came from.
PageOK(d) ==
  pc[d] = "read" =>
    /\ page[d] \subseteq committed
    /\ more[d] => page[d] # {}
    /\ \A y \in Unended : xmin[d] <= y
    /\ \A r \in page[d] : r.txid < xmin[d]

TInv == TypeOK /\ IdsAreUnique /\ \A d \in Devices : PageOK(d)

\* A pull goes by the position it decided on.
FromOK(d) == pc[d] \in {"allowed", "read", "paged"} => from[d] = Position(d)

\* Between the rows query and the cursor: the page holds every settled row after
\* the pull's position, or more of them follow every row of the page.
ReadOK(d) ==
  pc[d] = "read" =>
    \A r \in InDataset(changeLog) :
      r.txid < xmin[d] /\ Before(from[d], r) =>
        r \in page[d] \/ (more[d] /\ \A s \in page[d] : Before(s, r))

PagedOK(d) ==
  pc[d] = "paged" =>
    /\ Settled(next[d])
    /\ Covered(next[d], Presumed(d).given \cup page[d], Presumed(d).gap \cup SteppedOver(d))

DeltaOK(d) == pc[d] = "delta" => next[d] = lastSyncXmin[d]

DatasetOK(d) ==
  /\ pc[d] \in {"marked", "reading", "dataset"} => next[d].id = 0 /\ Settled(next[d])
  /\ pc[d] \in {"reading", "dataset"} => Covered(next[d], page[d], {})

RequestOK(d) == FromOK(d) /\ ReadOK(d) /\ PagedOK(d) /\ DeltaOK(d) /\ DatasetOK(d)
DeviceOK(d)  == CursorOK(d) /\ StoredOK(d) /\ BackupOK(d) /\ RequestOK(d)

IInv == TInv /\ \A d \in Devices : DeviceOK(d)

-----------------------------------------------------------------------------
(* Facts about the operators.                                              *)

\* The watermark is a transaction that has not ended, and no other is below it.
LEMMA WatermarkIsLeast ==
  ASSUME TypeOK
  PROVE  /\ Watermark \in Unended /\ Watermark \in Nat
         /\ \A y \in Unended : Watermark <= y
<1>1. Unended \in SUBSET Nat /\ Unended # {}
  BY DEF TypeOK, Unended
<1>2. \E m \in Unended : \A y \in Unended : m <= y
  BY <1>1, LeastExists
<1> QED BY <1>1, <1>2 DEF Watermark, Unended

\* A nonempty set of committed rows has a last one in keyset order.
LEMMA LastOfExists ==
  ASSUME TypeOK, IdsAreUnique, NEW rows, rows \subseteq committed, rows # {}
  PROVE  LastOf(rows) \in rows
<1>1. \A r \in rows : r.txid \in Nat /\ r.id \in Nat /\ r.txid <= nextXid /\ r.id <= nextId
  BY DEF TypeOK, IdsAreUnique, Row
<1>2. nextXid \in Nat /\ nextId \in Nat
  BY DEF TypeOK
<1> DEFINE X == {r.txid : r \in rows}
<1>3. PICK m \in X : \A y \in X : y <= m
  <2>1. X \in SUBSET Nat /\ X # {} /\ \A y \in X : y <= nextXid
    BY <1>1
  <2> HIDE DEF X
  <2> QED BY <1>2, <2>1, GreatestExists
<1> DEFINE L == {r \in rows : r.txid = m}
           I == {r.id : r \in L}
<1>4. PICK k \in I : \A y \in I : y <= k
  <2>1. I \in SUBSET Nat /\ I # {} /\ \A y \in I : y <= nextId
    BY <1>1, <1>3
  <2> HIDE DEF I
  <2> QED BY <1>2, <2>1, GreatestExists
<1>5. PICK r \in rows : r.txid = m /\ r.id = k
  BY <1>4
<1>6. \A s \in rows : s = r \/ Before(s, r)
  <2> SUFFICES ASSUME NEW s \in rows, s # r
               PROVE  Before(s, r)
    OBVIOUS
  <2>1. s.txid <= r.txid
    BY <1>3, <1>5
  <2>2. s.txid = r.txid => s.id <= r.id
    BY <1>4, <1>5
  <2>3. s.id # r.id
    BY DEF IdsAreUnique
  <2> QED BY <1>1, <2>1, <2>2, <2>3 DEF Before
<1> QED BY <1>6 DEF LastOf

\* A truncated page is not empty.
LEMMA TruncatedPageNotEmpty ==
  ASSUME NEW rows, NEW kept, IsPage(rows, kept), kept # rows
  PROVE  kept # {}
<1> SUFFICES ASSUME kept = {} PROVE FALSE
  OBVIOUS
<1>1. Cardinality(kept) = 0
  BY FS_EmptySet
<1>2. Cardinality(kept) < PageLimit
  BY <1>1, FeedAssumption DEF FeedAssumption
<1> QED BY <1>2 DEF IsPage

-----------------------------------------------------------------------------
(* Type correctness.                                                       *)

LEMMA TypeInit == Init => TypeOK
<1> SUFFICES ASSUME Init PROVE TypeOK
  OBVIOUS
<1>1. NoCursor \in Cursor /\ Never \in Nat
  BY DEF NoCursor, Cursor, Never
<1> QED BY <1>1 DEF Init, TypeOK

\* The database half of TypeOK, and the parts only the devices touch.
DbTypeOK ==
  /\ nextXid \in Nat \ {0} /\ nextId \in Nat \ {0} /\ now \in Nat \ {0}
  /\ running \subseteq 1 .. nextXid - 1
  /\ began \in [running -> Nat]
  /\ \A r \in staged : r.txid \in running
  /\ \A r \in committed : r.txid \in 1 .. nextXid - 1 /\ r.txid \notin running
  /\ changeLog \subseteq committed
  /\ staged \in SUBSET Row /\ changeLog \in SUBSET Row /\ committed \in SUBSET Row
DeviceTypeOK ==
  /\ known \in SUBSET Devices /\ revoked \in SUBSET Devices
  /\ lastSyncXmin \in [Devices -> Cursor] /\ lastPulledAt \in [Devices -> Nat]
  /\ presumed \in [Devices -> [given : SUBSET Row, gap : SUBSET Nat]]
AppTypeOK ==
  /\ cursor \in [Devices -> Cursor]
  /\ has \in [Devices -> SUBSET Row] /\ gap \in [Devices -> SUBSET Nat]
  /\ missed \in [Devices -> SUBSET Row]
  /\ backup \in [Devices -> [cursor : Cursor, has : SUBSET Row, gap : SUBSET Nat, missed : SUBSET Row]]
RequestTypeOK ==
  /\ pc \in [Devices -> InServer \cup {"idle", "snapshotRequired", "delta", "dataset"}]
  /\ asked \in [Devices -> Nat]
  /\ from \in [Devices -> Cursor] /\ page \in [Devices -> SUBSET Row]
  /\ more \in [Devices -> BOOLEAN] /\ xmin \in [Devices -> Nat] /\ next \in [Devices -> Cursor]

LEMMA TypeParts ==
  /\ TypeOK <=> DbTypeOK /\ DeviceTypeOK /\ AppTypeOK /\ RequestTypeOK
  /\ TypeOK' <=> DbTypeOK' /\ DeviceTypeOK' /\ AppTypeOK' /\ RequestTypeOK'
BY DEF TypeOK, DbTypeOK, DeviceTypeOK, AppTypeOK, RequestTypeOK

\* Writers and the clock.
LEMMA DbTypeStep ==
  ASSUME TypeOK, WriterStep \/ Tick \/ PruneChangeLog
  PROVE  TypeOK'
<1> USE TypeParts
<1>1. DeviceTypeOK' /\ AppTypeOK' /\ RequestTypeOK'
  BY DEF WriterStep, BeginWrite, RecordMany, CommitWrite, RollBack, Tick, PruneChangeLog,
         deviceVars, appVars, requestVars, DeviceTypeOK, AppTypeOK, RequestTypeOK
<1>2. CASE BeginWrite
  <2>1. began' \in [running' -> Nat]
    BY <1>2 DEF BeginWrite, DbTypeOK
  <2> QED BY <1>1, <1>2, <2>1 DEF BeginWrite, DbTypeOK
<1>3. ASSUME NEW x \in running, NEW e \in Entities, RecordMany(x, e)
      PROVE  TypeOK'
  <2> DEFINE r == [txid |-> x, id |-> nextId, entity |-> e, at |-> began[x]]
  <2>1. r \in Row /\ r.txid = x
    BY DEF DbTypeOK, Row
  <2>2. staged' = staged \cup {r}
    BY <1>3 DEF RecordMany
  <2> QED BY <1>1, <1>3, <2>1, <2>2 DEF RecordMany, DbTypeOK
<1>4. ASSUME NEW x \in running, CommitWrite(x)
      PROVE  TypeOK'
  BY <1>1, <1>4 DEF CommitWrite, StagedBy, DbTypeOK
<1>5. ASSUME NEW x \in running, RollBack(x)
      PROVE  TypeOK'
  BY <1>1, <1>5 DEF RollBack, StagedBy, DbTypeOK
<1>6. CASE Tick
  BY <1>1, <1>6 DEF Tick, DbTypeOK
<1>7. CASE PruneChangeLog
  BY <1>1, <1>7 DEF PruneChangeLog, DbTypeOK
<1> QED BY <1>2, <1>3, <1>4, <1>5, <1>6, <1>7 DEF WriterStep

\* The cursor an answer carries is a cursor.
LEMMA NextCursorType ==
  ASSUME TInv, NEW d \in Devices, pc[d] = "read"
  PROVE  NextCursor(page[d], more[d], Watermark) \in Cursor
<1>1. Watermark \in Nat
  BY WatermarkIsLeast DEF TInv
<1>2. more[d] => LastOf(page[d]) \in Row
  BY LastOfExists DEF TInv, PageOK, TypeOK
<1> QED BY <1>1, <1>2 DEF NextCursor, Cursor, Row

\* What a device is taken to hold, and what a drained pull steps over.
LEMMA PresumedType ==
  ASSUME TypeOK, NEW d \in Devices
  PROVE  Presumed(d).given \in SUBSET Row /\ Presumed(d).gap \in SUBSET Nat
BY DEF TypeOK, Presumed

LEMMA SteppedType ==
  ASSUME TypeOK, NEW d \in Devices
  PROVE  SteppedOver(d) \subseteq Nat
BY DEF TypeOK, SteppedOver, Cursor

\* Every step of a device.
LEMMA DeviceTypeStep ==
  ASSUME TInv, NEW d \in Devices, DeviceStep(d)
  PROVE  TypeOK'
<1> USE TypeParts
<1>0. TypeOK /\ Watermark \in Nat /\ NoCursor \in Cursor /\ [txid |-> Watermark, id |-> 0] \in Cursor
  BY WatermarkIsLeast DEF TInv, NoCursor, Cursor
<1>1. DbTypeOK'
  BY <1>0 DEF DeviceStep, Register, Revoke, PullDecide, PullRows, PullCursor, PullFinish, ApplyDelta, BootstrapMark,
              BootstrapRead, BootstrapFinish, ApplyDataset, LoseAnswer, BackUp, Restore,
              dbVars, DbTypeOK
<1>2. CASE Register(d)
  BY <1>0, <1>1, <1>2 DEF Register, appVars, requestVars, DeviceTypeOK, AppTypeOK, RequestTypeOK
<1>3. CASE Revoke(d)
  BY <1>0, <1>1, <1>3 DEF Revoke, appVars, requestVars, DeviceTypeOK, AppTypeOK, RequestTypeOK
<1>4. CASE PullDecide(d)
  <2>1. DeviceTypeOK' /\ AppTypeOK'
    BY <1>0, <1>4 DEF PullDecide, deviceVars, appVars, DeviceTypeOK, AppTypeOK
  <2>2. Position(d) \in Cursor /\ now \in Nat
    BY <1>0 DEF Position, DbTypeOK, DeviceTypeOK, AppTypeOK
  <2> QED BY <1>0, <1>1, <1>4, <2>1, <2>2 DEF PullDecide, InServer, RequestTypeOK
<1>14. CASE PullRows(d)
  <2>1. DeviceTypeOK' /\ AppTypeOK'
    BY <1>0, <1>14 DEF PullRows, deviceVars, appVars, DeviceTypeOK, AppTypeOK
  <2>2. Servable(from[d]) \in SUBSET Row
    BY <1>0 DEF Servable, DbTypeOK
  <2> QED BY <1>0, <1>1, <1>14, <2>1, <2>2 DEF PullRows, InServer, RequestTypeOK
<1>15. CASE PullCursor(d)
  <2>1. NextCursor(page[d], more[d], Watermark) \in Cursor
    BY <1>15, NextCursorType DEF PullCursor
  <2>2. AppTypeOK' /\ DeviceTypeOK'
    BY <1>0, <1>15 DEF PullCursor, deviceVars, appVars, DeviceTypeOK, AppTypeOK
  <2> QED BY <1>0, <1>1, <1>15, <2>1, <2>2 DEF PullCursor, InServer, RequestTypeOK
<1>5. CASE PullFinish(d)
  <2>1. next[d] \in Cursor /\ now \in Nat /\ page[d] \in SUBSET Row
    BY <1>0 DEF DbTypeOK, RequestTypeOK
  <2>2. Presumed(d).given \in SUBSET Row /\ Presumed(d).gap \in SUBSET Nat /\ SteppedOver(d) \subseteq Nat
    BY <1>0, PresumedType, SteppedType
  <2>3. AppTypeOK' /\ DeviceTypeOK'
    BY <1>0, <1>5, <2>1, <2>2 DEF PullFinish, appVars, DeviceTypeOK, AppTypeOK
  <2> QED BY <1>0, <1>1, <1>5, <2>1, <2>3 DEF PullFinish, RequestTypeOK
<1>6. CASE ApplyDelta(d)
  <2>1. /\ presumed[d].gap \in SUBSET Nat /\ presumed[d].given \in SUBSET Row
        /\ page[d] \in SUBSET Row /\ next[d] \in Cursor
    BY <1>0 DEF DeviceTypeOK, RequestTypeOK
  <2>2. AppTypeOK' /\ DeviceTypeOK'
    BY <1>0, <1>6, <2>1 DEF ApplyDelta, deviceVars, DeviceTypeOK, AppTypeOK
  <2> QED BY <1>0, <1>1, <1>6, <2>2 DEF ApplyDelta, EndRequest, RequestTypeOK
<1>7. CASE BootstrapMark(d)
  <2>1. now \in Nat
    BY <1>0 DEF DbTypeOK
  <2> QED BY <1>0, <1>1, <1>7, <2>1
          DEF BootstrapMark, deviceVars, appVars, InServer, DeviceTypeOK, AppTypeOK, RequestTypeOK
<1>8. CASE BootstrapRead(d)
  <2>1. InDataset(committed) \in SUBSET Row
    BY <1>0 DEF InDataset, DbTypeOK
  <2> QED BY <1>0, <1>1, <1>8, <2>1
          DEF BootstrapRead, deviceVars, appVars, InServer, DeviceTypeOK, AppTypeOK, RequestTypeOK
<1>9. CASE BootstrapFinish(d)
  <2>1. /\ InDataset(committed) \in SUBSET Row /\ next[d] \in Cursor /\ now \in Nat
        /\ page[d] \in SUBSET Row
    BY <1>0 DEF InDataset, DbTypeOK, RequestTypeOK
  <2>2. AppTypeOK' /\ DeviceTypeOK'
    BY <1>0, <1>9, <2>1 DEF BootstrapFinish, appVars, DeviceTypeOK, AppTypeOK
  <2> QED BY <1>0, <1>1, <1>9, <2>1, <2>2 DEF BootstrapFinish, RequestTypeOK
<1>10. CASE ApplyDataset(d)
  <2>1. page[d] \in SUBSET Row /\ next[d] \in Cursor
    BY <1>0 DEF RequestTypeOK
  <2>2. AppTypeOK' /\ DeviceTypeOK'
    BY <1>0, <1>10, <2>1 DEF ApplyDataset, deviceVars, DeviceTypeOK, AppTypeOK
  <2> QED BY <1>0, <1>1, <1>10, <2>2 DEF ApplyDataset, EndRequest, RequestTypeOK
<1>11. CASE LoseAnswer(d)
  BY <1>0, <1>1, <1>11
     DEF LoseAnswer, EndRequest, deviceVars, appVars, DeviceTypeOK, AppTypeOK, RequestTypeOK
<1>12. CASE BackUp(d)
  BY <1>0, <1>1, <1>12 DEF BackUp, deviceVars, requestVars, DeviceTypeOK, AppTypeOK, RequestTypeOK
<1>13. CASE Restore(d)
  BY <1>0, <1>1, <1>13 DEF Restore, deviceVars, requestVars, DeviceTypeOK, AppTypeOK, RequestTypeOK
<1> QED BY <1>2, <1>3, <1>4, <1>5, <1>6, <1>7, <1>8, <1>9, <1>10, <1>11, <1>12, <1>13, <1>14, <1>15
    DEF DeviceStep

LEMMA TypeStep == TInv /\ [Next]_vars => TypeOK'
<1> SUFFICES ASSUME TInv, [Next]_vars PROVE TypeOK'
  OBVIOUS
<1>1. CASE WriterStep \/ Tick \/ PruneChangeLog
  BY <1>1, DbTypeStep DEF TInv
<1>2. ASSUME NEW d \in Devices, DeviceStep(d) PROVE TypeOK'
  BY <1>2, DeviceTypeStep
<1>3. CASE UNCHANGED vars
  BY <1>3 DEF TInv, TypeOK, vars, dbVars, deviceVars, appVars, requestVars
<1> QED BY <1>1, <1>2, <1>3 DEF Next

LEMMA IdsStep == TInv /\ [Next]_vars => IdsAreUnique'
<1> SUFFICES ASSUME TInv, [Next]_vars PROVE IdsAreUnique'
  OBVIOUS
<1>0. IdsAreUnique /\ nextId \in Nat /\ \A r \in staged \cup committed : r.id \in Nat
  BY DEF TInv, TypeOK, Row
<1>1. ASSUME UNCHANGED nextId, staged' \cup committed' \subseteq staged \cup committed
      PROVE  IdsAreUnique'
  BY <1>0, <1>1 DEF IdsAreUnique
<1>2. ASSUME NEW x \in running, NEW e \in Entities, RecordMany(x, e)
      PROVE  IdsAreUnique'
  <2> DEFINE r == [txid |-> x, id |-> nextId, entity |-> e, at |-> began[x]]
  <2>1. r.id = nextId /\ staged' = staged \cup {r} /\ committed' = committed /\ nextId' = nextId + 1
    BY <1>2 DEF RecordMany
  <2> HIDE DEF r
  <2> QED BY <1>0, <2>1 DEF IdsAreUnique
<1>3. ASSUME NEW x \in running, CommitWrite(x) \/ RollBack(x)
      PROVE  IdsAreUnique'
  BY <1>1, <1>3 DEF CommitWrite, RollBack, StagedBy
<1>4. CASE BeginWrite \/ Tick \/ PruneChangeLog
  BY <1>1, <1>4 DEF BeginWrite, Tick, PruneChangeLog
<1>5. ASSUME NEW d \in Devices, DeviceStep(d) PROVE IdsAreUnique'
  BY <1>1, <1>5 DEF DeviceStep, Register, Revoke, PullDecide, PullRows, PullCursor, PullFinish, ApplyDelta, BootstrapMark,
              BootstrapRead, BootstrapFinish, ApplyDataset, LoseAnswer, BackUp, Restore, dbVars
<1>6. CASE UNCHANGED vars
  BY <1>1, <1>6 DEF vars, dbVars
<1> QED BY <1>2, <1>3, <1>4, <1>5, <1>6 DEF Next, WriterStep

\* Of the transactions that may still commit, a step only ends some or adds one
\* above them all.
UnendedOnlyRise ==
  \A y \in Unended' : y \in Nat /\ (y \in Unended \/ \A x \in Unended : x < y)

LEMMA UnendedStep ==
  ASSUME TypeOK, [Next]_vars
  PROVE  UnendedOnlyRise
<1>0. nextXid \in Nat /\ running \subseteq 1 .. nextXid - 1
  BY DEF TypeOK
<1>1. CASE BeginWrite
  BY <1>0, <1>1 DEF BeginWrite, Unended, UnendedOnlyRise
<1>2. nextXid' = nextXid /\ running' \subseteq running => UnendedOnlyRise
  BY <1>0 DEF Unended, UnendedOnlyRise
<1>3. ASSUME NEW x \in running, \/ \E e \in Entities : RecordMany(x, e)
                                \/ CommitWrite(x) \/ RollBack(x)
      PROVE  UnendedOnlyRise
  <2>1. nextXid' = nextXid /\ running' \subseteq running
    BY <1>3 DEF RecordMany, CommitWrite, RollBack
  <2> QED BY <1>2, <2>1
<1>4. CASE Tick \/ PruneChangeLog
  BY <1>2, <1>4 DEF Tick, PruneChangeLog
<1>5. ASSUME NEW d \in Devices, DeviceStep(d)
      PROVE  UnendedOnlyRise
  <2>1. nextXid' = nextXid /\ running' = running
    BY <1>5 DEF DeviceStep, Register, Revoke, PullDecide, PullRows, PullCursor, PullFinish, ApplyDelta, BootstrapMark,
                BootstrapRead, BootstrapFinish, ApplyDataset, LoseAnswer, BackUp, Restore, dbVars
  <2> QED BY <1>2, <2>1
<1>6. CASE UNCHANGED vars
  BY <1>2, <1>6 DEF vars, dbVars
<1> QED BY <1>1, <1>3, <1>4, <1>5, <1>6 DEF Next, WriterStep

\* What a step of one device leaves alone: the database and every other device.
LEMMA DeviceStepFrame ==
  ASSUME TypeOK, NEW d \in Devices, DeviceStep(d)
  PROVE  /\ UNCHANGED dbVars
         /\ \A e \in Devices \ {d} :
              /\ pc'[e] = pc[e] /\ from'[e] = from[e] /\ page'[e] = page[e]
              /\ more'[e] = more[e] /\ xmin'[e] = xmin[e] /\ next'[e] = next[e]
              /\ asked'[e] = asked[e]
              /\ cursor'[e] = cursor[e] /\ has'[e] = has[e] /\ gap'[e] = gap[e]
              /\ missed'[e] = missed[e] /\ backup'[e] = backup[e]
              /\ lastSyncXmin'[e] = lastSyncXmin[e] /\ lastPulledAt'[e] = lastPulledAt[e]
              /\ presumed'[e] = presumed[e]
<1>1. UNCHANGED dbVars
  BY DEF DeviceStep, Register, Revoke, PullDecide, PullRows, PullCursor, PullFinish, ApplyDelta, BootstrapMark,
         BootstrapRead, BootstrapFinish, ApplyDataset, LoseAnswer, BackUp, Restore
<1>2. \A e \in Devices \ {d} :
        /\ pc'[e] = pc[e] /\ from'[e] = from[e] /\ page'[e] = page[e]
        /\ more'[e] = more[e] /\ xmin'[e] = xmin[e] /\ next'[e] = next[e]
        /\ asked'[e] = asked[e]
  BY DEF TypeOK, DeviceStep, Register, Revoke, PullDecide, PullRows, PullCursor, PullFinish, ApplyDelta, BootstrapMark,
         BootstrapRead, BootstrapFinish, ApplyDataset, LoseAnswer, BackUp, Restore,
         EndRequest, requestVars
<1>3. \A e \in Devices \ {d} :
        /\ cursor'[e] = cursor[e] /\ has'[e] = has[e] /\ gap'[e] = gap[e]
        /\ missed'[e] = missed[e] /\ backup'[e] = backup[e]
  BY DEF TypeOK, DeviceStep, Register, Revoke, PullDecide, PullRows, PullCursor, PullFinish, ApplyDelta, BootstrapMark,
         BootstrapRead, BootstrapFinish, ApplyDataset, LoseAnswer, BackUp, Restore, appVars
<1>4. \A e \in Devices \ {d} :
        /\ lastSyncXmin'[e] = lastSyncXmin[e] /\ lastPulledAt'[e] = lastPulledAt[e]
        /\ presumed'[e] = presumed[e]
  BY DEF TypeOK, DeviceStep, Register, Revoke, PullDecide, PullRows, PullCursor, PullFinish, ApplyDelta,
         BootstrapMark, BootstrapRead, BootstrapFinish, ApplyDataset, LoseAnswer, BackUp, Restore,
         deviceVars
<1> QED BY <1>1, <1>2, <1>3, <1>4

\* What a step of the database leaves alone, and that a committed row stays one.
LEMMA DbStepFrame ==
  ASSUME WriterStep \/ Tick \/ PruneChangeLog
  PROVE  UNCHANGED <<deviceVars, appVars, requestVars>> /\ committed \subseteq committed'
<1>1. ASSUME NEW x \in running, \/ \E e \in Entities : RecordMany(x, e)
                                \/ CommitWrite(x) \/ RollBack(x)
      PROVE  UNCHANGED <<deviceVars, appVars, requestVars>> /\ committed \subseteq committed'
  BY <1>1 DEF RecordMany, CommitWrite, RollBack
<1> QED BY <1>1 DEF WriterStep, BeginWrite, Tick, PruneChangeLog

LEMMA PageStep == TInv /\ [Next]_vars => \A e \in Devices : PageOK(e)'
<1> SUFFICES ASSUME TInv, [Next]_vars, NEW e \in Devices PROVE PageOK(e)'
  OBVIOUS
<1>0. TypeOK /\ PageOK(e) /\ UnendedOnlyRise
  BY UnendedStep DEF TInv
<1>1. ASSUME pc'[e] = pc[e], page'[e] = page[e], more'[e] = more[e], xmin'[e] = xmin[e],
             committed \subseteq committed'
      PROVE  PageOK(e)'
  <2>1. CASE pc[e] # "read"
    BY <1>1, <2>1 DEF PageOK
  <2>2. CASE pc[e] = "read"
    <3>1. \A y \in Unended' : xmin[e] <= y
      <4> SUFFICES ASSUME NEW y \in Unended' PROVE xmin[e] <= y
        OBVIOUS
      <4>1. nextXid \in Unended /\ nextXid \in Nat /\ xmin[e] \in Nat /\ y \in Nat
        BY <1>0 DEF Unended, UnendedOnlyRise, TypeOK
      <4>2. y \in Unended \/ nextXid < y
        BY <1>0, <4>1 DEF UnendedOnlyRise
      <4>3. \A z \in Unended : xmin[e] <= z
        BY <1>0, <2>2 DEF PageOK
      <4> QED BY <4>1, <4>2, <4>3
    <3> QED BY <1>0, <1>1, <2>2, <3>1 DEF PageOK
  <2> QED BY <2>1, <2>2
<1>2. CASE WriterStep \/ Tick \/ PruneChangeLog
  BY <1>1, <1>2, DbStepFrame DEF requestVars
<1>3. CASE UNCHANGED vars
  BY <1>1, <1>3 DEF vars, requestVars, dbVars
<1>4. ASSUME NEW d \in Devices, DeviceStep(d)
      PROVE  PageOK(e)'
  <2>0. committed' = committed /\ Unended' = Unended
    BY <1>0, <1>4, DeviceStepFrame DEF dbVars, Unended
  <2>1. CASE e # d
    BY <1>0, <1>1, <1>4, <2>0, <2>1, DeviceStepFrame
  <2>2. CASE e = d /\ UNCHANGED requestVars
    BY <1>1, <2>0, <2>2 DEF requestVars
  <2>3. CASE e = d /\ PullRows(d)
    <3>1. PICK kept \in SUBSET Servable(from[d]) :
            /\ IsPage(Servable(from[d]), kept)
            /\ page'[d] = kept
            /\ more'[d] = (kept # Servable(from[d]))
      BY <1>0, <2>3 DEF PullRows, TypeOK
    <3>2. more'[d] => kept # {}
      BY <3>1, TruncatedPageNotEmpty
    <3>3. kept \subseteq committed /\ \A r \in kept : r.txid < Watermark
      BY <1>0, <3>1 DEF Servable, TypeOK
    <3>4. xmin'[d] = Watermark
      BY <1>0, <2>3 DEF PullRows, TypeOK
    <3> QED BY <1>0, <2>0, <2>3, <3>1, <3>2, <3>3, <3>4, WatermarkIsLeast DEF PageOK
  <2>4. e = d => \/ pc'[d] # "read" \/ UNCHANGED requestVars
                 \/ PullRows(d)
    BY <1>0, <1>4 DEF TypeOK, DeviceStep, Register, Revoke, PullDecide, PullCursor, PullFinish, ApplyDelta,
         BootstrapMark, BootstrapRead, BootstrapFinish, ApplyDataset, LoseAnswer, BackUp,
         Restore, EndRequest
  <2> QED BY <2>1, <2>2, <2>3, <2>4 DEF PageOK
<1> QED BY <1>2, <1>3, <1>4 DEF Next

LEMMA TInvInvariant == Spec => []TInv
<1>1. Init => TInv
  <2> SUFFICES ASSUME Init PROVE TInv
    OBVIOUS
  <2>1. TypeOK
    BY TypeInit
  <2> QED BY <2>1 DEF TInv, Init, IdsAreUnique, PageOK
<1>2. TInv /\ [Next]_vars => TInv'
  BY TypeStep, IdsStep, PageStep DEF TInv
<1> QED BY <1>1, <1>2, PTL DEF Spec

\* The shape of the state, and that a row is staged only by a running transaction
\* and committed only by an ended one (ChangeLogService.recordMany inside the
\* caller's transaction).
THEOREM TypeCorrect == Spec => []TypeOK
<1>1. TInv => TypeOK
  BY DEF TInv
<1> QED BY <1>1, TInvInvariant, PTL

-----------------------------------------------------------------------------
(* Nothing is skipped but in two ways.                                     *)

\* A settled position stays settled.
LEMMA SettledStays ==
  ASSUME TypeOK, UnendedOnlyRise
  PROVE  \A p \in Cursor : Settled(p) => SettledAmong(p, Unended')
<1> SUFFICES ASSUME NEW p \in Cursor, Settled(p), NEW y \in Unended'
             PROVE  p.txid <= y /\ (p.id > 0 => p.txid < y)
  BY DEF SettledAmong
<1>1. p.txid \in Nat /\ nextXid \in Nat /\ nextXid \in Unended /\ y \in Nat
  BY DEF Cursor, Unended, UnendedOnlyRise, TypeOK
<1>2. \A x \in Unended : p.txid <= x /\ (p.id > 0 => p.txid < x)
  BY DEF Settled, SettledAmong
<1>3. y \in Unended \/ nextXid < y
  BY <1>1 DEF UnendedOnlyRise
<1> QED BY <1>1, <1>2, <1>3

\* A row that appears in the table belongs to a transaction that was running.
NewRowsWereRunning ==
  \A r \in changeLog' : r \in changeLog \/ (r \in Row /\ r.txid \in running)

LEMMA ChangeLogStep ==
  ASSUME TypeOK, [Next]_vars
  PROVE  NewRowsWereRunning
<1>1. changeLog' \subseteq changeLog => NewRowsWereRunning
  BY DEF NewRowsWereRunning
<1>2. ASSUME NEW x \in running, CommitWrite(x)
      PROVE  NewRowsWereRunning
  BY <1>2 DEF CommitWrite, StagedBy, NewRowsWereRunning, TypeOK
<1>3. ASSUME NEW x \in running, RollBack(x) \/ \E e \in Entities : RecordMany(x, e)
      PROVE  NewRowsWereRunning
  BY <1>1, <1>3 DEF RollBack, RecordMany
<1>4. CASE BeginWrite \/ Tick \/ PruneChangeLog
  BY <1>1, <1>4 DEF BeginWrite, Tick, PruneChangeLog
<1>5. ASSUME NEW d \in Devices, DeviceStep(d)
      PROVE  NewRowsWereRunning
  BY <1>1, <1>5, DeviceStepFrame DEF dbVars
<1>6. CASE UNCHANGED vars
  BY <1>1, <1>6 DEF vars, dbVars
<1> QED BY <1>2, <1>3, <1>4, <1>5, <1>6 DEF Next, WriterStep

\* What a settled position covers, it goes on covering.
CoveredIn(rows, position, given, stepped) ==
  \A r \in InDataset(rows) : ~ Before(position, r) => r \in given \/ r.txid \in stepped

LEMMA CoveredIsIn ==
  \A p, g, t : Covered(p, g, t) <=> CoveredIn(changeLog, p, g, t)
BY DEF Covered, CoveredIn, Passed, InDataset

LEMMA CoveredStays ==
  ASSUME TypeOK, NewRowsWereRunning
  PROVE  \A p \in Cursor : \A g, t :
           Settled(p) /\ CoveredIn(changeLog, p, g, t) => CoveredIn(changeLog', p, g, t)
<1> SUFFICES ASSUME NEW p \in Cursor, NEW g, NEW t, Settled(p), CoveredIn(changeLog, p, g, t),
                    NEW r \in InDataset(changeLog'), ~ Before(p, r)
             PROVE  r \in g \/ r.txid \in t
  BY DEF CoveredIn
<1>1. CASE r \in changeLog
  BY <1>1 DEF CoveredIn, InDataset
<1>2. CASE r \in Row /\ r.txid \in running
  <2>1. p.txid <= r.txid /\ (p.id > 0 => p.txid < r.txid)
    BY <1>2 DEF Settled, SettledAmong, Unended
  <2>2. p.txid \in Nat /\ p.id \in Nat /\ r.txid \in Nat /\ r.id \in Nat \ {0}
    BY <1>2 DEF Cursor, Row
  <2>3. Before(p, r)
    BY <2>1, <2>2 DEF Before
  <2> QED BY <2>3
<1> QED BY <1>1, <1>2 DEF NewRowsWereRunning, InDataset

\* A step of the database preserves what every device's positions promise.
LEMMA DbSkipStep ==
  ASSUME IInv, TInv', WriterStep \/ Tick \/ PruneChangeLog, NEW e \in Devices
  PROVE  DeviceOK(e)'
<1>0. TypeOK /\ UnendedOnlyRise /\ NewRowsWereRunning /\ DeviceOK(e) /\ PageOK(e)
  BY UnendedStep, ChangeLogStep DEF IInv, TInv, Next
<1>1. UNCHANGED <<deviceVars, appVars, requestVars>>
  BY DbStepFrame
<1>2. \A p \in Cursor : Settled(p) => SettledAmong(p, Unended')
  BY <1>0, SettledStays
<1>3. \A p \in Cursor : \A g, t :
        Settled(p) /\ CoveredIn(changeLog, p, g, t) => CoveredIn(changeLog', p, g, t)
  BY <1>0, CoveredStays
<1>4. /\ cursor[e] \in Cursor /\ backup[e].cursor \in Cursor /\ next[e] \in Cursor
      /\ lastSyncXmin[e] \in Cursor
      /\ cursor' = cursor /\ has' = has /\ gap' = gap /\ missed' = missed /\ backup' = backup
      /\ lastSyncXmin' = lastSyncXmin /\ presumed' = presumed
      /\ pc' = pc /\ from' = from /\ page' = page /\ more' = more /\ xmin' = xmin /\ next' = next
  BY <1>0, <1>1 DEF TypeOK, deviceVars, appVars, requestVars
<1>5. CursorOK(e)' /\ StoredOK(e)' /\ BackupOK(e)'
  <2>1. Settled(cursor[e]) /\ CoveredIn(changeLog, cursor[e], has[e] \cup missed[e], gap[e])
    BY <1>0, CoveredIsIn DEF DeviceOK, CursorOK
  <2>2. /\ Settled(backup[e].cursor)
        /\ CoveredIn(changeLog, backup[e].cursor, backup[e].has \cup backup[e].missed, backup[e].gap)
    BY <1>0, CoveredIsIn DEF DeviceOK, BackupOK
  <2>3. /\ Settled(lastSyncXmin[e])
        /\ CoveredIn(changeLog, lastSyncXmin[e], presumed[e].given, presumed[e].gap)
    BY <1>0, CoveredIsIn DEF DeviceOK, StoredOK
  <2>4. /\ SettledAmong(cursor[e], Unended')
        /\ CoveredIn(changeLog', cursor[e], has[e] \cup missed[e], gap[e])
    BY <1>2, <1>3, <1>4, <2>1
  <2>5. /\ SettledAmong(backup[e].cursor, Unended')
        /\ CoveredIn(changeLog', backup[e].cursor, backup[e].has \cup backup[e].missed, backup[e].gap)
    BY <1>2, <1>3, <1>4, <2>2
  <2>6. /\ SettledAmong(lastSyncXmin[e], Unended')
        /\ CoveredIn(changeLog', lastSyncXmin[e], presumed[e].given, presumed[e].gap)
    BY <1>2, <1>3, <1>4, <2>3
  <2>7. CursorOK(e)'
    BY <1>4, <2>4 DEF CursorOK, Settled, Covered, CoveredIn, Passed, InDataset
  <2>8. StoredOK(e)'
    BY <1>4, <2>6 DEF StoredOK, Settled, Covered, CoveredIn, Passed, InDataset
  <2>9. BackupOK(e)'
    BY <1>4, <2>5 DEF BackupOK, Settled, Covered, CoveredIn, Passed, InDataset
  <2> QED BY <2>7, <2>8, <2>9
<1>6. FromOK(e)' /\ DeltaOK(e)'
  BY <1>0, <1>4 DEF DeviceOK, RequestOK, FromOK, DeltaOK, Position
<1>7. ReadOK(e)'
  <2> SUFFICES ASSUME pc[e] = "read", NEW r \in InDataset(changeLog'),
                      r.txid < xmin[e], Before(from[e], r)
               PROVE  r \in page[e] \/ (more[e] /\ \A s \in page[e] : Before(s, r))
    BY <1>4 DEF ReadOK, InDataset
  <2>1. r \in changeLog
    <3> SUFFICES ASSUME r \in Row, r.txid \in running PROVE FALSE
      BY <1>0 DEF NewRowsWereRunning, InDataset
    <3>1. xmin[e] <= r.txid
      BY <1>0 DEF PageOK, Unended
    <3> QED BY <1>0, <3>1 DEF TypeOK, Row
  <2> QED BY <1>0, <2>1 DEF ReadOK, DeviceOK, RequestOK, InDataset
<1>8. PagedOK(e)'
  <2> SUFFICES ASSUME pc[e] = "paged" PROVE PagedOK(e)'
    BY <1>4 DEF PagedOK
  <2> DEFINE g == Presumed(e).given \cup page[e]
             t == Presumed(e).gap \cup SteppedOver(e)
  <2>1. Settled(next[e]) /\ CoveredIn(changeLog, next[e], g, t)
    BY <1>0, CoveredIsIn DEF DeviceOK, RequestOK, PagedOK
  <2>2. g' = g /\ t' = t
    BY <1>4 DEF SteppedOver, Presumed
  <2> HIDE DEF g, t
  <2>3. SettledAmong(next[e], Unended') /\ CoveredIn(changeLog', next[e], g, t)
    BY <1>2, <1>3, <1>4, <2>1
  <2>4. Settled(next[e])' /\ Covered(next[e], g, t)'
    BY <1>4, <2>2, <2>3 DEF Settled, Covered, CoveredIn, Passed, InDataset
  <2> QED BY <2>4 DEF PagedOK, g, t
<1>9. DatasetOK(e)'
  <2>1. pc[e] \in {"marked", "reading", "dataset"} => next[e].id = 0 /\ SettledAmong(next[e], Unended')
    BY <1>0, <1>2, <1>4 DEF DeviceOK, RequestOK, DatasetOK
  <2>2. pc[e] \in {"reading", "dataset"} => CoveredIn(changeLog', next[e], page[e], {})
    BY <1>0, <1>3, <1>4, CoveredIsIn DEF DeviceOK, RequestOK, DatasetOK
  <2> QED BY <1>4, <2>1, <2>2 DEF DatasetOK, Settled, Covered, CoveredIn, Passed, InDataset
<1> QED BY <1>5, <1>6, <1>7, <1>8, <1>9 DEF DeviceOK, RequestOK

\* Nothing is behind a null cursor.
LEMMA NoCursorCovers ==
  ASSUME TypeOK
  PROVE  \A g, t : Settled(NoCursor) /\ Covered(NoCursor, g, t)
<1>1. Unended \subseteq Nat
  BY DEF TypeOK, Unended
<1>2. \A r \in changeLog : Before(NoCursor, r)
  BY DEF TypeOK, Row, NoCursor, Before
<1> QED BY <1>1, <1>2 DEF NoCursor, Settled, SettledAmong, Covered, Passed, InDataset

\* The watermark, as a position, is settled, and so is the last row of a page.
LEMMA NextCursorSettled ==
  ASSUME TInv, NEW d \in Devices, pc[d] = "read"
  PROVE  Settled(NextCursor(page[d], more[d], Watermark))
<1>0. TypeOK /\ IdsAreUnique /\ PageOK(d)
  BY DEF TInv
<1>1. CASE more[d]
  <2>1. LastOf(page[d]) \in page[d] /\ LastOf(page[d]) \in Row
    BY <1>0, <1>1, LastOfExists DEF PageOK, TypeOK
  <2>2. LastOf(page[d]).txid < xmin[d] /\ \A y \in Unended : xmin[d] <= y
    BY <1>0, <2>1 DEF PageOK
  <2>3. LastOf(page[d]).txid \in Nat /\ xmin[d] \in Nat /\ \A y \in Unended : y \in Nat
    BY <1>0, <2>1 DEF Row, TypeOK, Unended
  <2> QED BY <1>1, <2>2, <2>3 DEF NextCursor, Settled, SettledAmong
<1>2. CASE ~ more[d]
  BY <1>0, <1>2, WatermarkIsLeast DEF NextCursor, Settled, SettledAmong
<1> QED BY <1>1, <1>2

\* What a pull goes by is covered: by the device's data, or by what its row presumes.
LEMMA PositionCovers ==
  ASSUME IInv, NEW d \in Devices
  PROVE  Covered(Position(d), Presumed(d).given, Presumed(d).gap)
BY DEF IInv, DeviceOK, CursorOK, StoredOK, Position, Presumed

\* The next cursor of a pull covers what its position did, the page, and on a
\* drained page whatever lies between the two watermarks.
LEMMA PullCursorCovers ==
  ASSUME IInv, NEW d \in Devices, PullCursor(d), NEW r \in InDataset(changeLog),
         ~ Before(next'[d], r)
  PROVE  r \in Presumed(d).given \cup page[d] \/ r.txid \in Presumed(d).gap \cup SteppedOver(d)'
<1>0. /\ TInv /\ TypeOK /\ IdsAreUnique /\ PageOK(d) /\ ReadOK(d) /\ pc[d] = "read"
      /\ from[d] = Position(d)
  BY DEF IInv, TInv, DeviceOK, RequestOK, FromOK, PullCursor
<1>1. r \in Row /\ r.txid \in Nat /\ r.id \in Nat \ {0} /\ xmin[d] \in Nat
  BY <1>0 DEF InDataset, TypeOK, Row
<1>2. next'[d] = NextCursor(page[d], more[d], Watermark) /\ more' = more /\ xmin' = xmin
  BY <1>0 DEF PullCursor, TypeOK
<1>3. CASE ~ Before(from[d], r)
  BY <1>0, <1>3, PositionCovers DEF Covered, Passed, InDataset
<1>4. CASE Before(from[d], r) /\ more[d]
  <2>1. LastOf(page[d]) \in page[d] /\ LastOf(page[d]) \in Row
    BY <1>0, <1>4, LastOfExists DEF PageOK, TypeOK
  <2>2. LastOf(page[d]).txid < xmin[d] /\ LastOf(page[d]).txid \in Nat
    BY <1>0, <2>1 DEF PageOK, Row
  <2>3. next'[d] = [txid |-> LastOf(page[d]).txid, id |-> LastOf(page[d]).id]
    BY <1>2, <1>4 DEF NextCursor
  <2>4. r.txid <= LastOf(page[d]).txid /\ ~ Before(LastOf(page[d]), r)
    BY <1>1, <2>2, <2>3 DEF Before
  <2>5. r.txid < xmin[d]
    BY <1>1, <2>2, <2>4
  <2> QED BY <1>0, <1>4, <2>1, <2>4, <2>5 DEF ReadOK
<1>5. CASE Before(from[d], r) /\ ~ more[d]
  <2>1. next'[d] = [txid |-> Watermark, id |-> 0] /\ Watermark \in Nat
    BY <1>0, <1>2, <1>5, WatermarkIsLeast DEF NextCursor
  <2>2. r.txid < Watermark
    BY <1>1, <2>1 DEF Before
  <2>3. CASE r.txid < xmin[d]
    BY <1>0, <1>5, <2>3 DEF ReadOK
  <2>4. CASE xmin[d] <= r.txid
    <3>1. r.txid \in 1 .. Watermark
      BY <1>1, <2>1, <2>2, <1>0 DEF TypeOK, InDataset
    <3>2. SteppedOver(d)' = {x \in 1 .. Watermark : xmin[d] <= x /\ x < Watermark}
      BY <1>2, <1>5, <2>1 DEF SteppedOver
    <3> QED BY <2>2, <2>4, <3>1, <3>2
  <2> QED BY <1>1, <2>3, <2>4
<1> QED BY <1>3, <1>4, <1>5

\* A step of a device preserves what every device's positions promise.
LEMMA DeviceSkipStep ==
  ASSUME IInv, NEW d \in Devices, DeviceStep(d), NEW e \in Devices
  PROVE  DeviceOK(e)'
<1>0. TInv /\ TypeOK /\ DeviceOK(e) /\ DeviceOK(d) /\ PageOK(d)
  BY DEF IInv, TInv
<1>1. changeLog' = changeLog /\ committed' = committed /\ Unended' = Unended
  BY <1>0, DeviceStepFrame DEF dbVars, Unended
<1>2. \A p, g, t : (Settled(p) => SettledAmong(p, Unended'))
                  /\ (Covered(p, g, t) => CoveredIn(changeLog', p, g, t))
  BY <1>1, CoveredIsIn DEF Settled
<1>3. ASSUME cursor'[e] = cursor[e], has'[e] = has[e], gap'[e] = gap[e], missed'[e] = missed[e]
      PROVE  CursorOK(e)'
  BY <1>0, <1>1, <1>3 DEF DeviceOK, CursorOK, Settled, SettledAmong, Covered, Passed, InDataset
<1>4. ASSUME backup'[e] = backup[e]
      PROVE  BackupOK(e)'
  BY <1>0, <1>1, <1>4 DEF DeviceOK, BackupOK, Settled, SettledAmong, Covered, Passed, InDataset
<1>40. ASSUME lastSyncXmin'[e] = lastSyncXmin[e], presumed'[e] = presumed[e]
       PROVE  StoredOK(e)'
  BY <1>0, <1>1, <1>40 DEF DeviceOK, StoredOK, Settled, SettledAmong, Covered, Passed, InDataset
<1>5. ASSUME pc'[e] \in {"idle", "snapshotRequired"}
      PROVE  RequestOK(e)'
  BY <1>5 DEF RequestOK, FromOK, ReadOK, PagedOK, DeltaOK, DatasetOK
<1>6. ASSUME cursor'[e] = cursor[e], has'[e] = has[e], gap'[e] = gap[e], missed'[e] = missed[e],
             lastSyncXmin'[e] = lastSyncXmin[e], presumed'[e] = presumed[e],
             pc'[e] = pc[e], from'[e] = from[e], page'[e] = page[e],
             more'[e] = more[e], xmin'[e] = xmin[e], next'[e] = next[e]
      PROVE  RequestOK(e)'
  <2>1. FromOK(e)' /\ ReadOK(e)' /\ DeltaOK(e)'
    BY <1>0, <1>1, <1>6 DEF DeviceOK, RequestOK, FromOK, ReadOK, DeltaOK, Position
  <2>2. SteppedOver(e)' = SteppedOver(e) /\ Presumed(e)' = Presumed(e)
    BY <1>6 DEF SteppedOver, Presumed
  <2>3. PagedOK(e)'
    BY <1>0, <1>1, <1>6, <2>2
       DEF DeviceOK, RequestOK, PagedOK, Settled, SettledAmong, Covered, Passed, InDataset
  <2>4. DatasetOK(e)'
    BY <1>0, <1>1, <1>6
       DEF DeviceOK, RequestOK, DatasetOK, Settled, SettledAmong, Covered, Passed, InDataset
  <2> QED BY <2>1, <2>3, <2>4 DEF RequestOK
<1>7. CASE e # d
  <2>1. /\ cursor'[e] = cursor[e] /\ has'[e] = has[e] /\ gap'[e] = gap[e] /\ missed'[e] = missed[e]
        /\ lastSyncXmin'[e] = lastSyncXmin[e] /\ presumed'[e] = presumed[e] /\ backup'[e] = backup[e]
        /\ pc'[e] = pc[e] /\ from'[e] = from[e] /\ page'[e] = page[e]
        /\ more'[e] = more[e] /\ xmin'[e] = xmin[e] /\ next'[e] = next[e]
    BY <1>0, <1>7, DeviceStepFrame
  <2> QED BY <1>3, <1>4, <1>40, <1>6, <2>1 DEF DeviceOK
<1> SUFFICES ASSUME e = d PROVE DeviceOK(d)'
  BY <1>7
<1>8. CASE Register(d) \/ Revoke(d)
  <2>1. UNCHANGED <<appVars, requestVars, lastSyncXmin, presumed>>
    BY <1>8 DEF Register, Revoke
  <2> QED BY <1>3, <1>4, <1>40, <1>6, <2>1 DEF appVars, requestVars, DeviceOK
<1> DEFINE Held == CursorOK(d) /\ StoredOK(d) /\ BackupOK(d)
<1>80. ASSUME UNCHANGED <<deviceVars, appVars>> PROVE Held'
  BY <1>3, <1>4, <1>40, <1>80 DEF deviceVars, appVars
<1>9. CASE PullDecide(d)
  <2>1. Held' /\ Position(d)' = Position(d)
    BY <1>80, <1>9 DEF PullDecide, deviceVars, appVars, Position
  <2>2. CASE pc'[d] = "snapshotRequired"
    BY <1>5, <2>1, <2>2 DEF DeviceOK
  <2>3. CASE pc'[d] = "allowed" /\ from'[d] = Position(d)
    BY <2>1, <2>3 DEF DeviceOK, RequestOK, FromOK, ReadOK, PagedOK, DeltaOK, DatasetOK
  <2> QED BY <1>0, <1>9, <2>2, <2>3 DEF PullDecide, TypeOK
<1>19. CASE PullRows(d)
  <2>1. Held' /\ Position(d)' = Position(d)
    BY <1>80, <1>19 DEF PullRows, deviceVars, appVars, Position
  <2>2. PICK kept \in SUBSET Servable(from[d]) :
          /\ IsPage(Servable(from[d]), kept)
          /\ page'[d] = kept /\ more'[d] = (kept # Servable(from[d]))
    BY <1>0, <1>19 DEF PullRows, TypeOK
  <2>3. pc[d] = "allowed" /\ pc'[d] = "read" /\ from' = from /\ xmin'[d] = Watermark
    BY <1>0, <1>19 DEF PullRows, TypeOK
  <2>4. ReadOK(d)'
    <3> SUFFICES ASSUME NEW r \in InDataset(changeLog), r.txid < Watermark, Before(from[d], r)
                 PROVE  r \in kept \/ (kept # Servable(from[d]) /\ \A s \in kept : Before(s, r))
      BY <1>1, <2>2, <2>3 DEF ReadOK
    <3>1. r \in Servable(from[d])
      BY DEF Servable, InDataset
    <3> QED BY <2>2, <3>1 DEF IsPage
  <2>5. FromOK(d)'
    BY <1>0, <2>1, <2>3 DEF DeviceOK, RequestOK, FromOK
  <2> QED BY <2>1, <2>3, <2>4, <2>5 DEF DeviceOK, RequestOK, PagedOK, DeltaOK, DatasetOK
<1>20. CASE PullCursor(d)
  <2>1. Held' /\ Position(d)' = Position(d) /\ Presumed(d)' = Presumed(d)
    BY <1>80, <1>20 DEF PullCursor, deviceVars, appVars, Position, Presumed
  <2>2. /\ pc[d] = "read" /\ pc'[d] = "paged" /\ page' = page /\ from' = from
        /\ next'[d] = NextCursor(page[d], more[d], Watermark)
    BY <1>0, <1>20 DEF PullCursor, TypeOK
  <2>3. Settled(next[d])'
    BY <1>0, <1>1, <2>2, NextCursorSettled DEF Settled
  <2>4. \A r \in InDataset(changeLog) : ~ Before(next'[d], r) =>
          r \in Presumed(d).given \cup page[d] \/ r.txid \in Presumed(d).gap \cup SteppedOver(d)'
    BY <1>20, PullCursorCovers
  <2>5. PagedOK(d)'
    BY <1>1, <2>1, <2>2, <2>3, <2>4 DEF PagedOK, Covered, Passed, InDataset
  <2>6. FromOK(d)'
    BY <1>0, <2>1, <2>2 DEF DeviceOK, RequestOK, FromOK
  <2> QED BY <2>1, <2>2, <2>5, <2>6 DEF DeviceOK, RequestOK, ReadOK, DeltaOK, DatasetOK
<1>10. CASE PullFinish(d)
  <2>1. /\ UNCHANGED appVars /\ CursorOK(d)' /\ BackupOK(d)'
        /\ pc[d] = "paged" /\ pc'[d] = "delta" /\ next' = next
        /\ lastSyncXmin'[d] = next[d]
        /\ presumed'[d] = [given |-> Presumed(d).given \cup page[d],
                           gap |-> Presumed(d).gap \cup SteppedOver(d)]
    BY <1>0, <1>3, <1>4, <1>10 DEF PullFinish, appVars, TypeOK
  <2>2. Settled(next[d]) /\ Covered(next[d], Presumed(d).given \cup page[d],
                                             Presumed(d).gap \cup SteppedOver(d))
    BY <1>0, <2>1 DEF DeviceOK, RequestOK, PagedOK
  <2>3. StoredOK(d)'
    BY <1>1, <2>1, <2>2 DEF StoredOK, Settled, SettledAmong, Covered, Passed, InDataset
  <2> QED BY <2>1, <2>3 DEF DeviceOK, RequestOK, FromOK, ReadOK, PagedOK, DeltaOK, DatasetOK
<1>11. CASE ApplyDelta(d)
  <2>1. pc'[d] = "idle" /\ BackupOK(d)' /\ StoredOK(d)'
    BY <1>0, <1>4, <1>40, <1>11 DEF ApplyDelta, EndRequest, deviceVars, TypeOK
  <2>2. /\ cursor'[d] = next[d] /\ has'[d] = has[d] \cup page[d]
        /\ gap'[d] = presumed[d].gap /\ missed'[d] = presumed[d].given \ (has[d] \cup page[d])
        /\ pc[d] = "delta"
    BY <1>0, <1>11 DEF ApplyDelta, TypeOK
  <2>3. next[d] = lastSyncXmin[d] /\ StoredOK(d)
    BY <1>0, <2>2 DEF DeviceOK, RequestOK, DeltaOK
  <2>4. CursorOK(d)'
    BY <1>1, <2>2, <2>3 DEF StoredOK, CursorOK, Settled, SettledAmong, Covered, Passed, InDataset
  <2> QED BY <1>5, <2>1, <2>4 DEF DeviceOK
<1>12. CASE BootstrapMark(d)
  <2>1. Held'
    BY <1>80, <1>12 DEF BootstrapMark
  <2>2. pc'[d] = "marked" /\ next'[d] = [txid |-> Watermark, id |-> 0]
    BY <1>0, <1>12 DEF BootstrapMark, TypeOK
  <2>3. next'[d].id = 0 /\ Settled(next[d])'
    BY <1>0, <1>1, <2>2, WatermarkIsLeast DEF Settled, SettledAmong
  <2> QED BY <2>1, <2>2, <2>3 DEF DeviceOK, RequestOK, FromOK, ReadOK, PagedOK, DeltaOK, DatasetOK
<1>13. CASE BootstrapRead(d)
  <2>1. Held'
    BY <1>80, <1>13 DEF BootstrapRead
  <2>2. /\ pc[d] = "marked" /\ pc'[d] = "reading" /\ next'[d] = next[d]
        /\ page'[d] = InDataset(committed)
    BY <1>0, <1>13 DEF BootstrapRead, TypeOK
  <2>3. next[d].id = 0 /\ Settled(next[d])
    BY <1>0, <2>2 DEF DeviceOK, RequestOK, DatasetOK
  <2>4. InDataset(changeLog) \subseteq InDataset(committed)
    BY <1>0 DEF TypeOK, InDataset
  <2>5. Covered(next[d], page[d], {})'
    BY <1>1, <2>2, <2>4 DEF Covered, Passed, InDataset
  <2>6. DatasetOK(d)'
    BY <1>1, <2>2, <2>3, <2>5 DEF DatasetOK, Settled, SettledAmong
  <2> QED BY <2>1, <2>2, <2>6 DEF DeviceOK, RequestOK, FromOK, ReadOK, PagedOK, DeltaOK
<1>14. CASE BootstrapFinish(d)
  <2>1. CursorOK(d)' /\ BackupOK(d)'
    BY <1>3, <1>4, <1>14 DEF BootstrapFinish, appVars
  <2>2. /\ pc[d] = "reading" /\ pc'[d] = "dataset" /\ next'[d] = next[d]
        /\ page[d] \subseteq page'[d] /\ lastSyncXmin'[d] = next[d]
        /\ presumed'[d] = [given |-> page'[d], gap |-> {}]
    BY <1>0, <1>14 DEF BootstrapFinish, TypeOK
  <2>3. next[d].id = 0 /\ Settled(next[d]) /\ Covered(next[d], page[d], {})
    BY <1>0, <2>2 DEF DeviceOK, RequestOK, DatasetOK
  <2>4. DatasetOK(d)'
    BY <1>1, <2>2, <2>3 DEF DatasetOK, Settled, SettledAmong, Covered, Passed, InDataset
  <2>5. StoredOK(d)'
    BY <1>1, <2>2, <2>3 DEF StoredOK, Settled, SettledAmong, Covered, Passed, InDataset
  <2> QED BY <2>1, <2>2, <2>4, <2>5 DEF DeviceOK, RequestOK, FromOK, ReadOK, PagedOK, DeltaOK
<1>15. CASE ApplyDataset(d)
  <2>1. pc'[d] = "idle" /\ BackupOK(d)' /\ StoredOK(d)'
    BY <1>0, <1>4, <1>40, <1>15 DEF ApplyDataset, EndRequest, deviceVars, TypeOK
  <2>2. /\ cursor'[d] \in {next[d], NoCursor} /\ has'[d] = has[d] \cup page[d]
        /\ gap'[d] = {} /\ missed'[d] = {} /\ DatasetOK(d) /\ pc[d] = "dataset"
    BY <1>0, <1>15 DEF ApplyDataset, TypeOK, DeviceOK, RequestOK
  <2>3. Settled(next[d]) /\ Covered(next[d], page[d], {})
    BY <2>2 DEF DatasetOK
  <2>4. Settled(NoCursor) /\ Covered(NoCursor, page[d], {})
    BY <1>0, NoCursorCovers
  <2>5. CursorOK(d)'
    BY <1>1, <2>2, <2>3, <2>4 DEF CursorOK, Settled, SettledAmong, Covered, Passed, InDataset
  <2> QED BY <1>5, <2>1, <2>5 DEF DeviceOK
<1>16. CASE LoseAnswer(d)
  <2>1. Held' /\ pc'[d] = "idle"
    BY <1>0, <1>80, <1>16 DEF LoseAnswer, EndRequest, TypeOK
  <2> QED BY <1>5, <2>1 DEF DeviceOK
<1>17. CASE BackUp(d)
  <2>1. backup'[d] = [cursor |-> cursor[d], has |-> has[d], gap |-> gap[d], missed |-> missed[d]]
    BY <1>0, <1>17 DEF BackUp, TypeOK
  <2>2. BackupOK(d)'
    BY <1>0, <1>1, <2>1
       DEF DeviceOK, CursorOK, BackupOK, Settled, SettledAmong, Covered, Passed, InDataset
  <2>3. UNCHANGED <<deviceVars, cursor, has, gap, missed, requestVars>>
    BY <1>17 DEF BackUp
  <2> QED BY <1>3, <1>40, <1>6, <2>2, <2>3 DEF deviceVars, requestVars, DeviceOK
<1>18. CASE Restore(d)
  <2>1. /\ cursor'[d] = backup[d].cursor /\ has'[d] = backup[d].has /\ gap'[d] = backup[d].gap
        /\ missed'[d] = backup[d].missed /\ pc'[d] = "idle"
        /\ UNCHANGED <<deviceVars, backup>>
    BY <1>0, <1>18 DEF Restore, requestVars, TypeOK
  <2>2. CursorOK(d)'
    BY <1>0, <1>1, <2>1
       DEF DeviceOK, CursorOK, BackupOK, Settled, SettledAmong, Covered, Passed, InDataset
  <2>3. StoredOK(d)' /\ BackupOK(d)'
    BY <1>4, <1>40, <2>1 DEF deviceVars
  <2> QED BY <1>5, <2>1, <2>2, <2>3 DEF DeviceOK
<1> QED BY <1>8, <1>9, <1>10, <1>11, <1>12, <1>13, <1>14, <1>15, <1>16, <1>17, <1>18, <1>19, <1>20
    DEF DeviceStep

\* The inductive invariant.
LEMMA IInvInvariant == Spec => []IInv
<1>1. Init => IInv
  <2> SUFFICES ASSUME Init PROVE IInv
    OBVIOUS
  <2>1. TInv
    BY TypeInit DEF TInv, Init, IdsAreUnique, PageOK
  <2>2. \A d \in Devices : CursorOK(d) /\ StoredOK(d) /\ BackupOK(d)
    BY DEF Init, Unended, NoCursor, Settled, SettledAmong, CursorOK, StoredOK, BackupOK,
           Covered, Passed, InDataset
  <2>3. \A d \in Devices : RequestOK(d)
    BY DEF Init, RequestOK, FromOK, ReadOK, PagedOK, DeltaOK, DatasetOK
  <2> QED BY <2>1, <2>2, <2>3 DEF IInv, DeviceOK
<1>2. IInv /\ [Next]_vars => IInv'
  <2> SUFFICES ASSUME IInv, [Next]_vars PROVE IInv'
    OBVIOUS
  <2>1. TInv'
    BY TypeStep, IdsStep, PageStep DEF IInv, TInv
  <2>2. CASE WriterStep \/ Tick \/ PruneChangeLog
    BY <2>1, <2>2, DbSkipStep DEF IInv
  <2>3. ASSUME NEW d \in Devices, DeviceStep(d) PROVE IInv'
    BY <2>1, <2>3, DeviceSkipStep DEF IInv
  <2>4. CASE UNCHANGED vars
    <3> SUFFICES ASSUME NEW d \in Devices PROVE DeviceOK(d)'
      BY <2>1 DEF IInv
    <3>1. UNCHANGED <<running, nextXid, changeLog, lastSyncXmin, presumed, cursor, has, gap, missed,
                      backup, pc, from, page, more, xmin, next>> /\ DeviceOK(d)
      BY <2>4 DEF IInv, vars, dbVars, deviceVars, appVars, requestVars
    <3>2. CursorOK(d)' /\ StoredOK(d)' /\ BackupOK(d)'
      BY <3>1 DEF DeviceOK, CursorOK, StoredOK, BackupOK, Unended, Settled, SettledAmong, Covered,
             Passed, InDataset
    <3>3. FromOK(d)' /\ ReadOK(d)' /\ DeltaOK(d)'
      BY <3>1 DEF DeviceOK, RequestOK, FromOK, ReadOK, DeltaOK, Position, InDataset
    <3>4. PagedOK(d)' /\ DatasetOK(d)'
      BY <3>1 DEF DeviceOK, RequestOK, PagedOK, DatasetOK, Presumed, SteppedOver, Unended, Settled,
             SettledAmong, Covered, Passed, InDataset
    <3> QED BY <3>2, <3>3, <3>4 DEF DeviceOK, RequestOK
  <2> QED BY <2>2, <2>3, <2>4 DEF Next
<1> QED BY <1>1, <1>2, PTL DEF Spec

\* Every change behind a device's cursor was given to it, except those of transactions
\* its drained pulls stepped over and those of an answer it does not hold and pulled
\* past by asking without a cursor: whatever the number of devices, the page size, the
\* interleaving of writers, pulls, bootstraps and pruning, whatever answers are lost or
\* backups restored, and whether or not first deltas carry a cursor.
THEOREM SkippedInTwo == Spec => []SkippedInTwoWays
<1>1. IInv => SkippedInTwoWays
  BY DEF IInv, DeviceOK, CursorOK, SkippedInTwoWays
<1> QED BY <1>1, IInvInvariant, PTL

-----------------------------------------------------------------------------
(* Retention.  The invariant dates what is not behind a position.  A row   *)
(* carries the time its transaction began.  Transactions take their ids    *)
(* after they began and before they time out, so one with a later id began *)
(* at most a timeout earlier (BeganInOrder); the one the watermark waits   *)
(* for began at most a timeout before the watermark was read; and the      *)
(* request stores the position at most a timeout after that.               *)

\* No transaction outlives its timeout, and a device's dates are not in the future.
InTime ==
  /\ \A x \in running : began[x] <= now /\ now <= began[x] + TxnTimeout
  /\ \A d \in Devices : /\ lastPulledAt[d] <= now
                        /\ pc[d] \in InServer => asked[d] <= now /\ now <= asked[d] + TxnTimeout

\* The job deletes nothing inside the window.
LogIsKept == \A r \in committed : r.at + Retention >= now => r \in changeLog

BeganInOrder == \A x, y \in running : x <= y => began[y] + TxnTimeout >= began[x]

\* No row from a running transaction on is older than that transaction by more than a timeout.
RowsAreRecent ==
  \A x \in running : \A r \in committed \cup staged : r.txid >= x => r.at + TxnTimeout >= began[x]

\* Every committed row from a position on is at most two timeouts older than a time.
FreshFrom(rows, position, time) ==
  \A r \in rows : r.txid >= position.txid => r.at + 2 * TxnTimeout >= time

StoredIsFresh(d) ==
  lastSyncXmin[d].id = 0 =>
    \A r \in committed : r.txid >= lastSyncXmin[d].txid => r.at + 3 * TxnTimeout >= lastPulledAt[d]
NextIsFresh(d) ==
  /\ pc[d] \in {"marked", "reading"} => FreshFrom(committed, next[d], asked[d])
  /\ pc[d] = "paged" /\ next[d].id = 0 => FreshFrom(committed, next[d], asked[d])

\* A pull that was allowed was asked for inside the window.
AllowedInTime(d) == pc[d] = "allowed" => asked[d] < lastPulledAt[d] + Retention

DbInv == InTime /\ LogIsKept /\ BeganInOrder /\ RowsAreRecent
PullInv(d) == StoredIsFresh(d) /\ NextIsFresh(d) /\ AllowedInTime(d)
RInv  == DbInv /\ \A d \in Devices : PullInv(d)

\* Rows and times are numbers.
LEMMA RowTypes ==
  ASSUME TypeOK
  PROVE  /\ now \in Nat \ {0} /\ Retention \in Nat \ {0} /\ TxnTimeout \in Nat /\ nextXid \in Nat
         /\ running \subseteq Nat /\ changeLog \subseteq committed
         /\ \A r \in committed \cup staged : r.txid \in Nat /\ r.at \in Nat /\ r.txid < nextXid
         /\ \A r \in staged : r.txid \in running
         /\ \A x \in running : x < nextXid /\ began[x] \in Nat
         /\ \A d \in Devices : lastPulledAt[d] \in Nat /\ asked[d] \in Nat
BY FeedAssumption DEF FeedAssumption, TypeOK, Row

\* What commits from the watermark on is at most two timeouts old.
LEMMA WatermarkIsFresh ==
  ASSUME TInv, RInv
  PROVE  FreshFrom(committed, [txid |-> Watermark, id |-> 0], now)
<1>1. TypeOK /\ Watermark \in Unended
  BY WatermarkIsLeast DEF TInv
<1> SUFFICES ASSUME NEW r \in committed, r.txid >= Watermark PROVE r.at + 2 * TxnTimeout >= now
  BY DEF FreshFrom
<1>2. r.txid < nextXid /\ r.txid \in Nat /\ nextXid \in Nat /\ r.at \in Nat /\ now \in Nat
  BY <1>1, RowTypes
<1>3. Watermark \in running
  BY <1>1, <1>2 DEF Unended
<1>4. r.at + TxnTimeout >= began[Watermark] /\ now <= began[Watermark] + TxnTimeout
  BY <1>3 DEF RInv, DbInv, InTime, RowsAreRecent
<1>5. began[Watermark] \in Nat /\ TxnTimeout \in Nat
  BY <1>1, <1>3, RowTypes
<1> QED BY <1>2, <1>4, <1>5

\* A row that commits now is at most two timeouts old.
LEMMA StagedIsFresh ==
  ASSUME TypeOK, DbInv, NEW r \in staged
  PROVE  r.at + 2 * TxnTimeout >= now
<1>1. r.txid \in running /\ r.txid \in Nat /\ r.txid >= r.txid /\ r.at \in Nat /\ now \in Nat
  BY RowTypes
<1>2. r.at + TxnTimeout >= began[r.txid] /\ now <= began[r.txid] + TxnTimeout
  BY <1>1 DEF DbInv, InTime, RowsAreRecent
<1>3. began[r.txid] \in Nat /\ TxnTimeout \in Nat
  BY <1>1, RowTypes
<1> QED BY <1>1, <1>2, <1>3

\* A writer's step.
LEMMA RecentBegin ==
  ASSUME TypeOK, DbInv, BeginWrite
  PROVE  DbInv'
<1>1. PICK start \in 1 .. now :
        /\ now <= start + TxnTimeout
        /\ began' = [x \in running \cup {nextXid} |-> IF x = nextXid THEN start ELSE began[x]]
  BY DEF BeginWrite
<1>2. /\ running' = running \cup {nextXid}
      /\ UNCHANGED <<now, committed, staged, changeLog, lastPulledAt, pc, asked>>
  BY DEF BeginWrite, deviceVars, requestVars
<1>3. /\ nextXid \in Nat /\ \A x \in running : x < nextXid /\ x \in Nat /\ began[x] \in Nat
      /\ start \in Nat /\ now \in Nat /\ TxnTimeout \in Nat
      /\ \A r \in committed \cup staged : r.txid < nextXid /\ r.txid \in Nat
  BY <1>1, RowTypes
<1>4. began'[nextXid] = start /\ \A x \in running : began'[x] = began[x]
  BY <1>1, <1>3
<1>5. InTime'
  BY <1>1, <1>2, <1>3, <1>4 DEF DbInv, InTime
<1>6. LogIsKept'
  BY <1>2 DEF DbInv, LogIsKept
<1>7. BeganInOrder'
  <2> SUFFICES ASSUME NEW x \in running', NEW y \in running', x <= y
               PROVE  began'[y] + TxnTimeout >= began'[x]
    BY DEF BeganInOrder
  <2>1. CASE x \in running /\ y \in running
    BY <1>4, <2>1 DEF DbInv, BeganInOrder
  <2>2. CASE x \in running /\ y = nextXid
    BY <1>1, <1>3, <1>4, <2>2 DEF DbInv, InTime
  <2>3. CASE x = nextXid
    <3>1. y = nextXid
      BY <1>2, <1>3, <2>3
    <3> QED BY <1>3, <1>4, <2>3, <3>1
  <2> QED BY <1>2, <2>1, <2>2, <2>3
<1>8. RowsAreRecent'
  <2> SUFFICES ASSUME NEW x \in running', NEW r \in committed \cup staged, r.txid >= x
               PROVE  r.at + TxnTimeout >= began'[x]
    BY <1>2 DEF RowsAreRecent
  <2>1. x \in running
    BY <1>2, <1>3
  <2> QED BY <1>4, <2>1 DEF DbInv, RowsAreRecent
<1> QED BY <1>5, <1>6, <1>7, <1>8 DEF DbInv

LEMMA RecentRecord ==
  ASSUME TypeOK, DbInv, NEW x \in running, NEW e \in Entities, RecordMany(x, e)
  PROVE  DbInv'
<1> DEFINE new == [txid |-> x, id |-> nextId, entity |-> e, at |-> began[x]]
<1>1. /\ staged' = staged \cup {new} /\ new.txid = x /\ new.at = began[x]
      /\ UNCHANGED <<running, began, committed, changeLog, now, lastPulledAt, pc, asked>>
  BY DEF RecordMany, deviceVars, requestVars
<1> HIDE DEF new
<1>2. InTime' /\ LogIsKept' /\ BeganInOrder'
  BY <1>1 DEF DbInv, InTime, LogIsKept, BeganInOrder
<1>3. RowsAreRecent'
  <2> SUFFICES ASSUME NEW z \in running, NEW r \in committed \cup staged \cup {new}, r.txid >= z
               PROVE  r.at + TxnTimeout >= began[z]
    BY <1>1 DEF RowsAreRecent
  <2>1. CASE r \in committed \cup staged
    BY <2>1 DEF DbInv, RowsAreRecent
  <2>2. CASE r = new
    <3>1. x \in Nat /\ z \in Nat /\ z <= x
      BY <1>1, <2>2, RowTypes
    <3> QED BY <1>1, <2>2, <3>1 DEF DbInv, BeganInOrder
  <2> QED BY <2>1, <2>2
<1> QED BY <1>2, <1>3 DEF DbInv

LEMMA RecentEnd ==
  ASSUME TypeOK, DbInv, NEW x \in running, CommitWrite(x) \/ RollBack(x)
  PROVE  DbInv'
<1>1. /\ running' = running \ {x} /\ began' = [y \in running \ {x} |-> began[y]]
      /\ staged' \subseteq staged
      /\ \A r \in committed' : r \in committed \/ (r \in staged /\ r \in changeLog')
      /\ changeLog \subseteq changeLog'
      /\ UNCHANGED <<now, lastPulledAt, pc, asked>>
  BY DEF CommitWrite, RollBack, StagedBy, deviceVars, requestVars
<1>2. InTime' /\ BeganInOrder'
  BY <1>1 DEF DbInv, InTime, BeganInOrder
<1>3. LogIsKept'
  BY <1>1 DEF DbInv, LogIsKept
<1>4. RowsAreRecent'
  BY <1>1 DEF DbInv, RowsAreRecent
<1> QED BY <1>2, <1>3, <1>4 DEF DbInv

\* The clock goes on only where every open transaction has time left.
LEMMA RecentTick ==
  ASSUME TypeOK, DbInv, Tick
  PROVE  DbInv'
<1>1. /\ now' = now + 1
      /\ \A x \in running : now < began[x] + TxnTimeout
      /\ \A d \in Devices : pc[d] \in InServer => now < asked[d] + TxnTimeout
      /\ UNCHANGED <<running, began, staged, changeLog, committed, lastPulledAt, pc, asked>>
  BY DEF Tick, deviceVars, requestVars
<1>2. now \in Nat /\ Retention \in Nat /\ TxnTimeout \in Nat
  BY RowTypes
<1>3. InTime'
  <2>1. ASSUME NEW x \in running PROVE began[x] <= now + 1 /\ now + 1 <= began[x] + TxnTimeout
    <3>1. began[x] \in Nat /\ began[x] <= now /\ now < began[x] + TxnTimeout
      BY <1>1, RowTypes DEF DbInv, InTime
    <3> QED BY <1>2, <3>1
  <2>2. ASSUME NEW d \in Devices
        PROVE  /\ lastPulledAt[d] <= now + 1
               /\ pc[d] \in InServer => asked[d] <= now + 1 /\ now + 1 <= asked[d] + TxnTimeout
    <3>1. asked[d] \in Nat /\ lastPulledAt[d] \in Nat
      BY RowTypes
    <3>2. lastPulledAt[d] <= now
      BY DEF DbInv, InTime
    <3>3. pc[d] \in InServer => asked[d] <= now /\ now < asked[d] + TxnTimeout
      BY <1>1 DEF DbInv, InTime
    <3> QED BY <1>2, <3>1, <3>2, <3>3
  <2> QED BY <1>1, <2>1, <2>2 DEF InTime
<1>4. LogIsKept'
  <2> SUFFICES ASSUME NEW r \in committed, r.at + Retention >= now + 1
               PROVE  r \in changeLog
    BY <1>1 DEF LogIsKept
  <2>1. r.at + Retention >= now
    BY <1>2, RowTypes
  <2> QED BY <2>1 DEF DbInv, LogIsKept
<1>5. BeganInOrder' /\ RowsAreRecent'
  BY <1>1 DEF DbInv, BeganInOrder, RowsAreRecent
<1> QED BY <1>3, <1>4, <1>5 DEF DbInv

LEMMA RecentPrune ==
  ASSUME TypeOK, DbInv, PruneChangeLog
  PROVE  DbInv'
<1>1. /\ changeLog' = {r \in changeLog : r.at + Retention >= now}
      /\ UNCHANGED <<running, began, staged, committed, now, lastPulledAt, pc, asked>>
  BY DEF PruneChangeLog, deviceVars, requestVars
<1>2. LogIsKept'
  BY <1>1 DEF DbInv, LogIsKept
<1> QED BY <1>1, <1>2 DEF DbInv, InTime, BeganInOrder, RowsAreRecent

\* Rows only become committed when they are recent: what is said of the rows from a
\* position on stays true of the rows to come.
LEMMA RecentRows ==
  ASSUME TypeOK, RInv, NEW d \in Devices, WriterStep \/ Tick \/ PruneChangeLog
  PROVE  PullInv(d)'
<1>1. UNCHANGED <<deviceVars, requestVars>>
  BY DbStepFrame
<1>2. UNCHANGED <<lastSyncXmin, lastPulledAt, pc, next, asked>>
  BY <1>1 DEF deviceVars, requestVars
<1>3. \A r \in committed' : r \in committed \/ r \in staged
  <2>1. ASSUME NEW x \in running, \/ \E e \in Entities : RecordMany(x, e)
                                  \/ CommitWrite(x) \/ RollBack(x)
        PROVE  \A r \in committed' : r \in committed \/ r \in staged
    BY <2>1 DEF RecordMany, CommitWrite, RollBack, StagedBy
  <2> QED BY <2>1 DEF WriterStep, BeginWrite, Tick, PruneChangeLog
<1>4. /\ \A r \in staged : r.at + 2 * TxnTimeout >= now /\ r.at \in Nat
      /\ now \in Nat /\ TxnTimeout \in Nat /\ lastPulledAt[d] \in Nat /\ asked[d] \in Nat
  BY StagedIsFresh, RowTypes DEF RInv
<1>5. /\ lastPulledAt[d] <= now /\ StoredIsFresh(d) /\ NextIsFresh(d) /\ AllowedInTime(d)
      /\ pc[d] \in InServer => asked[d] <= now
  BY DEF RInv, PullInv, DbInv, InTime
<1>6. lastSyncXmin[d].id = 0 =>
        \A r \in committed' : r.txid >= lastSyncXmin[d].txid => r.at + 3 * TxnTimeout >= lastPulledAt[d]
  <2> SUFFICES ASSUME lastSyncXmin[d].id = 0, NEW r \in committed',
                      r.txid >= lastSyncXmin[d].txid
               PROVE  r.at + 3 * TxnTimeout >= lastPulledAt[d]
    OBVIOUS
  <2>1. CASE r \in committed
    BY <1>5, <2>1 DEF StoredIsFresh
  <2>2. CASE r \in staged
    BY <1>4, <1>5, <2>2
  <2> QED BY <1>3, <2>1, <2>2
<1>7. ASSUME pc[d] \in InServer, FreshFrom(committed, next[d], asked[d])
      PROVE  FreshFrom(committed', next[d], asked[d])
  <2> SUFFICES ASSUME NEW r \in committed', r.txid >= next[d].txid
               PROVE  r.at + 2 * TxnTimeout >= asked[d]
    BY DEF FreshFrom
  <2>1. CASE r \in committed
    BY <1>7, <2>1 DEF FreshFrom
  <2>2. CASE r \in staged
    BY <1>4, <1>5, <1>7, <2>2
  <2> QED BY <1>3, <2>1, <2>2
<1>8. StoredIsFresh(d)'
  BY <1>2, <1>6 DEF StoredIsFresh
<1>9. NextIsFresh(d)'
  BY <1>2, <1>5, <1>7 DEF NextIsFresh, InServer
<1>10. AllowedInTime(d)'
  BY <1>2, <1>5 DEF AllowedInTime
<1> QED BY <1>8, <1>9, <1>10 DEF PullInv

\* A device's step keeps times in order: a request begins now.
LEMMA TimeDevice ==
  ASSUME TypeOK, RInv, NEW d \in Devices, DeviceStep(d)
  PROVE  DbInv'
<1>1. UNCHANGED <<running, began, staged, changeLog, committed, now>>
  BY DeviceStepFrame DEF dbVars
<1>2. now \in Nat /\ TxnTimeout \in Nat
  BY RowTypes
<1>3. InTime'
  <2> SUFFICES ASSUME NEW e \in Devices
               PROVE  /\ lastPulledAt'[e] <= now
                      /\ pc'[e] \in InServer => asked'[e] <= now /\ now <= asked'[e] + TxnTimeout
    BY <1>1 DEF RInv, DbInv, InTime
  <2>0. /\ lastPulledAt[e] <= now
        /\ pc[e] \in InServer => asked[e] <= now /\ now <= asked[e] + TxnTimeout
    BY DEF RInv, DbInv, InTime
  <2>1. CASE e # d
    BY <2>0, <2>1, DeviceStepFrame
  <2>2. lastPulledAt'[d] \in {lastPulledAt[d], now}
    BY DEF TypeOK, DeviceStep, Register, Revoke, PullDecide, PullRows, PullCursor, PullFinish,
           ApplyDelta, BootstrapMark, BootstrapRead, BootstrapFinish, ApplyDataset, LoseAnswer,
           BackUp, Restore, deviceVars
  <2>3. CASE e = d /\ (Register(d) \/ Revoke(d) \/ BackUp(d) \/ Restore(d))
    BY <1>2, <2>0, <2>2, <2>3 DEF Register, Revoke, BackUp, Restore, requestVars
  <2>4. CASE e = d /\ (PullDecide(d) \/ BootstrapMark(d))
    <3>1. pc'[d] = "snapshotRequired" \/ asked'[d] = now
      BY <2>4 DEF PullDecide, BootstrapMark, TypeOK
    <3> QED BY <1>2, <2>0, <2>2, <2>4, <3>1 DEF InServer
  <2>5. CASE e = d /\ (PullRows(d) \/ PullCursor(d) \/ BootstrapRead(d))
    <3>1. pc[d] \in InServer /\ asked' = asked
      BY <2>5 DEF PullRows, PullCursor, BootstrapRead, InServer
    <3> QED BY <1>2, <2>0, <2>2, <2>5, <3>1
  <2>6. CASE e = d /\ (PullFinish(d) \/ BootstrapFinish(d) \/ ApplyDelta(d) \/ ApplyDataset(d)
                        \/ LoseAnswer(d))
    <3>1. pc'[d] \notin InServer
      BY <2>6 DEF PullFinish, BootstrapFinish, ApplyDelta, ApplyDataset, LoseAnswer, EndRequest,
                  InServer, TypeOK
    <3> QED BY <1>2, <2>0, <2>2, <2>6, <3>1
  <2> QED BY <2>1, <2>3, <2>4, <2>5, <2>6 DEF DeviceStep
<1> QED BY <1>1, <1>3 DEF RInv, DbInv, LogIsKept, BeganInOrder, RowsAreRecent

\* A device's step: a position is stored at most a timeout after the statement that
\* found it settled.
LEMMA RecentDevice ==
  ASSUME TInv, RInv, NEW d \in Devices, DeviceStep(d), NEW e \in Devices
  PROVE  PullInv(e)'
<1>0. TypeOK /\ PageOK(d) /\ StoredIsFresh(e) /\ NextIsFresh(e) /\ NextIsFresh(d) /\ AllowedInTime(e)
  BY DEF TInv, RInv, PullInv
<1>1. /\ committed' = committed /\ now \in Nat /\ TxnTimeout \in Nat
      /\ \A r \in committed : r.at \in Nat
  BY <1>0, DeviceStepFrame, RowTypes DEF dbVars
<1>2. ASSUME lastSyncXmin'[e] = lastSyncXmin[e], lastPulledAt'[e] = lastPulledAt[e]
      PROVE  StoredIsFresh(e)'
  BY <1>0, <1>1, <1>2 DEF StoredIsFresh
<1>3. ASSUME pc'[e] = pc[e], next'[e] = next[e], asked'[e] = asked[e]
      PROVE  NextIsFresh(e)'
  BY <1>0, <1>1, <1>3 DEF NextIsFresh
<1>4. CASE e # d
  <2>1. /\ lastSyncXmin'[e] = lastSyncXmin[e] /\ lastPulledAt'[e] = lastPulledAt[e]
        /\ pc'[e] = pc[e] /\ next'[e] = next[e] /\ asked'[e] = asked[e]
    BY <1>0, <1>4, DeviceStepFrame
  <2> QED BY <1>0, <1>2, <1>3, <2>1 DEF PullInv, AllowedInTime
<1> SUFFICES ASSUME e = d PROVE PullInv(d)'
  BY <1>4
<1>40. AllowedInTime(d)'
  <2>1. CASE PullDecide(d)
    <3>1. lastPulledAt' = lastPulledAt /\ lastPulledAt[d] \in Nat
      BY <1>0, <2>1, RowTypes DEF PullDecide, deviceVars
    <3>2. pc'[d] = "allowed" => asked'[d] = now /\ ~ MustBootstrap(Position(d), lastPulledAt[d])
      BY <1>0, <2>1 DEF PullDecide, TypeOK
    <3>3. Retention \in Nat
      BY <1>0, RowTypes
    <3> QED BY <1>1, <3>1, <3>2, <3>3 DEF AllowedInTime, MustBootstrap
  <2>2. CASE Register(d) \/ Revoke(d) \/ BackUp(d) \/ Restore(d)
    BY <1>0, <2>2 DEF Register, Revoke, BackUp, Restore, deviceVars, requestVars, AllowedInTime
  <2>3. CASE ~ (PullDecide(d) \/ Register(d) \/ Revoke(d) \/ BackUp(d) \/ Restore(d))
    <3>1. pc'[d] # "allowed"
      BY <1>0, <2>3 DEF DeviceStep, PullRows, PullCursor, PullFinish, ApplyDelta, BootstrapMark,
         BootstrapRead, BootstrapFinish, ApplyDataset, LoseAnswer, EndRequest, TypeOK
    <3> QED BY <3>1 DEF AllowedInTime
  <2> QED BY <2>1, <2>2, <2>3
<1> SUFFICES StoredIsFresh(d)' /\ NextIsFresh(d)'
  BY <1>40 DEF PullInv
<1>5. ASSUME pc'[d] \notin {"marked", "reading", "paged"} PROVE NextIsFresh(d)'
  BY <1>5 DEF NextIsFresh
<1>6. CASE Register(d) \/ Revoke(d) \/ BackUp(d) \/ Restore(d)
  BY <1>2, <1>3, <1>6 DEF Register, Revoke, BackUp, Restore, deviceVars, requestVars
<1>7. CASE PullDecide(d) \/ PullRows(d) \/ ApplyDelta(d) \/ ApplyDataset(d) \/ LoseAnswer(d)
  <2>1. UNCHANGED deviceVars /\ pc'[d] \notin {"marked", "reading", "paged"}
    BY <1>0, <1>7 DEF PullDecide, PullRows, ApplyDelta, ApplyDataset, LoseAnswer, EndRequest, TypeOK
  <2> QED BY <1>2, <1>5, <2>1 DEF deviceVars
<1>8. FreshFrom(committed, [txid |-> Watermark, id |-> 0], now)
  BY WatermarkIsFresh
<1>9. \A a \in Nat : a <= now => FreshFrom(committed, [txid |-> Watermark, id |-> 0], a)
  BY <1>1, <1>8 DEF FreshFrom
<1>10. CASE PullCursor(d)
  <2>1. /\ UNCHANGED deviceVars /\ pc[d] = "read" /\ pc'[d] = "paged" /\ asked' = asked
        /\ next'[d] = NextCursor(page[d], more[d], Watermark)
    BY <1>0, <1>10 DEF PullCursor, TypeOK
  <2>2. StoredIsFresh(d)'
    BY <1>2, <2>1 DEF deviceVars
  <2>3. CASE more[d]
    <3>1. LastOf(page[d]) \in Row
      <4>1. page[d] \subseteq committed /\ page[d] # {}
        BY <1>0, <2>1, <2>3 DEF PageOK
      <4>2. LastOf(page[d]) \in page[d]
        BY <1>0, <4>1, LastOfExists DEF TInv
      <4> QED BY <1>0, <4>2 DEF TypeOK
    <3>2. next'[d].id # 0
      BY <2>1, <2>3, <3>1 DEF NextCursor, Row
    <3> QED BY <2>1, <2>2, <3>2 DEF NextIsFresh
  <2>4. CASE ~more[d]
    <3>1. next'[d] = [txid |-> Watermark, id |-> 0]
      BY <2>1, <2>4 DEF NextCursor
    <3>2. asked[d] \in Nat /\ asked[d] <= now
      BY <1>0, <2>1, RowTypes DEF RInv, DbInv, InTime, InServer
    <3>3. FreshFrom(committed, next'[d], asked[d])
      BY <1>9, <3>1, <3>2
    <3> QED BY <1>1, <2>1, <2>2, <3>3 DEF NextIsFresh
  <2> QED BY <2>3, <2>4
<1>11. ASSUME FreshFrom(committed, next[d], asked[d]), pc[d] \in InServer,
              lastSyncXmin'[d] = next[d], lastPulledAt'[d] = now
       PROVE  StoredIsFresh(d)'
  <2>1. asked[d] \in Nat /\ now <= asked[d] + TxnTimeout
    BY <1>0, <1>11, RowTypes DEF RInv, DbInv, InTime
  <2>2. \A r \in committed : r.txid >= next[d].txid => r.at + 3 * TxnTimeout >= now
    BY <1>1, <1>11, <2>1 DEF FreshFrom
  <2> QED BY <1>1, <1>11, <2>2 DEF StoredIsFresh
<1>12. CASE PullFinish(d)
  <2>1. /\ pc[d] = "paged" /\ pc'[d] = "delta" /\ lastPulledAt'[d] = now
        /\ lastSyncXmin'[d] = next[d]
    BY <1>0, <1>12 DEF PullFinish, TypeOK
  <2>2. CASE next[d].id = 0
    BY <1>0, <1>5, <1>11, <2>1, <2>2 DEF NextIsFresh, InServer
  <2>3. CASE next[d].id # 0
    BY <1>5, <2>1, <2>3 DEF StoredIsFresh
  <2> QED BY <2>2, <2>3
<1>13. CASE BootstrapMark(d)
  <2>1. /\ UNCHANGED deviceVars /\ next'[d] = [txid |-> Watermark, id |-> 0] /\ asked'[d] = now
        /\ pc'[d] = "marked"
    BY <1>0, <1>13 DEF BootstrapMark, TypeOK
  <2>2. StoredIsFresh(d)'
    BY <1>2, <2>1 DEF deviceVars
  <2> QED BY <1>1, <1>8, <2>1, <2>2 DEF NextIsFresh
<1>14. CASE BootstrapRead(d)
  <2>1. /\ UNCHANGED deviceVars /\ next' = next /\ asked' = asked
        /\ pc[d] = "marked" /\ pc'[d] = "reading"
    BY <1>0, <1>14 DEF BootstrapRead, TypeOK
  <2>2. StoredIsFresh(d)'
    BY <1>2, <2>1 DEF deviceVars
  <2> QED BY <1>0, <1>1, <2>1, <2>2 DEF NextIsFresh
<1>15. CASE BootstrapFinish(d)
  <2>1. /\ pc[d] = "reading" /\ pc'[d] = "dataset" /\ lastPulledAt'[d] = now
        /\ lastSyncXmin'[d] = next[d]
    BY <1>0, <1>15 DEF BootstrapFinish, TypeOK
  <2> QED BY <1>0, <1>5, <1>11, <2>1 DEF NextIsFresh, InServer
<1> QED BY <1>6, <1>7, <1>10, <1>12, <1>13, <1>14, <1>15 DEF DeviceStep

LEMMA RInvInvariant == Spec => [](TInv /\ RInv)
<1>1. Init => RInv
  BY DEF Init, RInv, DbInv, InTime, LogIsKept, BeganInOrder, RowsAreRecent, StoredIsFresh,
         NextIsFresh, AllowedInTime, PullInv, FreshFrom, Never, InServer
<1>2. TInv /\ RInv /\ [Next]_vars => RInv'
  <2> SUFFICES ASSUME TInv, RInv, [Next]_vars PROVE RInv'
    OBVIOUS
  <2>0. TypeOK /\ DbInv
    BY DEF TInv, RInv
  <2>1. CASE WriterStep \/ Tick \/ PruneChangeLog
    <3>1. DbInv'
      BY <2>0, <2>1, RecentBegin, RecentRecord, RecentEnd, RecentTick, RecentPrune DEF WriterStep
    <3>2. \A d \in Devices : PullInv(d)'
      BY <2>0, <2>1, RecentRows
    <3> QED BY <3>1, <3>2 DEF RInv
  <2>2. ASSUME NEW d \in Devices, DeviceStep(d) PROVE RInv'
    <3>1. DbInv'
      BY <2>0, <2>2, TimeDevice
    <3>2. \A e \in Devices : PullInv(e)'
      BY <2>2, RecentDevice
    <3> QED BY <3>1, <3>2 DEF RInv
  <2>3. CASE UNCHANGED vars
    <3>1. UNCHANGED <<running, began, staged, changeLog, committed, now, lastSyncXmin, lastPulledAt,
                      pc, asked, next>>
      BY <2>3 DEF vars, dbVars, deviceVars, requestVars
    <3>2. DbInv'
      BY <2>0, <3>1 DEF DbInv, InTime, LogIsKept, BeganInOrder, RowsAreRecent
    <3> QED BY <3>1, <3>2 DEF RInv, PullInv, AllowedInTime, StoredIsFresh, NextIsFresh, FreshFrom
  <2> QED BY <2>1, <2>2, <2>3 DEF Next
<1> QED BY <1>1, <1>2, TInvInvariant, PTL DEF Spec

\* What holds of decideBootstrap's promise, of a device whose last answer arrived and
\* drained the window: allowed a delta, it lacks no change of a transaction that began
\* since its last pull, and no change at all until three transaction timeouts before
\* the window ends, whatever the retention job has deleted and when.
THEOREM DrainedIsRetained == Spec => []DrainedCursorIsRetained
<1>1. TInv /\ RInv => DrainedCursorIsRetained
  <2> SUFFICES ASSUME TInv, RInv, NEW d \in Devices, Drained(d), NEW r \in Pruned(d)
               PROVE  /\ now + 3 * TxnTimeout > lastPulledAt[d] + Retention
                      /\ pc[d] = "idle" /\ ~ MustBootstrap(Position(d), lastPulledAt[d])
                           => r.at < lastPulledAt[d]
                      /\ pc[d] = "allowed" => r.at < lastPulledAt[d] + TxnTimeout
    BY DEF DrainedCursorIsRetained
  <2>1. TypeOK /\ DbInv /\ StoredIsFresh(d) /\ AllowedInTime(d)
    BY DEF TInv, RInv, PullInv
  <2>2. r \in committed /\ r \notin changeLog /\ Before(lastSyncXmin[d], r) /\ lastSyncXmin[d].id = 0
    BY DEF Pruned, StillNeeds, InDataset, Drained
  <2>3. /\ r.txid \in Nat /\ r.at \in Nat /\ now \in Nat /\ Retention \in Nat /\ TxnTimeout \in Nat
        /\ lastSyncXmin[d].txid \in Nat /\ lastPulledAt[d] \in Nat /\ asked[d] \in Nat
    BY <2>1, <2>2, RowTypes DEF TypeOK, Cursor
  <2>4. r.at + Retention < now
    BY <2>1, <2>2, <2>3 DEF DbInv, LogIsKept
  <2>5. r.txid >= lastSyncXmin[d].txid
    BY <2>2, <2>3 DEF Before
  <2>6. r.at + 3 * TxnTimeout >= lastPulledAt[d]
    BY <2>1, <2>2, <2>5 DEF StoredIsFresh
  <2>7. now + 3 * TxnTimeout > lastPulledAt[d] + Retention
    BY <2>3, <2>4, <2>6
  <2>8. pc[d] = "idle" /\ ~ MustBootstrap(Position(d), lastPulledAt[d]) => r.at < lastPulledAt[d]
    BY <2>3, <2>4 DEF MustBootstrap
  <2>9. pc[d] = "allowed" => r.at < lastPulledAt[d] + TxnTimeout
    <3> SUFFICES ASSUME pc[d] = "allowed" PROVE r.at < lastPulledAt[d] + TxnTimeout
      OBVIOUS
    <3>1. asked[d] < lastPulledAt[d] + Retention /\ now <= asked[d] + TxnTimeout
      BY <2>1 DEF AllowedInTime, DbInv, InTime, InServer
    <3> QED BY <2>3, <2>4, <3>1
  <2> QED BY <2>7, <2>8, <2>9
<1> QED BY <1>1, RInvInvariant, PTL
=============================================================================
