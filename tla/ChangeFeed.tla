----------------------------- MODULE ChangeFeed -----------------------------
(***************************************************************************)
(* The pull half of the sync engine: the change_log table every write      *)
(* appends to, the delta pull and the bootstrap that hand it to devices,   *)
(* the nightly retention job, and the device rows they keep.               *)
(*                                                                         *)
(* The API opens one database transaction per request and sets no          *)
(* isolation level, so PostgreSQL runs it READ COMMITTED: every statement  *)
(* takes a snapshot of its own.  An action below is therefore one          *)
(* statement (or a run of statements between which nothing that matters    *)
(* here can change), and other transactions commit between two of them.    *)
(*                                                                         *)
(* The clock runs in ticks as short as one likes (`Retention` and          *)
(* `TxnTimeout` count them), and goes on while transactions and requests   *)
(* run: a change carries the time its transaction began, a device row the  *)
(* time its pull was about to commit.                                      *)
(*                                                                         *)
(* History variables: `committed`, every row that ever committed; `has`,   *)
(* what a device holds; `gap`, the transactions its drained pulls stepped  *)
(* over; `presumed`, what a device that took every answer behind the       *)
(* server's copy of its cursor would hold; `missed`, what it had not       *)
(* got of that when it asked without a cursor of its own.                  *)
(***************************************************************************)
EXTENDS Naturals, FiniteSets

CONSTANTS
  Devices,          \* registered phones and tablets of one shop
  Entities,         \* entity kinds written to change_log
  DatasetEntities,  \* the kinds the bootstrap response carries
  PageLimit,        \* rows per pull page (cappedLimit, at most MAX_PULL_LIMIT)
  Retention,        \* CHANGE_LOG_RETENTION_DAYS, in ticks
  TxnTimeout,       \* the longest a transaction lives (@LongTransaction), in ticks
  CursorlessPull,   \* may a device's first delta after a bootstrap lack a cursor?
  KeepsBackups,     \* may a device be restored from a backup of its storage?
  MaxXid,           \* bound: transactions that write
  MaxRows,          \* bound: change_log ids handed out
  MaxTime           \* bound: ticks on the clock

ASSUME FeedAssumption ==
  /\ PageLimit \in Nat \ {0}
  /\ Retention \in Nat \ {0}
  /\ TxnTimeout \in Nat
  /\ DatasetEntities \subseteq Entities
  /\ CursorlessPull \in BOOLEAN
  /\ KeepsBackups \in BOOLEAN

VARIABLES
  nextXid,     \* the next transaction id the database hands out
  running,     \* transactions that have an id and have not ended
  began,       \* when each of them began, before it had an id
  nextId,      \* change_log.id is BIGSERIAL: allocated at INSERT
  staged,      \* rows inserted by running transactions
  changeLog,   \* committed rows still in the table
  committed,   \* every row that ever committed
  now,         \* the time; 0 is before any pull, so it doubles as NULL
  known,       \* devices with a device row
  revoked,     \* devices whose revokedAt is set
  lastSyncXmin,\* device.last_sync_xmin
  lastPulledAt,\* device.last_pulled_at
  cursor,      \* the cursor the device itself holds
  has,         \* the changes the device's data reflects
  gap,         \* transactions its drained pulls stepped over
  presumed,    \* what the server's copy of the cursor takes the device to hold
  missed,      \* what a pull without a cursor took it to hold and it did not
  backup,      \* the last copy of the device's own storage
  pc,          \* where the device's request is
  asked,       \* when its transaction began
  from,        \* the request's effective cursor
  page,        \* rows the request will answer with
  more,        \* hasMore
  xmin,        \* the watermark of the statement that read the rows
  next         \* the cursor the answer carries

dbVars      == <<nextXid, running, began, nextId, staged, changeLog, committed, now>>
deviceVars  == <<known, revoked, lastSyncXmin, lastPulledAt, presumed>>
appVars     == <<cursor, has, gap, missed, backup>>
requestVars == <<pc, asked, from, page, more, xmin, next>>
vars        == <<dbVars, deviceVars, appVars, requestVars>>

Row    == [txid : Nat \ {0}, id : Nat \ {0}, entity : Entities, at : Nat]
Cursor == [txid : Nat, id : Nat]

\* A null cursor.  Transaction ids start above zero, so no real one equals it.
NoCursor == [txid |-> 0, id |-> 0]
Never    == 0

\* The keyset order of the pull query, and of cursors: (txid, id).
Before(p, q) == \/ p.txid < q.txid
                \/ p.txid = q.txid /\ p.id < q.id

\* (mutant) pg_snapshot_xmax: the transactions in flight are taken for ended
WatermarkXmax == nextXid

\* pg_snapshot_xmin(pg_current_snapshot()): every transaction below it has ended.
Watermark == CHOOSE x \in running \cup {nextXid} : \A y \in running \cup {nextXid} : x <= y

\* decideBootstrap: no cursor, never pulled, or last pull at or past retention.
MustBootstrap(position, pulledAt) ==
  \/ position = NoCursor
  \/ pulledAt = Never
  \/ now >= pulledAt + Retention

\* The WHERE clause of the pull query.
Servable(position) == {r \in changeLog : r.txid < Watermark /\ Before(position, r)}

\* ORDER BY txid, id LIMIT cappedLimit, as the set of rows it keeps.
IsPage(rows, kept) ==
  /\ kept \subseteq rows
  /\ Cardinality(kept) <= PageLimit
  /\ Cardinality(kept) < PageLimit => kept = rows
  /\ \A r \in kept, s \in rows \ kept : Before(r, s)

\* The last row of a page, the one a mid-window cursor points at.
LastOf(rows) == CHOOSE r \in rows : \A s \in rows : s = r \/ Before(s, r)

\* (mutant) a truncated page jumps to the watermark as a drained one does
NextCursorSkipsRest(rows, hasMore, watermark) == [txid |-> watermark, id |-> 0]

\* Mid-window the cursor is the last row served; drained, the watermark itself.
NextCursor(rows, hasMore, watermark) ==
  IF hasMore THEN [txid |-> LastOf(rows).txid, id |-> LastOf(rows).id]
             ELSE [txid |-> watermark, id |-> 0]

Init ==
  /\ nextXid = 1 /\ running = {} /\ began = [x \in {} |-> 0] /\ nextId = 1
  /\ staged = {} /\ changeLog = {} /\ committed = {} /\ now = 1
  /\ known = {} /\ revoked = {}
  /\ lastSyncXmin = [d \in Devices |-> NoCursor]
  /\ lastPulledAt = [d \in Devices |-> Never]
  /\ cursor = [d \in Devices |-> NoCursor]
  /\ has = [d \in Devices |-> {}]
  /\ gap = [d \in Devices |-> {}]
  /\ presumed = [d \in Devices |-> [given |-> {}, gap |-> {}]]
  /\ missed = [d \in Devices |-> {}]
  /\ backup = [d \in Devices |-> [cursor |-> NoCursor, has |-> {}, gap |-> {}, missed |-> {}]]
  /\ pc = [d \in Devices |-> "idle"]
  /\ asked = [d \in Devices |-> 0]
  /\ from = [d \in Devices |-> NoCursor]
  /\ page = [d \in Devices |-> {}]
  /\ more = [d \in Devices |-> FALSE]
  /\ xmin = [d \in Devices |-> 0]
  /\ next = [d \in Devices |-> NoCursor]

-----------------------------------------------------------------------------
(* Writers: any domain service that changes a synced row.                  *)

\* A transaction's first write gives it its id, some time after it began.
BeginWrite ==
  /\ nextXid <= MaxXid
  /\ \E start \in 1 .. now :
       /\ now <= start + TxnTimeout
       /\ began' = [x \in running \cup {nextXid} |-> IF x = nextXid THEN start ELSE began[x]]
  /\ running' = running \cup {nextXid}
  /\ nextXid' = nextXid + 1
  /\ UNCHANGED <<nextId, staged, changeLog, committed, now>>
  /\ UNCHANGED <<deviceVars, appVars, requestVars>>

\* ChangeLogService.recordMany: the row carries the writer's own transaction
\* id, an id drawn now, and CURRENT_TIMESTAMP, which is when the transaction began.
RecordMany(x, e) ==
  /\ x \in running
  /\ nextId <= MaxRows
  /\ staged' = staged \cup {[txid |-> x, id |-> nextId, entity |-> e, at |-> began[x]]}
  /\ nextId' = nextId + 1
  /\ UNCHANGED <<nextXid, running, began, changeLog, committed, now>>
  /\ UNCHANGED <<deviceVars, appVars, requestVars>>

StagedBy(x) == {r \in staged : r.txid = x}

CommitWrite(x) ==
  /\ x \in running
  /\ running' = running \ {x}
  /\ began' = [y \in running \ {x} |-> began[y]]
  /\ changeLog' = changeLog \cup StagedBy(x)
  /\ committed' = committed \cup StagedBy(x)
  /\ staged' = staged \ StagedBy(x)
  /\ UNCHANGED <<nextXid, nextId, now, deviceVars, appVars, requestVars>>

\* (mutant) the change rows outlive the write they describe
RollBackKeepsRows(x) ==
  /\ x \in running
  /\ running' = running \ {x}
  /\ began' = [y \in running \ {x} |-> began[y]]
  /\ UNCHANGED <<nextXid, nextId, staged, changeLog, committed, now>>
  /\ UNCHANGED <<deviceVars, appVars, requestVars>>

RollBack(x) ==
  /\ x \in running
  /\ running' = running \ {x}
  /\ began' = [y \in running \ {x} |-> began[y]]
  /\ staged' = staged \ StagedBy(x)
  /\ UNCHANGED <<nextXid, nextId, changeLog, committed, now>>
  /\ UNCHANGED <<deviceVars, appVars, requestVars>>

\* Where a request's transaction is open.
InServer == {"allowed", "read", "paged", "marked", "reading"}

\* A transaction that has run for its timeout is ended before the clock goes on.
Tick ==
  /\ now < MaxTime
  /\ \A x \in running : now < began[x] + TxnTimeout
  /\ \A d \in Devices : pc[d] \in InServer => now < asked[d] + TxnTimeout
  /\ now' = now + 1
  /\ UNCHANGED <<nextXid, running, began, nextId, staged, changeLog, committed>>
  /\ UNCHANGED <<deviceVars, appVars, requestVars>>

\* (mutant) the job's window shortened without decideBootstrap's
PruneTooSoon ==
  /\ changeLog' = {r \in changeLog : r.at + Retention > now}
  /\ UNCHANGED <<nextXid, running, began, nextId, staged, committed, now>>
  /\ UNCHANGED <<deviceVars, appVars, requestVars>>

\* SyncRetentionJob.prune: DELETE ... WHERE changed_at < now - retention.
PruneChangeLog ==
  /\ changeLog' = {r \in changeLog : r.at + Retention >= now}
  /\ UNCHANGED <<nextXid, running, began, nextId, staged, committed, now>>
  /\ UNCHANGED <<deviceVars, appVars, requestVars>>

-----------------------------------------------------------------------------
(* Devices.                                                                *)

\* DevicesService.register: a known device keeps its row, a revoked one is refused.
Register(d) ==
  /\ d \notin revoked
  /\ known' = known \cup {d}
  /\ UNCHANGED <<dbVars, revoked, lastSyncXmin, lastPulledAt, presumed, appVars, requestVars>>

Revoke(d) ==
  /\ d \in known
  /\ revoked' = revoked \cup {d}
  /\ UNCHANGED <<dbVars, known, lastSyncXmin, lastPulledAt, presumed, appVars, requestVars>>

\* The cursor a pull of the device goes by: its own, or the server's copy.
Position(d) == IF cursor[d] # NoCursor THEN cursor[d] ELSE lastSyncXmin[d]

\* pull begins: the device row, the effective cursor, the bootstrap decision.
PullDecide(d) ==
  /\ pc[d] = "idle"
  /\ d \in known \ revoked
  /\ cursor[d] # NoCursor \/ CursorlessPull
  /\ IF MustBootstrap(Position(d), lastPulledAt[d])
     THEN /\ pc' = [pc EXCEPT ![d] = "snapshotRequired"]
          /\ UNCHANGED <<asked, from>>
     ELSE /\ pc' = [pc EXCEPT ![d] = "allowed"]
          /\ asked' = [asked EXCEPT ![d] = now]
          /\ from' = [from EXCEPT ![d] = Position(d)]
  /\ UNCHANGED <<dbVars, deviceVars, appVars, page, more, xmin, next>>

\* The rows query, with a watermark of its own.
PullRows(d) ==
  /\ pc[d] = "allowed"
  /\ \E kept \in SUBSET Servable(from[d]) :
       /\ IsPage(Servable(from[d]), kept)
       /\ page' = [page EXCEPT ![d] = kept]
       /\ more' = [more EXCEPT ![d] = kept # Servable(from[d])]
  /\ xmin' = [xmin EXCEPT ![d] = Watermark]
  /\ pc' = [pc EXCEPT ![d] = "read"]
  /\ UNCHANGED <<dbVars, deviceVars, appVars, asked, from, next>>

\* The next cursor: a drained page reads the watermark again, in a statement of its own.
PullCursor(d) ==
  /\ pc[d] = "read"
  /\ next' = [next EXCEPT ![d] = NextCursor(page[d], more[d], Watermark)]
  /\ pc' = [pc EXCEPT ![d] = "paged"]
  /\ UNCHANGED <<dbVars, deviceVars, appVars, asked, from, page, more, xmin>>

\* The transactions a drained pull steps over: those from the watermark of the
\* statement that read the rows up to the one it reads afterwards.
SteppedOver(d) ==
  IF more[d] THEN {} ELSE {x \in 1 .. next[d].txid : xmin[d] <= x /\ x < next[d].txid}

\* What the device is taken to hold before the answer under way.
Presumed(d) ==
  IF cursor[d] # NoCursor THEN [given |-> has[d] \cup missed[d], gap |-> gap[d]]
                          ELSE presumed[d]

\* The device row takes the new cursor and the time; commit.
PullFinish(d) ==
  /\ pc[d] = "paged"
  /\ lastSyncXmin' = [lastSyncXmin EXCEPT ![d] = next[d]]
  /\ lastPulledAt' = [lastPulledAt EXCEPT ![d] = now]
  /\ presumed' = [presumed EXCEPT ![d] = [given |-> Presumed(d).given \cup page[d],
                                          gap |-> Presumed(d).gap \cup SteppedOver(d)]]
  /\ pc' = [pc EXCEPT ![d] = "delta"]
  /\ asked' = [asked EXCEPT ![d] = 0]
  /\ UNCHANGED <<dbVars, known, revoked, appVars, from, page, more, xmin, next>>

\* bootstrap: the watermark is read first ...
BootstrapMark(d) ==
  /\ \/ pc[d] = "snapshotRequired"
     \/ pc[d] = "idle" /\ cursor[d] = NoCursor
  /\ d \in known
  /\ pc' = [pc EXCEPT ![d] = "marked"]
  /\ asked' = [asked EXCEPT ![d] = now]
  /\ next' = [next EXCEPT ![d] = [txid |-> Watermark, id |-> 0]]
  /\ xmin' = [xmin EXCEPT ![d] = Watermark]
  /\ UNCHANGED <<dbVars, deviceVars, appVars, from, page, more>>

InDataset(rows) == {r \in rows : r.entity \in DatasetEntities}

\* ... then the tables, one statement each: the first ones here ...
BootstrapRead(d) ==
  /\ pc[d] = "marked"
  /\ pc' = [pc EXCEPT ![d] = "reading"]
  /\ page' = [page EXCEPT ![d] = InDataset(committed)]
  /\ UNCHANGED <<dbVars, deviceVars, appVars, asked, from, more, xmin, next>>

\* ... and the ones read later, which may show changes the first did not,
\* before the device row is updated.
BootstrapFinish(d) ==
  /\ pc[d] = "reading"
  /\ \E after \in SUBSET (InDataset(committed) \ page[d]) :
       /\ page' = [page EXCEPT ![d] = page[d] \cup after]
       /\ presumed' = [presumed EXCEPT ![d] = [given |-> page[d] \cup after, gap |-> {}]]
  /\ lastSyncXmin' = [lastSyncXmin EXCEPT ![d] = next[d]]
  /\ lastPulledAt' = [lastPulledAt EXCEPT ![d] = now]
  /\ pc' = [pc EXCEPT ![d] = "dataset"]
  /\ asked' = [asked EXCEPT ![d] = 0]
  /\ UNCHANGED <<dbVars, known, revoked, appVars, from, more, xmin, next>>

\* The end of a request, with its local variables.
EndRequest(d) ==
  /\ pc' = [pc EXCEPT ![d] = "idle"]
  /\ asked' = [asked EXCEPT ![d] = 0]
  /\ from' = [from EXCEPT ![d] = NoCursor]
  /\ page' = [page EXCEPT ![d] = {}]
  /\ more' = [more EXCEPT ![d] = FALSE]
  /\ xmin' = [xmin EXCEPT ![d] = 0]
  /\ next' = [next EXCEPT ![d] = NoCursor]

\* The device applies a delta and keeps its cursor.  After a pull without one,
\* what earlier answers gave and it never got is behind the cursor it now has.
ApplyDelta(d) ==
  /\ pc[d] = "delta"
  /\ EndRequest(d)
  /\ cursor' = [cursor EXCEPT ![d] = next[d]]
  /\ has' = [has EXCEPT ![d] = has[d] \cup page[d]]
  /\ gap' = [gap EXCEPT ![d] = presumed[d].gap]
  /\ missed' = [missed EXCEPT ![d] = presumed[d].given \ (has[d] \cup page[d])]
  /\ UNCHANGED <<dbVars, deviceVars, backup>>

\* The device replaces its data with a dataset; older gaps are healed by it.  It
\* may leave the cursor to the server: "absent on a device's first delta".
ApplyDataset(d) ==
  /\ pc[d] = "dataset"
  /\ EndRequest(d)
  /\ \/ cursor' = [cursor EXCEPT ![d] = next[d]]
     \/ CursorlessPull /\ cursor' = [cursor EXCEPT ![d] = NoCursor]
  /\ has' = [has EXCEPT ![d] = has[d] \cup page[d]]
  /\ gap' = [gap EXCEPT ![d] = {}]
  /\ missed' = [missed EXCEPT ![d] = {}]
  /\ UNCHANGED <<dbVars, deviceVars, backup>>

\* The request fails, or its answer is lost: the device is where it was, the
\* server keeps whatever the request had committed.
LoseAnswer(d) ==
  /\ pc[d] # "idle"
  /\ EndRequest(d)
  /\ UNCHANGED <<dbVars, deviceVars, appVars>>

\* The phone's storage is backed up, and restored after a reinstall; the
\* device id is restored with it, so the server's row stays as it is.
BackUp(d) ==
  /\ KeepsBackups
  /\ pc[d] = "idle"
  /\ backup' = [backup EXCEPT ![d] = [cursor |-> cursor[d], has |-> has[d],
                                      gap |-> gap[d], missed |-> missed[d]]]
  /\ UNCHANGED <<dbVars, deviceVars, cursor, has, gap, missed, requestVars>>

Restore(d) ==
  /\ KeepsBackups
  /\ pc[d] = "idle"
  /\ cursor' = [cursor EXCEPT ![d] = backup[d].cursor]
  /\ has' = [has EXCEPT ![d] = backup[d].has]
  /\ gap' = [gap EXCEPT ![d] = backup[d].gap]
  /\ missed' = [missed EXCEPT ![d] = backup[d].missed]
  /\ UNCHANGED <<dbVars, deviceVars, backup, requestVars>>

-----------------------------------------------------------------------------
WriterStep ==
  \/ BeginWrite
  \/ \E x \in running : \E e \in Entities : RecordMany(x, e)
  \/ \E x \in running : CommitWrite(x)
  \/ \E x \in running : RollBack(x)

DeviceStep(d) ==
  \/ Register(d) \/ Revoke(d)
  \/ PullDecide(d) \/ PullRows(d) \/ PullCursor(d) \/ PullFinish(d) \/ ApplyDelta(d)
  \/ BootstrapMark(d) \/ BootstrapRead(d) \/ BootstrapFinish(d) \/ ApplyDataset(d)
  \/ LoseAnswer(d) \/ BackUp(d) \/ Restore(d)

Next ==
  \/ WriterStep \/ Tick \/ PruneChangeLog
  \/ \E d \in Devices : DeviceStep(d)

Spec == Init /\ [][Next]_vars

\* An open app keeps pulling; of requests made again and again the server
\* finishes some, and of answers some arrive.
Fairness ==
  \A d \in Devices :
    /\ WF_vars(PullDecide(d))
    /\ SF_vars(PullRows(d))
    /\ SF_vars(PullCursor(d))
    /\ SF_vars(PullFinish(d))
    /\ SF_vars(ApplyDelta(d))
    /\ SF_vars(BootstrapMark(d))
    /\ SF_vars(BootstrapRead(d))
    /\ SF_vars(BootstrapFinish(d))
    /\ SF_vars(ApplyDataset(d))

FairSpec == Spec /\ Fairness
-----------------------------------------------------------------------------
(* Properties.                                                             *)

\* The shape of the state.  A row not yet committed belongs to a running
\* transaction, a committed one to a transaction that has ended.
TypeOK ==
  /\ nextXid \in Nat \ {0} /\ nextId \in Nat \ {0} /\ now \in Nat \ {0}
  /\ running \subseteq 1 .. nextXid - 1
  /\ began \in [running -> Nat]
  /\ \A r \in staged : r.txid \in running
  /\ \A r \in committed : r.txid \in 1 .. nextXid - 1 /\ r.txid \notin running
  /\ changeLog \subseteq committed
  /\ staged \in SUBSET Row /\ changeLog \in SUBSET Row /\ committed \in SUBSET Row
  /\ known \in SUBSET Devices /\ revoked \in SUBSET Devices
  /\ lastSyncXmin \in [Devices -> Cursor] /\ lastPulledAt \in [Devices -> Nat]
  /\ cursor \in [Devices -> Cursor]
  /\ has \in [Devices -> SUBSET Row] /\ gap \in [Devices -> SUBSET Nat]
  /\ missed \in [Devices -> SUBSET Row]
  /\ presumed \in [Devices -> [given : SUBSET Row, gap : SUBSET Nat]]
  /\ backup \in [Devices -> [cursor : Cursor, has : SUBSET Row, gap : SUBSET Nat, missed : SUBSET Row]]
  /\ pc \in [Devices -> InServer \cup {"idle", "snapshotRequired", "delta", "dataset"}]
  /\ asked \in [Devices -> Nat]
  /\ from \in [Devices -> Cursor] /\ page \in [Devices -> SUBSET Row]
  /\ more \in [Devices -> BOOLEAN] /\ xmin \in [Devices -> Nat] /\ next \in [Devices -> Cursor]

\* Rows at or behind a position: no later delta from there will serve them.
Passed(position) == {r \in InDataset(changeLog) : ~ Before(position, r)}

\* The pull's promise, "a change cannot be skipped past and lost": whatever is
\* in the table and behind a device's cursor, the device has been given.
NothingSkipped == \A d \in Devices : Passed(cursor[d]) \subseteq has[d]

\* What the protocol does guarantee of that promise.  A row is skipped in two ways
\* only: its transaction was unfinished when a drained pull read the rows and had
\* an id below the watermark the same pull read next; or the row was in an answer
\* that the device does not hold, and the device then asked without a cursor.
\* Pages, other lost answers, rollbacks, pruning, bootstraps overlapping writers and
\* restored backups skip nothing.
Covered(position, given, stepped) ==
  \A r \in Passed(position) : r \in given \/ r.txid \in stepped
SkippedInTwoWays == \A d \in Devices : Covered(cursor[d], has[d] \cup missed[d], gap[d])

\* What a device lacks ahead of its position, and the server no longer has.
StillNeeds(d) == {r \in InDataset(committed) : Before(Position(d), r)} \ has[d]
Pruned(d)     == StillNeeds(d) \ changeLog

\* The last answer arrived and had drained the window, and no other is under way yet.
\* (lastPulledAt moves on every page and whether or not the answer arrives, so of
\* other devices nothing holds.)
Drained(d) ==
  pc[d] \in {"idle", "allowed"} /\ Position(d) = lastSyncXmin[d] /\ lastSyncXmin[d].id = 0

\* decideBootstrap: "if the device last pulled inside the retention window, nothing
\* it needs has been pruned".  What holds of that, for a device whose last answer
\* arrived and drained the window: while it is allowed a delta, nothing is pruned of
\* transactions that began since its last pull; and nothing at all until the last
\* moments of the window, three transaction timeouts before its end: one for the
\* writer that held the watermark back, one for the row's own, one for the pull.
DrainedCursorIsRetained ==
  \A d \in Devices : Drained(d) =>
    \A r \in Pruned(d) :
      /\ now + 3 * TxnTimeout > lastPulledAt[d] + Retention
      /\ pc[d] = "idle" /\ ~ MustBootstrap(Position(d), lastPulledAt[d])
           => r.at < lastPulledAt[d]
      /\ pc[d] = "allowed" => r.at < lastPulledAt[d] + TxnTimeout

\* A committed row below the watermark and ahead of an idle device's cursor
\* reaches the device, however many pages lie before it and however many
\* answers are lost, unless retention takes the row or the owner the device.
Awaits(d, i) ==
  /\ pc[d] = "idle" /\ cursor[d] # NoCursor
  /\ \E r \in Servable(cursor[d]) : r.id = i
Given(d, i) == \E r \in has[d] : r.id = i
Gone(i)     == \A r \in changeLog : r.id # i
BacklogDrains ==
  \A d \in Devices : \A i \in 1 .. MaxRows :
    Awaits(d, i) ~> Given(d, i) \/ Gone(i) \/ d \in revoked
=============================================================================
