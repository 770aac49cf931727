--------------------------- MODULE InvoiceNumbers ---------------------------
(***************************************************************************)
(* Where the number on a bill comes from.  A device leases a block of      *)
(* numbers from the server and draws them offline; the bills reach the     *)
(* server later, through the outbox.  A bill rung up on the web takes the  *)
(* highest number the server knows, plus one.                              *)
(*                                                                         *)
(* One shop, the series INV.  'INV-0001' stands for its number: printing   *)
(* it (padStart) and reading it back (regexp_replace) are inverse.         *)
(* Statements of a transaction are actions of their own where another      *)
(* transaction can come between; locks are advisory and end with it.       *)
(***************************************************************************)
EXTENDS Naturals, FiniteSets

CONSTANTS
  Devices,      \* phones that print bills
  Sizes,        \* block sizes a device asks for
  Requests,     \* lease requests the server may be running
  NoRequest,    \* none of them
  Tellers,      \* web sales the server may be running
  NoTeller,     \* none of them
  Web,          \* who prints the bills of the web
  MaxLeases,    \* bound: requests are sent while there are fewer leases
  MaxBills      \* bound: bills printed

ASSUME NumbersAssumption ==
  /\ Sizes \subseteq Nat \ {0}
  /\ NoRequest \notin Requests /\ NoTeller \notin Tellers /\ Web \notin Devices

VARIABLES
  leases,      \* number_lease, server side
  seriesLock,  \* who holds the advisory lock on (shop, series)
  stage,       \* where each lease request is
  ask,         \* the device and the size it is for
  highest,     \* max(range_to) as it read it
  granted,     \* the lease it answers with
  waits,       \* the request a device waits for
  block,       \* number_lease, on the device: one row per series
  queue,       \* bills in an outbox
  printed,     \* bills handed to a customer, numbered in time by id
  resumed,     \* devices that have taken a lease up again (history)
  sales,       \* bills in the server's books
  saleLock,    \* who holds the advisory lock on (shop, sale-number)
  counter,     \* where each web sale is
  drawn        \* the number it read

leaseVars  == <<leases, seriesLock, stage, ask, highest, granted>>
deviceVars == <<waits, block, queue, resumed>>
salesVars  == <<sales, saleLock, counter, drawn>>
vars       == <<leaseVars, deviceVars, printed, salesVars>>

Lease == [device : Devices, from : Nat, to : Nat, live : BOOLEAN]
Bill  == [id : Nat, number : Nat, by : Devices \cup {Web}]

\* No lease on the device: nothing left to draw.
NoBlock == [next |-> 1, to |-> 0]
NoLease == [from |-> 1, to |-> 0]
\* A request slot that serves no device.
NoAsk == [device |-> Web, size |-> 0]

Init ==
  /\ leases = {} /\ seriesLock = NoRequest
  /\ stage = [r \in Requests |-> "free"]
  /\ ask = [r \in Requests |-> NoAsk]
  /\ highest = [r \in Requests |-> 0]
  /\ granted = [r \in Requests |-> NoLease]
  /\ waits = [d \in Devices |-> NoRequest]
  /\ block = [d \in Devices |-> NoBlock]
  /\ queue = {} /\ printed = {} /\ resumed = {}
  /\ sales = {} /\ saleLock = NoTeller
  /\ counter = [t \in Tellers |-> "free"]
  /\ drawn = [t \in Tellers |-> 0]

\* max() over a column, null read as 0.
Highest(S) == IF S = {} THEN 0 ELSE CHOOSE m \in S : \A n \in S : n <= m

-----------------------------------------------------------------------------
(* Leases.                                                                 *)

\* The request of a device in good standing; a revoked one is refused before
\* anything is read.
AskLease(r, d, n) ==
  /\ stage[r] = "free" /\ waits[d] = NoRequest
  /\ Cardinality(leases) < MaxLeases
  /\ stage' = [stage EXCEPT ![r] = "asked"]
  /\ ask' = [ask EXCEPT ![r] = [device |-> d, size |-> n]]
  /\ waits' = [waits EXCEPT ![d] = r]
  /\ UNCHANGED <<leases, seriesLock, highest, granted, block, queue, resumed, printed, salesVars>>

\* pg_advisory_xact_lock(shop:series)
LockSeries(r) ==
  /\ stage[r] = "asked"
  /\ seriesLock = NoRequest
  /\ seriesLock' = r
  /\ stage' = [stage EXCEPT ![r] = "locked"]
  /\ UNCHANGED <<leases, ask, highest, granted, deviceVars, printed, salesVars>>

\* SELECT max(range_to)
ReadHighest(r) ==
  /\ stage[r] = "locked"
  /\ highest' = [highest EXCEPT ![r] = Highest({l.to : l \in leases})]
  /\ stage' = [stage EXCEPT ![r] = "read"]
  /\ UNCHANGED <<leases, seriesLock, ask, granted, deviceVars, printed, salesVars>>

\* (mutant) (max_to ?? 1): the next block starts on the last number of this one
NextRangeTouching(h, n) == [from |-> IF h = 0 THEN 1 ELSE h, to |-> IF h = 0 THEN n ELSE h + n - 1]

\* rangeFrom = (max_to ?? 0) + 1, rangeTo = rangeFrom + size - 1
NextRange(h, n) == [from |-> h + 1, to |-> h + n]

\* (mutant) the device's earlier lease stays live
RetiredNever(d) == leases

\* updateMany ... exhaustedAt: the device's live leases are retired.
Retired(d) == {IF l.device = d THEN [l EXCEPT !.live = FALSE] ELSE l : l \in leases}

\* Retire, insert under UNIQUE (shop, series, range_from), commit; the lock goes.
IssueLease(r) ==
  LET d == ask[r].device
      range == NextRange(highest[r], ask[r].size)
  IN  /\ stage[r] = "read"
      /\ \A l \in leases : l.from # range.from
      /\ leases' = Retired(d) \cup
           {[device |-> d, from |-> range.from, to |-> range.to, live |-> TRUE]}
      /\ granted' = [granted EXCEPT ![r] = range]
      /\ seriesLock' = NoRequest
      /\ stage' = [stage EXCEPT ![r] = "issued"]
      /\ UNCHANGED <<ask, highest, deviceVars, printed, salesVars>>

\* The end of a request, with what it had in memory.
Close(r) ==
  /\ stage' = [stage EXCEPT ![r] = "free"]
  /\ highest' = [highest EXCEPT ![r] = 0]
  /\ granted' = [granted EXCEPT ![r] = NoLease]
  /\ ask' = [ask EXCEPT ![r] = NoAsk]
  /\ UNCHANGED leases

\* (mutant) a lock taken for the session outlives the failed request
FailLeaseWedges(r) ==
  /\ stage[r] \in {"asked", "locked", "read"}
  /\ Close(r)
  /\ UNCHANGED seriesLock
  /\ waits' = [d \in Devices |-> IF waits[d] = r THEN NoRequest ELSE waits[d]]
  /\ UNCHANGED <<block, queue, resumed, printed, salesVars>>

\* It fails, or the process dies, before the commit.
FailLease(r) ==
  /\ stage[r] \in {"asked", "locked", "read"}
  /\ Close(r)
  /\ seriesLock' = IF seriesLock = r THEN NoRequest ELSE seriesLock
  /\ waits' = [d \in Devices |-> IF waits[d] = r THEN NoRequest ELSE waits[d]]
  /\ UNCHANGED <<block, queue, resumed, printed, salesVars>>

\* (mutant) an answer nobody waits for is installed too
InstallLeaseLate(r) ==
  LET d == ask[r].device
  IN  /\ stage[r] = "issued"
      /\ block' = [block EXCEPT ![d] = [next |-> granted[r].from, to |-> granted[r].to]]
      /\ waits' = [waits EXCEPT ![d] = NoRequest]
      /\ Close(r)
      /\ UNCHANGED <<seriesLock, queue, resumed, printed, salesVars>>

\* The device keeps the lease in its one row of the series: what was left of the
\* block before is a gap.
InstallLease(r) ==
  LET d == ask[r].device
  IN  /\ stage[r] = "issued" /\ waits[d] = r
      /\ block' = [block EXCEPT ![d] = [next |-> granted[r].from, to |-> granted[r].to]]
      /\ waits' = [waits EXCEPT ![d] = NoRequest]
      /\ Close(r)
      /\ UNCHANGED <<seriesLock, queue, resumed, printed, salesVars>>

\* Nobody waits for the answer.
DropLease(r) ==
  /\ stage[r] = "issued" /\ waits[ask[r].device] # r
  /\ Close(r)
  /\ UNCHANGED <<seriesLock, deviceVars, printed, salesVars>>

\* The device stops waiting; the server does not notice.
GiveUp(d) ==
  /\ waits[d] # NoRequest
  /\ waits' = [waits EXCEPT ![d] = NoRequest]
  /\ UNCHANGED <<leaseVars, block, queue, resumed, printed, salesVars>>

-----------------------------------------------------------------------------
(* The devices.                                                            *)

\* The app is reinstalled: lease, bills and outbox are gone from the phone,
\* the paper is not.
Reinstall(d) ==
  /\ block[d] # NoBlock
  /\ block' = [block EXCEPT ![d] = NoBlock]
  /\ waits' = [waits EXCEPT ![d] = NoRequest]
  /\ queue' = {b \in queue : b.by # d}
  /\ UNCHANGED <<leaseVars, resumed, printed, salesVars>>

\* currentLease: the live lease as it was issued; nextValue is never advanced.
Resume(d) ==
  /\ block[d] = NoBlock /\ waits[d] = NoRequest
  /\ \E l \in leases :
       /\ l.device = d /\ l.live
       /\ block' = [block EXCEPT ![d] = [next |-> l.from, to |-> l.to]]
  /\ resumed' = resumed \cup {d}
  /\ UNCHANGED <<leaseVars, waits, queue, printed, salesVars>>

NewBill(number, by) == [id |-> Cardinality(printed), number |-> number, by |-> by]

\* (mutant) the number is read and next_value stays
RecordSaleTwice(d) ==
  /\ Cardinality(printed) < MaxBills
  /\ block[d].next <= block[d].to
  /\ printed' = printed \cup {NewBill(block[d].next, d)}
  /\ queue' = queue \cup {NewBill(block[d].next, d)}
  /\ UNCHANGED <<leaseVars, waits, block, resumed, salesVars>>

\* recordSale: one local transaction draws the number, writes the bill and
\* queues it; with the block used up it is refused.
RecordSale(d) ==
  /\ Cardinality(printed) < MaxBills
  /\ block[d].next <= block[d].to
  /\ printed' = printed \cup {NewBill(block[d].next, d)}
  /\ queue' = queue \cup {NewBill(block[d].next, d)}
  /\ block' = [block EXCEPT ![d].next = @ + 1]
  /\ UNCHANGED <<leaseVars, waits, resumed, salesVars>>

\* A queued bill is pushed, under UNIQUE (shop, sale_number); a number that is
\* taken throws, and the operation stays queued: nothing changes.
Accept(b) ==
  /\ b \in queue
  /\ \A s \in sales : s.number # b.number
  /\ sales' = sales \cup {b}
  /\ UNCHANGED <<leaseVars, deviceVars, printed, saleLock, counter, drawn>>

\* Its answer arrives, or that of a replay: a bill already in the books is done.
Acknowledge(b) ==
  /\ b \in queue \cap sales
  /\ queue' = queue \ {b}
  /\ UNCHANGED <<leaseVars, waits, block, resumed, printed, salesVars>>

-----------------------------------------------------------------------------
(* The web.                                                                *)

\* (mutant) max() + 1 alone, without the lock
LockNumbersNot(t) ==
  /\ counter[t] = "free"
  /\ UNCHANGED saleLock
  /\ counter' = [counter EXCEPT ![t] = "locked"]
  /\ UNCHANGED <<leaseVars, deviceVars, printed, sales, drawn>>

\* nextSaleNumber: pg_advisory_xact_lock(shop:sale-number) ...
LockNumbers(t) ==
  /\ counter[t] = "free"
  /\ saleLock = NoTeller
  /\ saleLock' = t
  /\ counter' = [counter EXCEPT ![t] = "locked"]
  /\ UNCHANGED <<leaseVars, deviceVars, printed, sales, drawn>>

\* ... then the highest number of any sale in the books, plus one.
NextSaleNumber(t) ==
  /\ counter[t] = "locked"
  /\ drawn' = [drawn EXCEPT ![t] = Highest({s.number : s \in sales}) + 1]
  /\ counter' = [counter EXCEPT ![t] = "numbered"]
  /\ UNCHANGED <<leaseVars, deviceVars, printed, sales, saleLock>>

CloseSale(t) ==
  /\ counter' = [counter EXCEPT ![t] = "free"]
  /\ drawn' = [drawn EXCEPT ![t] = 0]
  /\ saleLock' = IF saleLock = t THEN NoTeller ELSE saleLock

\* The sale is inserted, under the same unique index, and commits.
CommitSale(t) ==
  /\ Cardinality(printed) < MaxBills
  /\ counter[t] = "numbered"
  /\ \A s \in sales : s.number # drawn[t]
  /\ sales' = sales \cup {NewBill(drawn[t], Web)}
  /\ printed' = printed \cup {NewBill(drawn[t], Web)}
  /\ CloseSale(t)
  /\ UNCHANGED <<leaseVars, deviceVars>>

\* It fails: the number is taken by then, or anything else goes wrong.
FailSale(t) ==
  /\ counter[t] # "free"
  /\ CloseSale(t)
  /\ UNCHANGED <<leaseVars, deviceVars, printed, sales>>

-----------------------------------------------------------------------------
LeaseStep(r) ==
  \/ \E d \in Devices : \E n \in Sizes : AskLease(r, d, n)
  \/ LockSeries(r) \/ ReadHighest(r) \/ IssueLease(r) \/ FailLease(r)
  \/ InstallLease(r) \/ DropLease(r)

DeviceStep(d) == GiveUp(d) \/ Reinstall(d) \/ Resume(d) \/ RecordSale(d)

BillStep(b) == Accept(b) \/ Acknowledge(b)

TellerStep(t) == LockNumbers(t) \/ NextSaleNumber(t) \/ CommitSale(t) \/ FailSale(t)

Next ==
  \/ \E r \in Requests : LeaseStep(r)
  \/ \E d \in Devices : DeviceStep(d)
  \/ \E b \in queue : BillStep(b)
  \/ \E t \in Tellers : TellerStep(t)

Spec == Init /\ [][Next]_vars
-----------------------------------------------------------------------------
(* Properties.                                                             *)

LeaseTypeOK ==
  /\ leases \subseteq Lease /\ IsFiniteSet(leases)
  /\ seriesLock \in Requests \cup {NoRequest}
  /\ stage \in [Requests -> {"free", "asked", "locked", "read", "issued"}]
  /\ \A r \in Requests : stage[r] \in {"locked", "read"} <=> seriesLock = r
  /\ ask \in [Requests -> [device : Devices, size : Sizes] \cup {NoAsk}]
  /\ \A r \in Requests : stage[r] = "free" <=> ask[r] = NoAsk
  /\ highest \in [Requests -> Nat] /\ granted \in [Requests -> [from : Nat, to : Nat]]

DeviceTypeOK ==
  /\ waits \in [Devices -> Requests \cup {NoRequest}]
  /\ block \in [Devices -> [next : Nat, to : Nat]]
  /\ resumed \subseteq Devices

SalesTypeOK ==
  /\ printed \subseteq Bill /\ IsFiniteSet(printed)
  /\ queue \subseteq printed /\ sales \subseteq printed
  /\ saleLock \in Tellers \cup {NoTeller}
  /\ counter \in [Tellers -> {"free", "locked", "numbered"}]
  /\ \A t \in Tellers : counter[t] # "free" <=> saleLock = t
  /\ drawn \in [Tellers -> Nat]

\* The shape of the state.  A request past its lock holds it, and so does a web
\* sale past its own; what is queued or in the books has been printed.
TypeOK == LeaseTypeOK /\ DeviceTypeOK /\ SalesTypeOK

\* No two leases share a number, whoever asked for them and whenever.
LeasesDisjoint ==
  \A l, m \in leases : l.from <= m.to /\ m.from <= l.to => l.from = m.from

\* A device has one live lease, however many requests of it are running: what
\* it resumes after a reinstall is never a block it has been told to give up.
OneLiveLease ==
  \A l, m \in leases : l.live /\ m.live /\ l.device = m.device => l = m

OfDevices(bills) == {b \in bills : b.by # Web}

\* No two bills printed by devices bear the same number, offline for as long as
\* they like, over lost answers, abandoned requests and reinstalls: unless one
\* device took up again a lease it had already drawn from.
DevicesPrintOnce ==
  \A a, b \in OfDevices(printed) :
    a.number = b.number => a = b \/ (a.by = b.by /\ a.by \in resumed)

\* The numbers of one device rise, with the same exception.
NumbersRise ==
  \A a, b \in OfDevices(printed) :
    a.by = b.by /\ a.by \notin resumed /\ a.id < b.id => a.number < b.number

\* Two web sales never meet on a number: the second reads the first one's.
WebNumbersFresh ==
  \A t \in Tellers : counter[t] = "numbered" =>
    \A s \in sales : s.by = Web => s.number # drawn[t]
=============================================================================
