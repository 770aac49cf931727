------------------------------- MODULE Books -------------------------------
(***************************************************************************)
(* The shop's books: bills, what was returned of them, the payments for    *)
(* them, one customer's khata and the stock card of every product.         *)
(*                                                                         *)
(* A request runs in one READ COMMITTED transaction.  It reads the         *)
(* documents first, without locks, then takes row locks one by one in the  *)
(* order its handler writes, reading each balance row under its lock, and  *)
(* commits everything at once.  What another request commits between the   *)
(* two is not seen.  A crash, a timeout, an exception and the victim of a  *)
(* deadlock all end in a rollback.                                         *)
(*                                                                         *)
(* One shop, one customer on every bill, unit prices of one, one counter   *)
(* payment a bill, one line a product.  A bill is paid for with less than  *)
(* its lines are worth where it has a discount, with more where it was     *)
(* rounded up.                                                             *)
(***************************************************************************)
EXTENDS Integers, Sequences, FiniteSets, Functions

CONSTANTS
  ProductCount,  \* number of products, numbered as applyMovements sorts them
  Sales,         \* bill ids, in the order of their dates
  Collections,   \* ids of payments taken on the khata
  Requests,      \* requests the server may be running
  NoRequest,     \* none of them
  Sold,          \* Sold[s][p]: quantity of p on bill s
  Paid,          \* Paid[s]: paid at the counter
  Credit,        \* Credit[s]: put on the khata
  Amount,        \* Amount[c]: the amount of a collection
  Corrections,   \* amounts by which an account is corrected by hand
  MaxNamed,      \* bound: how often one return names the same line
  MaxRequests    \* bound: requests begun

Products == 1..ProductCount

ASSUME BooksAssumption ==
  /\ ProductCount \in Nat
  \* What two requests raced on is told by the sales: there is one at least.
  /\ Sales \subseteq Nat \ {0} /\ IsFiniteSet(Sales) /\ Sales # {}
  /\ IsFiniteSet(Collections)
  /\ Sales \cap Collections = {} /\ NoRequest \notin Requests
  /\ Corrections \subseteq Int \ {0}
  /\ Sold \in [Sales -> [Products -> Nat]]
  /\ Paid \in [Sales -> Nat] /\ Credit \in [Sales -> Nat]
  /\ Amount \in [Collections -> Nat] /\ MaxRequests \in Nat /\ MaxNamed \in Nat

VARIABLES
  status,     \* of each sale
  returned,   \* quantities on its returns
  refunds,    \* and what they gave back, in cash and on the khata
  payment,    \* each payment row: "none", "live" or "reversed"
  outs,       \* OUT rows that reverse it
  alloc,      \* payment_allocation of the collections
  balance,    \* customer_balance and inventory_balance
  log,        \* customer_ledger_entry and inventory_transaction
  owner,      \* who holds the lock on each row
  stage,      \* where each request is
  job,        \* what it has read and is about to write
  todo,       \* rows it has yet to lock
  before,     \* balances it read under their locks
  begun,      \* requests begun so far
  raced,      \* sales two requests were working on at once (history)
  byHand,     \* sales with an allocation chosen by hand (history)
  repeated    \* sales of which one return named a line more than once (history)

documents == <<status, returned, refunds, payment, outs, alloc>>
accounts  == <<balance, log>>
requests  == <<owner, stage, job, todo, before, begun>>
history   == <<raced, byHand, repeated>>
vars      == <<documents, accounts, requests, history>>

Payments == Sales \cup Collections

Row(table, id) == [table |-> table, id |-> id]
Khata      == Row("khata", 0)
Product(p) == Row("product", p)
Sale(s)    == Row("sale", s)
Payment(p) == Row("payment", p)
\* The advisory lock on (shop, return-number).
ReturnNumber == Row("number", 0)

Accounts == {Khata} \cup {Product(p) : p \in Products}
Rows == Accounts \cup {Sale(s) : s \in Sales} \cup {Payment(p) : p \in Payments} \cup {ReturnNumber}

\* What a request posts: money on the khata, goods on the stock cards.
Posts(money, goods) == [a \in Accounts |-> IF a = Khata THEN money ELSE goods[a.id]]
Nothing == [p \in Products |-> 0]
Minus(goods) == [p \in Products |-> -goods[p]]
NoPosts == Posts(0, Nothing)
NoAlloc == [s \in Sales |-> 0]
\* What a request has read and is about to write.
Job(op, id, posts, cash, shares) ==
  [op |-> op, id |-> id, posts |-> posts, cash |-> cash, alloc |-> shares]
NoJob == Job("none", 0, NoPosts, 0, NoAlloc)

Init ==
  /\ status = [s \in Sales |-> "none"]
  /\ returned = [s \in Sales |-> Nothing]
  /\ refunds = [s \in Sales |-> [cash |-> 0, credit |-> 0]]
  /\ payment = [p \in Payments |-> "none"]
  /\ outs = [p \in Payments |-> 0]
  /\ alloc = [c \in Collections |-> NoAlloc]
  /\ balance = [a \in Accounts |-> 0]
  /\ log = [a \in Accounts |-> <<>>]
  /\ owner = [x \in Rows |-> NoRequest]
  /\ stage = [r \in Requests |-> "idle"]
  /\ job = [r \in Requests |-> NoJob]
  /\ todo = [r \in Requests |-> {}]
  /\ before = [r \in Requests |-> [a \in Accounts |-> 0]]
  /\ begun = 0 /\ raced = {} /\ byHand = {} /\ repeated = {}

-----------------------------------------------------------------------------
(* A request and its locks.                                                *)

\* Rows its handler locks or inserts: the documents, and the balance of every
\* account it posts to.
Needs(j) ==
  {a \in Accounts : j.posts[a] # 0} \cup
  CASE j.op = "create"  -> {Sale(j.id)}
    [] j.op = "cancel"  -> {Sale(j.id)} \cup IF Paid[j.id] > 0 THEN {Payment(j.id)} ELSE {}
    [] j.op = "return"  -> {ReturnNumber, Sale(j.id)}
    [] j.op = "adjust"  -> {}
    [] OTHER            -> {Payment(j.id)}

\* The sales it reads, or whose documents it changes.
Scope(j) ==
  CASE j.op = "adjust"  -> {}
    [] j.id \in Sales   -> {j.id}
    [] OTHER            -> Sales

Running(r) == stage[r] # "idle"

\* A request has arrived, and found no reason to refuse in what it read.
Start(r, j, next) ==
  /\ stage[r] = "idle" /\ begun < MaxRequests
  /\ begun' = begun + 1
  /\ job' = [job EXCEPT ![r] = j]
  /\ stage' = [stage EXCEPT ![r] = next]
  /\ todo' = [todo EXCEPT ![r] = IF next = "locking" THEN Needs(j) ELSE {}]
  /\ raced' = raced \cup
       {s \in Scope(j) : \E q \in Requests \ {r} : Running(q) /\ s \in Scope(job[q])}
  /\ UNCHANGED <<documents, accounts, owner, before, repeated>>

\* The order in which a handler comes to its rows.
Places(op) ==
  CASE op = "create"  -> <<"sale", "khata", "product">>
    [] op = "cancel"  -> <<"sale", "product", "khata", "payment">>
    [] op = "return"  -> <<"number", "product", "khata", "sale">>
    [] OTHER          -> <<"payment", "khata", "product">>

Place(op, x) == CHOOSE i \in 1..Len(Places(op)) : Places(op)[i] = x.table

\* (mutant) the movements of a bill are made in cart order, rising or falling
PrecedesAsInCart(j, x, y) ==
  IF x.table # y.table THEN Place(j.op, x) < Place(j.op, y)
  ELSE IF j.id = 1 THEN x.id < y.id ELSE y.id < x.id

\* applyMovements sorts by product id; of other tables a request locks one row.
Precedes(j, x, y) ==
  IF x.table # y.table THEN Place(j.op, x) < Place(j.op, y) ELSE x.id < y.id

\* The row r is at: it has it next, or waits for it.
AtRow(r, x) ==
  /\ stage[r] = "locking" /\ x \in todo[r]
  /\ \A y \in todo[r] \ {x} : Precedes(job[r], x, y)

\* (mutant) SELECT without FOR UPDATE
GrantsAlways(x) == x \in Rows

\* FOR UPDATE, UPDATE, a duplicate key or the advisory lock: one holder at a time.
Grants(x) == x \in Rows /\ owner[x] = NoRequest

\* The balance is read with the lock, and what was committed before it is seen.
Lock(r) == \E x \in todo[r] :
  /\ AtRow(r, x) /\ Grants(x)
  /\ owner' = [owner EXCEPT ![x] = r]
  /\ todo' = [todo EXCEPT ![r] = @ \ {x}]
  /\ before' = IF x \in Accounts THEN [before EXCEPT ![r][x] = balance[x]] ELSE before
  /\ UNCHANGED <<documents, accounts, stage, job, begun, history>>

\* (mutant) a lock of the session outlives the transaction
ReleaseKeepsLocks(r) ==
  /\ stage' = [stage EXCEPT ![r] = "idle"]
  /\ job' = [job EXCEPT ![r] = NoJob]
  /\ todo' = [todo EXCEPT ![r] = {}]
  /\ before' = [before EXCEPT ![r] = [a \in Accounts |-> 0]]
  /\ UNCHANGED <<owner, begun, history>>

\* Every lock goes with the transaction.
Release(r) ==
  /\ owner' = [x \in Rows |-> IF owner[x] = r THEN NoRequest ELSE owner[x]]
  /\ stage' = [stage EXCEPT ![r] = "idle"]
  /\ job' = [job EXCEPT ![r] = NoJob]
  /\ todo' = [todo EXCEPT ![r] = {}]
  /\ before' = [before EXCEPT ![r] = [a \in Accounts |-> 0]]
  /\ UNCHANGED <<begun, history>>

Abort(r) == Running(r) /\ Release(r) /\ UNCHANGED <<documents, accounts>>

\* append and applyMovement: the entry is stamped with the balance it leaves,
\* and the balance row is set to it.
Posting(r, a) ==
  [op |-> job[r].op, ref |-> job[r].id, amount |-> job[r].posts[a],
   after |-> before[r][a] + job[r].posts[a]]

Moved(r) == {a \in Accounts : job[r].posts[a] # 0}

Post(r) ==
  /\ balance' = [a \in Accounts |-> IF a \in Moved(r) THEN Posting(r, a).after ELSE balance[a]]
  /\ log' = [a \in Accounts |-> IF a \in Moved(r) THEN Append(log[a], Posting(r, a)) ELSE log[a]]

\* The last statement has its locks; the transaction commits.
Commits(r, op) ==
  /\ stage[r] = "locking" /\ todo[r] = {} /\ job[r].op = op
  /\ Post(r) /\ Release(r)

-----------------------------------------------------------------------------
(* Sales.                                                                  *)

\* What a bill posts, and what undoes it.
Billing(s) == Job("create", s, Posts(Credit[s], Minus(Sold[s])), 0, NoAlloc)
Undoing(s) == Job("cancel", s, Posts(-Credit[s], Sold[s]), 0, NoAlloc)

\* create of a sale that is not there yet; one that is is answered as it stands.
BeginCreate(r, s) ==
  /\ status[s] = "none"
  /\ Start(r, Billing(s), "locking")
  /\ UNCHANGED byHand

\* The sale, its counter payment, the credit on the khata, the stock; the
\* primary key refuses a second one.
CommitCreate(r) == LET s == job[r].id IN
  /\ Commits(r, "create") /\ status[s] = "none"
  /\ status' = [status EXCEPT ![s] = "COMPLETED"]
  /\ payment' = [payment EXCEPT ![s] = IF Paid[s] > 0 THEN "live" ELSE @]
  /\ UNCHANGED <<returned, refunds, outs, alloc>>

\* cancel reads the sale; one that is cancelled is answered as it stands.
BeginCancel(r, s) ==
  /\ status[s] = "COMPLETED"
  /\ Start(r, Undoing(s), "reading")
  /\ UNCHANGED byHand

\* The request has read all it wants to and goes on to write.
GoOn(r, j) ==
  /\ stage' = [stage EXCEPT ![r] = "locking"]
  /\ job' = [job EXCEPT ![r] = j]
  /\ todo' = [todo EXCEPT ![r] = Needs(j)]
  /\ UNCHANGED <<documents, accounts, owner, before, begun, raced, byHand>>

\* ... and refuses one with returns.
CountReturns(r) ==
  /\ stage[r] = "reading" /\ job[r].op = "cancel"
  /\ returned[job[r].id] = Nothing
  /\ GoOn(r, job[r])
  /\ UNCHANGED repeated

\* Stock back, credit reversed, and every counter payment given back: those
\* already reversed too.
CommitCancel(r) == LET s == job[r].id IN
  /\ Commits(r, "cancel")
  /\ status' = [status EXCEPT ![s] = "CANCELLED"]
  /\ payment' = [payment EXCEPT ![s] = IF Paid[s] > 0 THEN "reversed" ELSE @]
  /\ outs' = [outs EXCEPT ![s] = IF Paid[s] > 0 THEN @ + 1 ELSE @]
  /\ UNCHANGED <<returned, refunds, alloc>>

-----------------------------------------------------------------------------
(* Returns.                                                                *)

BeginReturn(r, s) ==
  /\ status[s] = "COMPLETED"
  /\ Start(r, Job("return", s, NoPosts, 0, NoAlloc), "reading")
  /\ UNCHANGED byHand

\* (mutant) each line is measured against what is left of the whole bill
ReturnableOfBill(s, p) == SumFunction(Sold[s]) - SumFunction(returned[s])

\* resolveLines: what was sold less what has come back.
Returnable(s, p) == Sold[s][p] - returned[s][p]

\* (mutant) everything may be handed back in cash
MaxCashAll(s, total) == total

\* The credit of the bill as issued goes first, whatever is left of it.
MaxCash(s, total) == IF total <= Credit[s] THEN 0 ELSE total - Credit[s]

\* What the lines of a bill are worth, whatever was paid for them.
Worth(s) == SumFunction(Sold[s])

\* returnedQuantities, then the lines and the split; the rest stays credit.  A line
\* may be named more than once, and each time it is measured against what earlier
\* returns left of it, never against the rest of the request.
ReadReturned(r) == LET s == job[r].id IN
  /\ stage[r] = "reading" /\ job[r].op = "return"
  /\ \E named \in [Products -> 0..MaxNamed], back \in [Products -> 0..(MaxNamed * Worth(s))] :
       /\ back # Nothing
       /\ \A p \in Products : named[p] <= back[p] /\ back[p] <= named[p] * Returnable(s, p)
       /\ repeated' = IF \E p \in Products : named[p] > 1 THEN repeated \cup {s} ELSE repeated
       /\ \E cash \in 0..MaxCash(s, SumFunction(back)) :
            GoOn(r, Job("return", s, Posts(cash - SumFunction(back), back), cash, NoAlloc))

\* The return and its lines, stock back, credit reversed, cash paid out.
CommitReturn(r) == LET s == job[r].id IN
  /\ Commits(r, "return")
  /\ returned' = [returned EXCEPT ![s] = [p \in Products |-> @[p] + job[r].posts[Product(p)]]]
  /\ refunds' = [refunds EXCEPT ![s].cash = @ + job[r].cash, ![s].credit = @ - job[r].posts[Khata]]
  /\ UNCHANGED <<status, payment, outs, alloc>>

-----------------------------------------------------------------------------
(* The khata.                                                              *)

Live(c) == payment[c] = "live"

Least(m, n) == IF m < n THEN m ELSE n
Most(m, n)  == IF m < n THEN n ELSE m

\* What the live payments have cleared of a bill, the counter payment included.
Allocated(s) ==
  (IF Live(s) THEN Paid[s] ELSE 0) +
  SumFunction([c \in {d \in Collections : Live(d)} |-> alloc[c][s]])

\* (mutant) what earlier payments cleared is not subtracted
OpenAsIssued(s) ==
  IF status[s] = "COMPLETED" THEN Most(0, Credit[s] - refunds[s].credit) ELSE 0

\* The open-bill query.
Open(s) ==
  IF status[s] = "COMPLETED" THEN Most(0, Credit[s] - Allocated(s) - refunds[s].credit) ELSE 0

\* allocateFifo: the oldest bill first, as far as the money goes.
Fifo(money) == [s \in Sales |->
  Least(Open(s), Most(0, money - SumFunction([t \in {u \in Sales : u < s} |-> Open(t)])))]

Collect(r, c, shares) ==
  /\ payment[c] = "none"
  /\ Start(r, Job("collect", c, Posts(-Amount[c], Nothing), 0, shares), "locking")

\* record: the open bills are read before anything is locked.
BeginCollect(r, c) == Collect(r, c, Fifo(Amount[c])) /\ UNCHANGED byHand

\* applyManualAllocations: any bills, up to the amount of the payment.
BeginCollectByHand(r, c) == \E shares \in [{s \in Sales : status[s] # "none"} -> 0..Amount[c]] :
  /\ SumFunction(shares) <= Amount[c]
  /\ Collect(r, c, [s \in Sales |-> IF s \in DOMAIN shares THEN shares[s] ELSE 0])
  /\ byHand' = byHand \cup {s \in DOMAIN shares : shares[s] > 0}

\* The payment, its allocations, and the khata.
CommitCollect(r) == LET c == job[r].id IN
  /\ Commits(r, "collect") /\ payment[c] = "none"
  /\ payment' = [payment EXCEPT ![c] = "live"]
  /\ alloc' = [alloc EXCEPT ![c] = job[r].alloc]
  /\ UNCHANGED <<status, returned, refunds, outs>>

AmountOf(p) == IF p \in Sales THEN Paid[p] ELSE Amount[p]
Reversing(p) == Job("reverse", p, Posts(AmountOf(p), Nothing), 0, NoAlloc)

\* (mutant) reversedByPaymentId is not looked at
BeginReversalAnyway(r, p) ==
  /\ payment[p] # "none"
  /\ Start(r, Reversing(p), "locking")
  /\ UNCHANGED byHand

\* reverse, of a payment not reversed yet: of a collection or over the counter.
BeginReversal(r, p) ==
  /\ Live(p)
  /\ Start(r, Reversing(p), "locking")
  /\ UNCHANGED byHand

\* An OUT row, the mark on the payment, the khata; the allocations stay.
CommitReversal(r) == LET p == job[r].id IN
  /\ Commits(r, "reverse")
  /\ payment' = [payment EXCEPT ![p] = "reversed"]
  /\ outs' = [outs EXCEPT ![p] = @ + 1]
  /\ UNCHANGED <<status, returned, refunds, alloc>>

\* The other callers of append and applyMovement: a correction of the khata, an
\* opening balance, stock received, counted or written off.
BeginAdjust(r, a, n) ==
  /\ Start(r, Job("adjust", 0, [x \in Accounts |-> IF x = a THEN n ELSE 0], 0, NoAlloc), "locking")
  /\ UNCHANGED byHand

CommitAdjust(r) == Commits(r, "adjust") /\ UNCHANGED documents

-----------------------------------------------------------------------------
CreateStep(r) == (\E s \in Sales : BeginCreate(r, s)) \/ CommitCreate(r)

CancelStep(r) ==
  \/ \E s \in Sales : BeginCancel(r, s)
  \/ CountReturns(r) \/ CommitCancel(r)

ReturnStep(r) ==
  \/ \E s \in Sales : BeginReturn(r, s)
  \/ ReadReturned(r) \/ CommitReturn(r)

CollectStep(r) ==
  \/ \E c \in Collections : BeginCollect(r, c) \/ BeginCollectByHand(r, c)
  \/ CommitCollect(r)

ReverseStep(r) == (\E p \in Payments : BeginReversal(r, p)) \/ CommitReversal(r)

AdjustStep(r) ==
  \/ \E a \in Accounts, n \in Corrections : BeginAdjust(r, a, n)
  \/ CommitAdjust(r)

RequestStep(r) ==
  \/ Lock(r) \/ Abort(r)
  \/ CreateStep(r) \/ CancelStep(r) \/ ReturnStep(r)
  \/ CollectStep(r) \/ ReverseStep(r) \/ AdjustStep(r)

Next == \E r \in Requests : RequestStep(r)

Spec == Init /\ [][Next]_vars
-----------------------------------------------------------------------------
(* Reconciliation: what support asks for, and the sweep every night.       *)

Total(a) == SumFunction([i \in DOMAIN log[a] |-> log[a][i].amount])

\* reconcile of the stock and of the khata: balances that are not the sum of
\* their entries, reported and never healed.
StockMismatches == {p \in Products : balance[Product(p)] # Total(Product(p))}
KhataMismatches == {a \in {Khata} : balance[a] # Total(a)}

\* reconcileAllShops, of this shop: the stock is asked for, the khata is not.
ShopsWithMismatch == IF StockMismatches = {} THEN 0 ELSE 1
-----------------------------------------------------------------------------
(* Properties.                                                             *)

Ops == {"create", "cancel", "return", "collect", "reverse", "adjust"}
Stages == {"idle", "reading", "locking"}
Entry == [op : Ops, ref : Payments \cup {0}, amount : Int, after : Int]

DocumentsTypeOK ==
  /\ status \in [Sales -> {"none", "COMPLETED", "CANCELLED"}]
  /\ returned \in [Sales -> [Products -> Nat]]
  /\ refunds \in [Sales -> [cash : Nat, credit : Nat]]
  /\ payment \in [Payments -> {"none", "live", "reversed"}]
  /\ outs \in [Payments -> Nat]
  /\ alloc \in [Collections -> [Sales -> Nat]]

AccountsTypeOK ==
  /\ balance \in [Accounts -> Int]
  /\ log \in [Accounts -> Seq(Entry)]

RequestsTypeOK ==
  /\ owner \in [Rows -> Requests \cup {NoRequest}]
  /\ stage \in [Requests -> Stages]
  /\ job \in [Requests -> [op : Ops \cup {"none"}, id : Payments \cup {0}, cash : Nat,
                           posts : [Accounts -> Int], alloc : [Sales -> Nat]]]
  /\ todo \in [Requests -> SUBSET Rows]
  /\ before \in [Requests -> [Accounts -> Int]]
  /\ begun \in Nat /\ raced \subseteq Sales /\ byHand \subseteq Sales
  /\ repeated \subseteq Sales

\* A locking request holds the rows it needs and has not still to lock.
LocksTypeOK == \A r \in Requests : \A x \in Rows :
  owner[x] = r <=> stage[r] = "locking" /\ x \in Needs(job[r]) \ todo[r]

\* The shape of the state.
TypeOK == DocumentsTypeOK /\ AccountsTypeOK /\ RequestsTypeOK /\ LocksTypeOK

Statement == INSTANCE RunningBalance

\* "balance == sum of entries", and the running balance of a statement: whatever
\* requests run at once and wherever they roll back, each entry is stamped with
\* the balance before it and its amount, and the balance row is the last stamp.
KeepsStatement == Statement!Spec

WaitsForStock(r, q) == \E p \in Products : AtRow(r, Product(p)) /\ owner[Product(p)] = q

\* "Makes the deadlock structurally impossible": requests never wait in a circle
\* for each other's stock rows, however many products they move.  In every group
\* one at least waits for nobody's in it.
StockNeverDeadlocks ==
  \A group \in (SUBSET Requests) \ {{}} : \E r \in group : \A q \in group : ~WaitsForStock(r, q)

\* Sales no two requests were ever working on at once.
InTurn == Sales \ raced

TakenBack(s, p) == IF status[s] = "CANCELLED" THEN Sold[s][p] ELSE 0

\* Of these, the ones whose returns named no line twice in one request: what is
\* named twice is measured twice against the same rest, and nothing else stops it.
Plain == InTurn \ repeated

\* "Three returns of 1 kg against a 2 kg purchase must fail on the third", and a
\* bill with returns is not cancelled: whatever the returns and the cancellation
\* of a bill come in, no more of a product comes back than the bill sold.
GoodsComeBackOnce ==
  \A s \in Plain : \A p \in Products : returned[s][p] + TakenBack(s, p) <= Sold[s][p]

\* What a discount on the bill took off its lines; below zero where it was rounded up.
TakenOff(s) == Worth(s) - Paid[s] - Credit[s]

\* "Refund cash, never exceeding what was actually paid", over all returns of a
\* bill and however their cash and credit are split - and what the discount took
\* off the bill, since lines come back at their own value.  Paid is what the bill
\* says was paid: a counter payment that bounced since still counts.
CashWithinPaid ==
  \A s \in Plain : refunds[s].cash <= Most(0, Paid[s] + TakenOff(s))

\* First in, first out over any sequence of collections, reversals and returns:
\* the live payments never clear more of a bill than its credit, where none was
\* allocated by hand.
AllocatedWithinCredit ==
  \A s \in InTurn \ byHand :
    SumFunction([c \in {d \in Collections : Live(d)} |-> alloc[c][s]]) <= Credit[s]

Issued(s) == IF status[s] = "COMPLETED" THEN 1 ELSE 0
\* OUT rows of the counter payment that are reversals, not the cancellation.
Bounced(s) == IF status[s] = "CANCELLED" /\ Paid[s] > 0 THEN outs[s] - 1 ELSE outs[s]

\* What was corrected by hand.
Adjusted(a) ==
  SumFunction([i \in {k \in DOMAIN log[a] : log[a][k].op = "adjust"} |-> log[a][i].amount])

\* The khata and the stock cards are what the documents add up to: the credit of
\* the bills that stand, less what returns and collections took off, plus the
\* counter payments that bounced; goods returned less goods sold; and corrections.
DocumentsAgree ==
  /\ balance[Khata] = Adjusted(Khata) +
       SumFunction([s \in Sales |-> Issued(s) * Credit[s] + Bounced(s) * Paid[s] - refunds[s].credit])
       - SumFunction([c \in {d \in Collections : Live(d)} |-> Amount[c]])
  /\ \A p \in Products : balance[Product(p)] = Adjusted(Product(p)) +
       SumFunction([s \in Sales |-> returned[s][p] - Issued(s) * Sold[s][p]])

\* Support and the nightly sweep find nothing, whatever raced; and where no two
\* requests worked on one bill the balances are what the documents add up to.
BooksAgree ==
  /\ ShopsWithMismatch = 0 /\ KhataMismatches = {}
  /\ raced = {} => DocumentsAgree

Cancellations(s, a) == {i \in DOMAIN log[a] : log[a][i].op = "cancel" /\ log[a][i].ref = s}

\* "A double-tapped cancel must not return stock twice": no account bears two
\* cancellations of one bill.
CancelledOnce ==
  \A s \in Sales : \A a \in Accounts : \A i, k \in Cancellations(s, a) : i = k
=============================================================================
