---------------------------- MODULE BooksProofs ----------------------------
(***************************************************************************)
(* Theorems about the books and the customer beside them, for any shop,    *)
(* any bills and any number of requests:                                   *)
(*                                                                         *)
(*   BooksType, CustomersType       the shape of the state                 *)
(*   StatementIsKept, ListedStatement   KeepsStatement, the refinement     *)
(*   StockIsFree, StockStaysFree    StockNeverDeadlocks                    *)
(*   BillsAreBounded, GoodsAndCash, CollectionsFit                         *)
(*                                what comes back of a bill, what is paid  *)
(*                                out for it, what is cleared of it        *)
(*   BooksBalance, DocumentsAddUp   BooksAgree                             *)
(*   ReadsHold                      KhataReadsHold                         *)
(*                                                                         *)
(* The argument.  BInv: a request holds exactly the rows it needs and has  *)
(* not still to lock, so what it read of a balance under its lock is the   *)
(* balance when it commits; and every stock row it holds lies below every  *)
(* one it has still to lock, so a circle of waits would have to rise for   *)
(* ever.  DInv: what a request has read of a bill without a lock still     *)
(* stands when it commits, unless another request was looking at the bill  *)
(* (raced), so the bounds it checked are the bounds it keeps.  Agreement:  *)
(* each commit moves a balance by what its job posts, and the sum over the *)
(* documents by the same amount.  CInv: the khata moves only with an entry *)
(* more, so as long as it has the entries it had when a request read it,   *)
(* the balance is the one it read.                                         *)
(***************************************************************************)
EXTENDS Customers, NumberFacts

JobOK(j) ==
  /\ j.op \in Ops
  /\ j.id \in Payments \cup {0}
  /\ j.op \in {"collect", "reverse"} => j.id \in Payments
  /\ j.op \in {"create", "cancel", "return"} => j.id \in Sales
  /\ j.posts \in [Accounts -> Int]

RequestsOK ==
  /\ owner \in [Rows -> Requests \cup {NoRequest}]
  /\ stage \in [Requests -> Stages]
  /\ todo \in [Requests -> SUBSET Rows]
  /\ before \in [Requests -> [Accounts -> Int]]
  /\ job = [q \in Requests |-> job[q]]
  /\ \A q \in Requests : stage[q] # "idle" => JobOK(job[q])
  /\ \A q \in Requests : todo[q] \subseteq Needs(job[q])
  /\ LocksTypeOK

\* What a request has read under a lock it holds is still so.
BeforeIsBalance ==
  \A q \in Requests : \A a \in Accounts : owner[a] = q => before[q][a] = balance[a]

\* The stock rows a request holds lie below those it has still to lock.
HeldBelow ==
  \A q \in Requests : \A k, p \in Products :
    owner[Product(k)] = q /\ Product(p) \in todo[q] => k < p

BInv == AccountsTypeOK /\ RequestsOK /\ BeforeIsBalance /\ HeldBelow

-----------------------------------------------------------------------------
(* Rows and jobs.                                                          *)

LEMMA ProductsFinite == IsFiniteSet(Products)
BY FS_Interval, BooksAssumption DEF Products

LEMMA SumOfNaturals ==
  ASSUME NEW S, IsFiniteSet(S), NEW f \in [S -> Nat]
  PROVE  SumFunction(f) \in Nat
BY SumNat DEF SumFunction

LEMMA RowFacts ==
  /\ Accounts \subseteq Rows
  /\ \A p \in Products : Product(p) \in Accounts
  /\ Khata \in Accounts
  /\ \A s \in Sales : Sale(s) \in Rows /\ Sale(s) \notin Accounts
  /\ \A p \in Payments : Payment(p) \in Rows /\ Payment(p) \notin Accounts
  /\ ReturnNumber \in Rows
  /\ \A k, p \in Products : Product(k) = Product(p) => k = p
BY DEF Accounts, Rows, Khata, Product, Sale, Payment, ReturnNumber, Row

LEMMA NeedsRows ==
  ASSUME NEW j, JobOK(j)
  PROVE  Needs(j) \subseteq Rows /\ \A a \in Accounts : j.posts[a] # 0 => a \in Needs(j)
<1>1. /\ j.op \in Ops
      /\ j.op \in {"collect", "reverse"} => j.id \in Payments
      /\ j.op \in {"create", "cancel", "return"} => j.id \in Sales
  BY DEF JobOK
<1> QED BY <1>1, RowFacts DEF Needs, Ops, Payments

LEMMA PostsType ==
  ASSUME NEW money \in Int, NEW goods \in [Products -> Int]
  PROVE  Posts(money, goods) \in [Accounts -> Int]
<1>1. \A a \in Accounts : a # Khata => a.id \in Products
  BY DEF Accounts, Product, Khata, Row
<1> QED BY <1>1 DEF Posts

LEMMA JobFields ==
  ASSUME NEW op, NEW id, NEW posts, NEW cash, NEW shares
  PROVE  /\ Job(op, id, posts, cash, shares).op = op
         /\ Job(op, id, posts, cash, shares).id = id
         /\ Job(op, id, posts, cash, shares).posts = posts
BY DEF Job

LEMMA GoodJobs ==
  /\ \A s \in Sales : JobOK(Billing(s)) /\ JobOK(Undoing(s))
  /\ \A s \in Sales : JobOK(Job("return", s, NoPosts, 0, NoAlloc))
  /\ \A p \in Payments : JobOK(Reversing(p))
<1>1. Nothing \in [Products -> Int] /\ NoPosts \in [Accounts -> Int]
  BY PostsType DEF Nothing, NoPosts
<1>2. ASSUME NEW s \in Sales PROVE JobOK(Billing(s))
  <2>1. Credit[s] \in Int /\ Minus(Sold[s]) \in [Products -> Int]
    BY BooksAssumption DEF Minus
  <2>2. Posts(Credit[s], Minus(Sold[s])) \in [Accounts -> Int]
    BY <2>1, PostsType
  <2> QED BY <2>2, JobFields DEF JobOK, Billing, Ops, Payments
<1>3. ASSUME NEW s \in Sales PROVE JobOK(Undoing(s))
  <2>1. -Credit[s] \in Int /\ Sold[s] \in [Products -> Int]
    BY BooksAssumption
  <2>2. Posts(-Credit[s], Sold[s]) \in [Accounts -> Int]
    BY <2>1, PostsType
  <2> QED BY <2>2, JobFields DEF JobOK, Undoing, Ops, Payments
<1>4. ASSUME NEW s \in Sales PROVE JobOK(Job("return", s, NoPosts, 0, NoAlloc))
  BY <1>1, JobFields DEF JobOK, Ops, Payments
<1>5. ASSUME NEW p \in Payments PROVE JobOK(Reversing(p))
  <2>1. AmountOf(p) \in Int
    BY BooksAssumption DEF AmountOf, Payments
  <2>2. Posts(AmountOf(p), Nothing) \in [Accounts -> Int]
    BY <1>1, <2>1, PostsType
  <2> QED BY <2>2, JobFields DEF JobOK, Reversing, Ops
<1> QED BY <1>2, <1>3, <1>4, <1>5

-----------------------------------------------------------------------------
(* The invariant at the start, and over the steps that leave the accounts. *)

LEMMA InitKeeps == Init => BInv
<1> SUFFICES ASSUME Init PROVE BInv
  OBVIOUS
<1>1. AccountsTypeOK
  BY DEF Init, AccountsTypeOK
<1>2. \A q \in Requests : stage[q] = "idle" /\ todo[q] = {}
  BY DEF Init
<1>3. \A x \in Rows : owner[x] = NoRequest
  BY DEF Init
<1>4. \A q \in Requests : q # NoRequest
  BY BooksAssumption
<1>5. LocksTypeOK
  BY <1>2, <1>3, <1>4 DEF LocksTypeOK
<1>6. RequestsOK
  BY <1>2, <1>3, <1>5 DEF Init, RequestsOK, Stages
<1>7. BeforeIsBalance /\ HeldBelow
  BY <1>2, <1>3, <1>4, RowFacts DEF BeforeIsBalance, HeldBelow
<1> QED BY <1>1, <1>6, <1>7 DEF BInv

\* A request that is not locking holds nothing.
LEMMA HoldsNothing ==
  ASSUME BInv, NEW r \in Requests, stage[r] # "locking", NEW x \in Rows
  PROVE  owner[x] # r
BY DEF BInv, RequestsOK, LocksTypeOK

\* r comes to a stage with nothing locked: as it begins, and as it goes on to write.
LEMMA StageKeeps ==
  ASSUME BInv, NEW r \in Requests, stage[r] # "locking", NEW j, JobOK(j),
         NEW next \in {"reading", "locking"},
         stage' = [stage EXCEPT ![r] = next], job' = [job EXCEPT ![r] = j],
         todo' = [todo EXCEPT ![r] = IF next = "locking" THEN Needs(j) ELSE {}],
         UNCHANGED <<accounts, owner, before>>
  PROVE  BInv'
<1>1. \A x \in Rows : owner[x] # r
  BY HoldsNothing
<1>2. owner' = owner /\ before' = before /\ balance' = balance /\ log' = log
  BY DEF accounts
<1>3. /\ stage'[r] = next /\ job'[r] = j
      /\ todo'[r] = IF next = "locking" THEN Needs(j) ELSE {}
      /\ \A q \in Requests \ {r} : stage'[q] = stage[q] /\ job'[q] = job[q] /\ todo'[q] = todo[q]
  BY DEF BInv, RequestsOK
<1>4. AccountsTypeOK'
  BY <1>2 DEF BInv, AccountsTypeOK
<1>5. RequestsOK'
  <2>1. stage' \in [Requests -> Stages]
    BY DEF BInv, RequestsOK, Stages
  <2>2. Needs(j) \subseteq Rows
    BY NeedsRows
  <2>3. todo' \in [Requests -> SUBSET Rows]
    BY <2>2 DEF BInv, RequestsOK
  <2>4. job' = [q \in Requests |-> job'[q]]
    BY DEF BInv, RequestsOK
  <2>5. \A q \in Requests : stage'[q] # "idle" => JobOK(job'[q])
    BY <1>3 DEF BInv, RequestsOK
  <2>6. \A q \in Requests : todo'[q] \subseteq Needs(job'[q])
    BY <1>3 DEF BInv, RequestsOK
  <2>7. LocksTypeOK'
    <3> SUFFICES ASSUME NEW q \in Requests, NEW x \in Rows
                 PROVE  owner'[x] = q <=> stage'[q] = "locking" /\ x \in Needs(job'[q]) \ todo'[q]
      BY DEF LocksTypeOK, Needs
    <3>1. CASE q = r
      BY <1>1, <1>2, <1>3, <3>1
    <3>2. CASE q # r
      BY <1>2, <1>3, <3>2 DEF BInv, RequestsOK, LocksTypeOK
    <3> QED BY <3>1, <3>2
  <2>8. owner' \in [Rows -> Requests \cup {NoRequest}] /\ before' \in [Requests -> [Accounts -> Int]]
    BY <1>2 DEF BInv, RequestsOK
  <2> QED BY <2>1, <2>3, <2>4, <2>5, <2>6, <2>7, <2>8 DEF RequestsOK
<1>6. BeforeIsBalance'
  BY <1>2 DEF BInv, BeforeIsBalance
<1>7. HeldBelow'
  BY <1>1, <1>2, <1>3, RowFacts DEF BInv, HeldBelow
<1> QED BY <1>4, <1>5, <1>6, <1>7 DEF BInv

LEMMA StartKeeps ==
  ASSUME BInv, NEW r \in Requests, NEW j, JobOK(j), NEW next \in {"reading", "locking"},
         Start(r, j, next)
  PROVE  BInv'
BY StageKeeps DEF Start

LEMMA GoOnKeeps ==
  ASSUME BInv, NEW r \in Requests, stage[r] = "reading", NEW j, JobOK(j), GoOn(r, j)
  PROVE  BInv'
BY StageKeeps DEF GoOn

LEMMA LockKeeps ==
  ASSUME BInv, NEW r \in Requests, Lock(r)
  PROVE  BInv'
<1>1. PICK x \in todo[r] :
        /\ AtRow(r, x) /\ Grants(x)
        /\ owner' = [owner EXCEPT ![x] = r]
        /\ todo' = [todo EXCEPT ![r] = @ \ {x}]
        /\ before' = IF x \in Accounts THEN [before EXCEPT ![r][x] = balance[x]] ELSE before
        /\ UNCHANGED <<documents, accounts, stage, job, begun, history>>
  BY DEF Lock
<1>2. x \in Rows /\ owner[x] = NoRequest /\ stage[r] = "locking" /\ r # NoRequest
  BY <1>1, BooksAssumption DEF Grants, AtRow
<1>3. balance' = balance /\ log' = log /\ stage' = stage /\ job' = job
  BY <1>1 DEF accounts
<1>4. owner'[x] = r /\ \A y \in Rows \ {x} : owner'[y] = owner[y]
  BY <1>1, <1>2 DEF BInv, RequestsOK
<1>5. todo'[r] = todo[r] \ {x} /\ \A q \in Requests \ {r} : todo'[q] = todo[q]
  BY <1>1 DEF BInv, RequestsOK
<1>6. /\ \A q \in Requests \ {r} : before'[q] = before[q]
      /\ \A a \in Accounts : before'[r][a] = IF a = x THEN balance[a] ELSE before[r][a]
  BY <1>1 DEF BInv, RequestsOK
<1>7. AccountsTypeOK'
  BY <1>3 DEF BInv, AccountsTypeOK
<1>8. RequestsOK'
  <2>1. owner' \in [Rows -> Requests \cup {NoRequest}] /\ stage' \in [Requests -> Stages]
    BY <1>1, <1>3 DEF BInv, RequestsOK
  <2>2. todo' \in [Requests -> SUBSET Rows]
    BY <1>1 DEF BInv, RequestsOK
  <2>3. before' \in [Requests -> [Accounts -> Int]]
    <3>1. balance \in [Accounts -> Int] /\ before \in [Requests -> [Accounts -> Int]]
      BY DEF BInv, AccountsTypeOK, RequestsOK
    <3> QED BY <1>1, <3>1
  <2>4. /\ job' = [q \in Requests |-> job'[q]]
        /\ \A q \in Requests : stage'[q] # "idle" => JobOK(job'[q])
    BY <1>3 DEF BInv, RequestsOK
  <2>5. \A q \in Requests : todo'[q] \subseteq Needs(job'[q])
    BY <1>3, <1>5 DEF BInv, RequestsOK
  <2>6. LocksTypeOK'
    <3> SUFFICES ASSUME NEW q \in Requests, NEW y \in Rows
                 PROVE  owner'[y] = q <=> stage'[q] = "locking" /\ y \in Needs(job'[q]) \ todo'[q]
      BY DEF LocksTypeOK, Needs
    <3>1. owner[y] = q <=> stage[q] = "locking" /\ y \in Needs(job[q]) \ todo[q]
      BY DEF BInv, RequestsOK, LocksTypeOK
    <3>2. CASE q = r
      <4>1. x \in Needs(job[r])
        BY DEF BInv, RequestsOK
      <4> QED BY <1>2, <1>3, <1>4, <1>5, <3>1, <3>2, <4>1
    <3>3. CASE q # r
      <4>1. q # NoRequest
        BY BooksAssumption
      <4> QED BY <1>2, <1>3, <1>4, <1>5, <3>1, <3>3, <4>1
    <3> QED BY <3>2, <3>3
  <2> QED BY <2>1, <2>2, <2>3, <2>4, <2>5, <2>6 DEF RequestsOK
<1>9. BeforeIsBalance'
  <2> SUFFICES ASSUME NEW q \in Requests, NEW a \in Accounts, owner'[a] = q
               PROVE  before'[q][a] = balance'[a]
    BY DEF BeforeIsBalance
  <2>1. a \in Rows
    BY RowFacts
  <2> QED BY <1>3, <1>4, <1>6, <2>1 DEF BInv, BeforeIsBalance
<1>10. HeldBelow'
  <2> SUFFICES ASSUME NEW q \in Requests, NEW k \in Products, NEW p \in Products,
                      owner'[Product(k)] = q, Product(p) \in todo'[q]
               PROVE  k < p
    BY DEF HeldBelow, Product, Row
  <2>1. Product(k) \in Rows /\ Product(p) \in todo[q]
    BY <1>5, RowFacts
  <2>2. CASE Product(k) # x
    BY <1>4, <2>1, <2>2 DEF BInv, HeldBelow
  <2>3. CASE Product(k) = x
    <3>1. q = r /\ Product(p) \in todo[r] \ {x}
      BY <1>4, <1>5, <2>3
    <3>2. Precedes(job[r], x, Product(p))
      BY <1>1, <3>1 DEF AtRow
    <3> QED BY <2>3, <3>2 DEF Precedes, Product, Row
  <2> QED BY <2>2, <2>3
<1> QED BY <1>7, <1>8, <1>9, <1>10 DEF BInv

-----------------------------------------------------------------------------
(* The end of a request.                                                   *)

\* What Release leaves, for the request that ends and for the others.
LEMMA ReleaseLeaves ==
  ASSUME BInv, NEW r \in Requests, Release(r)
  PROVE  /\ RequestsOK'
         /\ HeldBelow'
         /\ \A q \in Requests, x \in Rows : owner'[x] = q => q # r /\ owner[x] = q
         /\ \A q \in Requests \ {r} : before'[q] = before[q]
<1>1. r # NoRequest /\ \A q \in Requests : q # NoRequest
  BY BooksAssumption
<1>2. \A x \in Rows : owner'[x] = IF owner[x] = r THEN NoRequest ELSE owner[x]
  BY DEF Release
<1>3. /\ stage'[r] = "idle" /\ todo'[r] = {}
      /\ \A q \in Requests \ {r} : /\ stage'[q] = stage[q] /\ job'[q] = job[q]
                                   /\ todo'[q] = todo[q] /\ before'[q] = before[q]
  BY DEF Release, BInv, RequestsOK
<1>4. RequestsOK'
  <2>1. owner' \in [Rows -> Requests \cup {NoRequest}]
    BY DEF Release, BInv, RequestsOK
  <2>2. stage' \in [Requests -> Stages] /\ todo' \in [Requests -> SUBSET Rows]
    BY DEF Release, BInv, RequestsOK, Stages
  <2>3. before' \in [Requests -> [Accounts -> Int]]
    BY DEF Release, BInv, RequestsOK
  <2>4. job' = [q \in Requests |-> job'[q]]
    BY DEF Release, BInv, RequestsOK
  <2>5. \A q \in Requests : stage'[q] # "idle" => JobOK(job'[q])
    BY <1>3 DEF BInv, RequestsOK
  <2>6. \A q \in Requests : todo'[q] \subseteq Needs(job'[q])
    BY <1>3 DEF BInv, RequestsOK
  <2>7. LocksTypeOK'
    <3> SUFFICES ASSUME NEW q \in Requests, NEW y \in Rows
                 PROVE  owner'[y] = q <=> stage'[q] = "locking" /\ y \in Needs(job'[q]) \ todo'[q]
      BY DEF LocksTypeOK, Needs
    <3>1. owner[y] = q <=> stage[q] = "locking" /\ y \in Needs(job[q]) \ todo[q]
      BY DEF BInv, RequestsOK, LocksTypeOK
    <3>2. CASE q = r
      BY <1>1, <1>2, <1>3, <3>2
    <3>3. CASE q # r
      BY <1>1, <1>2, <1>3, <3>1, <3>3
    <3> QED BY <3>2, <3>3
  <2> QED BY <2>1, <2>2, <2>3, <2>4, <2>5, <2>6, <2>7 DEF RequestsOK
<1>5. \A q \in Requests, x \in Rows : owner'[x] = q => q # r /\ owner[x] = q
  BY <1>1, <1>2
<1>6. HeldBelow'
  <2> SUFFICES ASSUME NEW q \in Requests, NEW k \in Products, NEW p \in Products,
                      owner'[Product(k)] = q, Product(p) \in todo'[q]
               PROVE  k < p
    BY DEF HeldBelow, Product, Row
  <2>1. q # r /\ owner[Product(k)] = q
    BY <1>5, RowFacts
  <2> QED BY <1>3, <2>1 DEF BInv, HeldBelow
<1> QED BY <1>3, <1>4, <1>5, <1>6

LEMMA AbortKeeps ==
  ASSUME BInv, NEW r \in Requests, Abort(r)
  PROVE  BInv'
<1>1. Release(r) /\ balance' = balance /\ log' = log
  BY DEF Abort, accounts
<1>2. AccountsTypeOK'
  BY <1>1 DEF BInv, AccountsTypeOK
<1>3. BeforeIsBalance'
  <2> SUFFICES ASSUME NEW q \in Requests, NEW a \in Accounts, owner'[a] = q
               PROVE  before'[q][a] = balance'[a]
    BY DEF BeforeIsBalance
  <2>1. q # r /\ owner[a] = q /\ before'[q] = before[q]
    BY <1>1, RowFacts, ReleaseLeaves
  <2> QED BY <1>1, <2>1 DEF BInv, BeforeIsBalance
<1> QED BY <1>1, <1>2, <1>3, ReleaseLeaves DEF BInv

\* What a commit posts to: accounts it holds, whose balances it has read.
LEMMA HoldsMoved ==
  ASSUME BInv, NEW r \in Requests, stage[r] = "locking", todo[r] = {}, NEW a \in Moved(r)
  PROVE  /\ a \in Accounts /\ owner[a] = r
         /\ before[r][a] = balance[a]
         /\ Posting(r, a) \in Entry
         /\ Posting(r, a).after = balance[a] + Posting(r, a).amount
<1>1. JobOK(job[r])
  BY DEF BInv, RequestsOK
<1>2. a \in Accounts /\ a \in Rows /\ a \in Needs(job[r])
  BY <1>1, RowFacts, NeedsRows DEF Moved
<1>3. owner[a] = r
  BY <1>2 DEF BInv, RequestsOK, LocksTypeOK
<1>4. before[r][a] = balance[a] /\ balance[a] \in Int
  BY <1>2, <1>3 DEF BInv, BeforeIsBalance, AccountsTypeOK
<1>5. job[r].posts[a] \in Int /\ job[r].op \in Ops /\ job[r].id \in Payments \cup {0}
  BY <1>1, <1>2 DEF JobOK
<1> QED BY <1>2, <1>3, <1>4, <1>5 DEF Posting, Entry

LEMMA CommitKeeps ==
  ASSUME BInv, NEW r \in Requests, NEW op, Commits(r, op)
  PROVE  BInv'
<1>1. stage[r] = "locking" /\ todo[r] = {} /\ Post(r) /\ Release(r)
  BY DEF Commits
<1>2. \A a \in Moved(r) : owner[a] = r /\ Posting(r, a) \in Entry
  BY <1>1, HoldsMoved
<1>3. AccountsTypeOK'
  <2>1. \A a \in Accounts : balance[a] \in Int /\ log[a] \in Seq(Entry)
    BY DEF BInv, AccountsTypeOK
  <2>2. \A a \in Moved(r) : Posting(r, a).after \in Int
    BY <1>2 DEF Entry
  <2>3. balance' \in [Accounts -> Int]
    BY <1>1, <2>1, <2>2 DEF Post
  <2>4. \A a \in Moved(r) : a \in Accounts /\ Append(log[a], Posting(r, a)) \in Seq(Entry)
    BY <1>2, <2>1 DEF Moved
  <2>5. log' \in [Accounts -> Seq(Entry)]
    BY <1>1, <2>1, <2>4 DEF Post
  <2> QED BY <2>3, <2>5 DEF AccountsTypeOK
<1>4. BeforeIsBalance'
  <2> SUFFICES ASSUME NEW q \in Requests, NEW a \in Accounts, owner'[a] = q
               PROVE  before'[q][a] = balance'[a]
    BY DEF BeforeIsBalance
  <2>1. q # r /\ owner[a] = q /\ before'[q] = before[q]
    BY <1>1, RowFacts, ReleaseLeaves
  <2>2. a \notin Moved(r)
    BY <1>2, <2>1
  <2>3. balance'[a] = balance[a]
    BY <1>1, <2>2 DEF Post
  <2> QED BY <2>1, <2>3 DEF BInv, BeforeIsBalance
<1> QED BY <1>1, <1>3, <1>4, ReleaseLeaves DEF BInv

-----------------------------------------------------------------------------
(* Every step.                                                             *)

\* The steps that neither start nor commit nor abort: a request goes on to write.
LEMMA CountReturnsKeeps ==
  ASSUME BInv, NEW r \in Requests, CountReturns(r)
  PROVE  BInv'
<1>1. stage[r] = "reading" /\ GoOn(r, job[r])
  BY DEF CountReturns
<1>2. JobOK(job[r])
  BY <1>1 DEF BInv, RequestsOK
<1> QED BY <1>1, <1>2, GoOnKeeps

LEMMA ReadReturnedKeeps ==
  ASSUME BInv, NEW r \in Requests, ReadReturned(r)
  PROVE  BInv'
<1>1. stage[r] = "reading" /\ job[r].op = "return"
  BY DEF ReadReturned
<1>2. job[r].id \in Sales
  BY <1>1 DEF BInv, RequestsOK, JobOK
<1> DEFINE s == job[r].id
<1>3. PICK back \in [Products -> 0..(MaxNamed * Worth(s))] :
        \E cash \in 0..MaxCash(s, SumFunction(back)) :
          GoOn(r, Job("return", s, Posts(cash - SumFunction(back), back), cash, NoAlloc))
  BY DEF ReadReturned
<1>4. PICK cash \in 0..MaxCash(s, SumFunction(back)) :
        GoOn(r, Job("return", s, Posts(cash - SumFunction(back), back), cash, NoAlloc))
  BY <1>3
<1>5. cash - SumFunction(back) \in Int /\ back \in [Products -> Int]
  <2>1. back \in [Products -> Nat]
    BY <1>3
  <2> QED BY <2>1, ProductsFinite, SumOfNaturals
<1> DEFINE j == Job("return", s, Posts(cash - SumFunction(back), back), cash, NoAlloc)
<1>6. JobOK(j)
  <2>1. Posts(cash - SumFunction(back), back) \in [Accounts -> Int]
    BY <1>5, PostsType
  <2> QED BY <1>2, <2>1, JobFields DEF JobOK, Ops, Payments
<1> HIDE DEF j
<1> QED BY <1>1, <1>4, <1>6, GoOnKeeps DEF j

LEMMA CollectKeeps ==
  ASSUME BInv, NEW r \in Requests, NEW c \in Collections, NEW shares, Collect(r, c, shares)
  PROVE  BInv'
<1> DEFINE j == Job("collect", c, Posts(-Amount[c], Nothing), 0, shares)
<1>1. -Amount[c] \in Int /\ Nothing \in [Products -> Int]
  BY BooksAssumption DEF Nothing
<1>2. Posts(-Amount[c], Nothing) \in [Accounts -> Int]
  BY <1>1, PostsType
<1>3. JobOK(j)
  BY <1>2, JobFields DEF JobOK, Ops, Payments
<1>4. Start(r, j, "locking")
  BY DEF Collect
<1> HIDE DEF j
<1> QED BY <1>3, <1>4, StartKeeps

\* A step leaves the accounts alone, or commits.
LEMMA StepKeeps ==
  ASSUME BInv, [Next]_vars
  PROVE  BInv' /\ (UNCHANGED accounts \/ \E r \in Requests : \E op \in Ops : Commits(r, op))
<1>1. CASE UNCHANGED vars
  <2>1. /\ UNCHANGED <<balance, log, owner, stage, job, todo, before>>
        /\ UNCHANGED accounts
    BY <1>1 DEF vars, accounts, requests
  <2> QED BY <2>1 DEF BInv, AccountsTypeOK, RequestsOK, LocksTypeOK, BeforeIsBalance, HeldBelow, Needs
<1>2. ASSUME NEW r \in Requests, Lock(r)
      PROVE  BInv' /\ UNCHANGED accounts
  BY <1>2, LockKeeps DEF Lock
<1>3. ASSUME NEW r \in Requests, Abort(r)
      PROVE  BInv' /\ UNCHANGED accounts
  BY <1>3, AbortKeeps DEF Abort
<1>4. ASSUME NEW r \in Requests, NEW s \in Sales, BeginCreate(r, s) \/ BeginCancel(r, s) \/ BeginReturn(r, s)
      PROVE  BInv' /\ UNCHANGED accounts
  <2>1. CASE BeginCreate(r, s)
    BY <2>1, GoodJobs, StartKeeps DEF BeginCreate, Start
  <2>2. CASE BeginCancel(r, s)
    BY <2>2, GoodJobs, StartKeeps DEF BeginCancel, Start
  <2>3. CASE BeginReturn(r, s)
    BY <2>3, GoodJobs, StartKeeps DEF BeginReturn, Start
  <2> QED BY <1>4, <2>1, <2>2, <2>3
<1>5. ASSUME NEW r \in Requests, NEW c \in Collections, BeginCollect(r, c) \/ BeginCollectByHand(r, c)
      PROVE  BInv' /\ UNCHANGED accounts
  <2>1. PICK shares : Collect(r, c, shares)
    BY <1>5 DEF BeginCollect, BeginCollectByHand
  <2>2. UNCHANGED accounts
    BY <2>1 DEF Collect, Start
  <2> QED BY <2>1, <2>2, CollectKeeps
<1>6. ASSUME NEW r \in Requests, NEW p \in Payments, BeginReversal(r, p)
      PROVE  BInv' /\ UNCHANGED accounts
  BY <1>6, GoodJobs, StartKeeps DEF BeginReversal, Start
<1>6a. ASSUME NEW r \in Requests, NEW a \in Accounts, NEW n \in Corrections, BeginAdjust(r, a, n)
       PROVE  BInv' /\ UNCHANGED accounts
  <2> DEFINE posts == [x \in Accounts |-> IF x = a THEN n ELSE 0]
             j == Job("adjust", 0, posts, 0, NoAlloc)
  <2>1. posts \in [Accounts -> Int]
    BY BooksAssumption
  <2>2. JobOK(j)
    <3> HIDE DEF posts
    <3> QED BY <2>1, JobFields DEF JobOK, Ops
  <2>3. Start(r, j, "locking")
    BY <1>6a DEF BeginAdjust
  <2> HIDE DEF j
  <2> QED BY <2>2, <2>3, StartKeeps DEF Start
<1>7. ASSUME NEW r \in Requests, CountReturns(r) \/ ReadReturned(r)
      PROVE  BInv' /\ UNCHANGED accounts
  <2>1. CASE CountReturns(r)
    BY <2>1, CountReturnsKeeps DEF CountReturns, GoOn
  <2>2. CASE ReadReturned(r)
    BY <2>2, ReadReturnedKeeps DEF ReadReturned, GoOn
  <2> QED BY <1>7, <2>1, <2>2
<1>8. ASSUME NEW r \in Requests,
             \/ CommitCreate(r) \/ CommitCancel(r) \/ CommitReturn(r)
             \/ CommitCollect(r) \/ CommitReversal(r) \/ CommitAdjust(r)
      PROVE  BInv' /\ \E op \in Ops : Commits(r, op)
  <2>1. PICK op \in Ops : Commits(r, op)
    BY <1>8 DEF CommitCreate, CommitCancel, CommitReturn, CommitCollect, CommitReversal, CommitAdjust, Ops
  <2> QED BY <2>1, CommitKeeps
<1>9. CASE Next
  BY <1>2, <1>3, <1>4, <1>5, <1>6, <1>6a, <1>7, <1>8, <1>9 DEF Next, RequestStep, CreateStep,
    CancelStep, ReturnStep, CollectStep, ReverseStep, AdjustStep
<1> QED BY <1>1, <1>9

-----------------------------------------------------------------------------
(* The theorems.                                                           *)

\* The invariant the two theorems rest on: types of the accounts and requests,
\* locks held exactly as far as a request has come, balances read under a lock
\* still true, stock rows taken in rising order.
THEOREM LocksAreSound == Spec => []BInv
<1>1. BInv /\ [Next]_vars => BInv'
  BY StepKeeps
<1> QED BY <1>1, InitKeeps, PTL DEF Spec

\* A commit is a step of RunningBalance: an entry more on each account it moves.
LEMMA CommitExtends ==
  ASSUME BInv, NEW r \in Requests, NEW op, Commits(r, op)
  PROVE  Statement!Next
<1>1. stage[r] = "locking" /\ todo[r] = {} /\ Post(r)
  BY DEF Commits
<1>2. DOMAIN balance' = Accounts /\ DOMAIN log' = Accounts
  BY <1>1 DEF Post
<1>3. ASSUME NEW a \in Accounts, a \notin Moved(r)
      PROVE  balance'[a] = balance[a] /\ log'[a] = log[a]
  BY <1>1, <1>3 DEF Post
<1>4. ASSUME NEW a \in Accounts, a \in Moved(r)
      PROVE  Statement!Extend(a)
  <2> DEFINE e == Posting(r, a)
  <2>1. balance'[a] = e.after /\ log'[a] = Append(log[a], e)
    BY <1>1, <1>4 DEF Post
  <2>2. e \in Entry /\ e.after = balance[a] + e.amount
    BY <1>1, <1>4, HoldsMoved
  <2>3. log[a] \in Seq(Entry)
    BY DEF BInv, AccountsTypeOK
  <2> HIDE DEF e
  <2>4. Append(log[a], e) # <<>> /\ Append(log[a], e)[Len(Append(log[a], e))] = e
    BY <2>2, <2>3
  <2>5. log'[a] # <<>> /\ Statement!Last(log'[a]) = e
    BY <2>1, <2>4 DEF Statement!Last
  <2> QED BY <2>1, <2>2, <2>5 DEF Statement!Extend
<1> QED BY <1>2, <1>3, <1>4 DEF Statement!Next

\* Whatever runs at once and wherever it rolls back, khata and stock cards are
\* running balances: the specification of the books implements RunningBalance.
THEOREM StatementIsKept == Spec => KeepsStatement
<1>1. Init => Statement!Init
  BY DEF Init, Statement!Init
<1>2. BInv /\ [Next]_vars => [Statement!Next]_<<balance, log>>
  <2> SUFFICES ASSUME BInv, [Next]_vars PROVE [Statement!Next]_<<balance, log>>
    OBVIOUS
  <2>1. CASE UNCHANGED accounts
    BY <2>1 DEF accounts
  <2>2. CASE \E r \in Requests : \E op \in Ops : Commits(r, op)
    BY <2>2, CommitExtends
  <2> QED BY <2>1, <2>2, StepKeeps
<1> QED BY <1>1, <1>2, LocksAreSound, PTL DEF Spec, KeepsStatement, Statement!Spec

\* A circle of waits for stock would have a highest product waited for; but who
\* holds that one waits for a higher.
LEMMA NoStockCircle == BInv => StockNeverDeadlocks
<1> SUFFICES ASSUME BInv,
                    NEW group \in (SUBSET Requests) \ {{}},
                    ~ \E r \in group : \A q \in group : ~WaitsForStock(r, q)
             PROVE  FALSE
  BY Zenon DEF StockNeverDeadlocks
<1> DEFINE Wanted == {p \in Products : \E r, q \in group :
                        AtRow(r, Product(p)) /\ owner[Product(p)] = q}
<1>1. Wanted \in SUBSET Nat /\ \A p \in Wanted : p <= ProductCount
  BY BooksAssumption DEF Products
<1>2. \A r \in group : \E q \in group : \E p \in Products :
        AtRow(r, Product(p)) /\ owner[Product(p)] = q
  BY Zenon DEF WaitsForStock
<1>3. Wanted # {}
  <2>1. group # {}
    OBVIOUS
  <2>2. PICK r \in Requests : r \in group
    BY <2>1
  <2> QED BY <1>2, <2>2
<1>4. PICK m \in Wanted : \A p \in Wanted : p <= m
  <2> HIDE DEF Wanted
  <2> QED BY <1>1, <1>3, BooksAssumption, GreatestExists
<1>5. PICK r \in group, q \in group : AtRow(r, Product(m)) /\ owner[Product(m)] = q
  OBVIOUS
<1>6. PICK n \in Products : \E t \in group : AtRow(q, Product(n)) /\ owner[Product(n)] = t
  BY <1>2
<1>7. n \in Wanted
  BY <1>6
<1>8. Product(n) \in todo[q]
  BY <1>6 DEF AtRow
<1>9. m < n
  BY <1>5, <1>8 DEF BInv, HeldBelow
<1>10. m \in Nat /\ n \in Nat /\ n <= m
  BY <1>1, <1>4, <1>7
<1> QED BY <1>9, <1>10

\* Requests never wait in a circle for stock rows, however many there are of
\* either.
THEOREM StockIsFree == Spec => []StockNeverDeadlocks
BY LocksAreSound, NoStockCircle, PTL

-----------------------------------------------------------------------------
(* The invariant.                                                          *)

\* The goods a job brings back, by product.
Back(j) == [p \in Products |-> j.posts[Product(p)]]

\* What a job posts and writes follows from what it is.
JobShape(j) ==
  /\ j = Job(j.op, j.id, j.posts, j.cash, j.alloc)
  /\ j.cash \in Nat /\ j.alloc \in [Sales -> Nat]
  /\ j.op = "create" => j.posts = Billing(j.id).posts
  /\ j.op = "cancel" => j.posts = Undoing(j.id).posts
  /\ j.op = "reverse" => j.posts = Reversing(j.id).posts
  /\ j.op = "collect" => j.id \in Collections /\ j.posts = Posts(-Amount[j.id], Nothing)
  /\ j.op = "return" => j.posts[Khata] <= 0 /\ Back(j) \in [Products -> Nat]

HistoryOK ==
  /\ begun \in Nat
  /\ raced \subseteq Sales /\ byHand \subseteq Sales /\ repeated \subseteq Sales

JobsKnown == \A r \in Requests :
  IF Running(r) THEN JobShape(job[r]) ELSE job[r] = NoJob

\* Two requests that look at one sale have raced on it.
Alone == \A r, q \in Requests :
  r # q /\ Running(r) /\ Running(q) => Scope(job[r]) \cap Scope(job[q]) \subseteq raced

\* What live collections have cleared of a bill.
Cleared(s) == SumFunction([c \in {d \in Collections : Live(d)} |-> alloc[c][s]])

\* What a request has read of the sale s is still so.
Stands(r, s) == LET j == job[r] IN
  /\ j.op = "create" => status[s] = "none"
  /\ j.op \in {"cancel", "return"} => status[s] = "COMPLETED"
  /\ j.op = "cancel" /\ stage[r] = "locking" => returned[s] = Nothing
  /\ j.op = "return" /\ stage[r] = "locking" =>
       /\ s \notin repeated => \A p \in Products : Back(j)[p] <= Returnable(s, p)
       /\ j.cash <= MaxCash(s, SumFunction(Back(j)))
  /\ j.op = "reverse" => Live(j.id)
  /\ j.op = "collect" /\ s \notin byHand => j.alloc[s] + Cleared(s) <= Credit[s]

\* ... of every sale no two requests raced on.
ReadsStand == \A r \in Requests : Running(r) =>
  \A s \in Scope(job[r]) \ raced : Stands(r, s)

\* The cash handed back is no more than the goods that came back beyond the credit.
CashBehindCredit == \A s \in InTurn :
  refunds[s].cash <= Most(0, SumFunction(returned[s]) - Credit[s])

DInv ==
  /\ DocumentsTypeOK /\ HistoryOK /\ JobsKnown /\ Alone /\ ReadsStand
  /\ GoodsComeBackOnce /\ CashBehindCredit /\ AllocatedWithinCredit

-----------------------------------------------------------------------------
(* Jobs and what they look at.                                             *)

LEMMA PostsAt ==
  ASSUME NEW money, NEW goods
  PROVE  /\ Posts(money, goods)[Khata] = money
         /\ \A p \in Products : Posts(money, goods)[Product(p)] = goods[p]
BY RowFacts DEF Posts, Khata, Product, Row

LEMMA JobRest ==
  ASSUME NEW op, NEW id, NEW posts, NEW cash, NEW shares
  PROVE  /\ Job(op, id, posts, cash, shares).cash = cash
         /\ Job(op, id, posts, cash, shares).alloc = shares
         /\ \A j : j = Job(op, id, posts, cash, shares) => j = Job(j.op, j.id, j.posts, j.cash, j.alloc)
BY DEF Job

LEMMA ScopeType ==
  ASSUME NEW j
  PROVE  /\ Scope(j) \subseteq Sales
         /\ j.op \in {"create", "cancel", "return"} /\ j.id \in Sales => Scope(j) = {j.id}
         /\ j.op \in {"collect", "reverse"} /\ j.id \in Sales => Scope(j) = {j.id}
         /\ j.op \in {"collect", "reverse"} /\ j.id \in Collections => Scope(j) = Sales
         /\ j.op = "adjust" /\ j.id \notin Sales => Scope(j) = {}
<1>1. Sales \cap Collections = {}
  BY BooksAssumption
<1>2. CASE j.op = "adjust"
  BY <1>2 DEF Scope
<1>3. CASE j.op # "adjust" /\ j.id \in Sales
  BY <1>1, <1>3 DEF Scope
<1>4. CASE j.op # "adjust" /\ j.id \notin Sales
  BY <1>4 DEF Scope
<1> QED BY <1>1, <1>2, <1>3, <1>4

LEMMA NothingBack ==
  /\ NoAlloc \in [Sales -> Nat]
  /\ NoPosts[Khata] = 0 /\ \A p \in Products : NoPosts[Product(p)] = 0
<1>1. NoAlloc \in [Sales -> Nat]
  BY DEF NoAlloc
<1> QED BY <1>1, PostsAt DEF NoPosts, Nothing

LEMMA GoodShapes ==
  /\ \A s \in Sales : JobShape(Billing(s)) /\ JobShape(Undoing(s))
  /\ \A s \in Sales : JobShape(Job("return", s, NoPosts, 0, NoAlloc))
  /\ \A p \in Payments : JobShape(Reversing(p))
<1>1. ASSUME NEW s \in Sales PROVE JobShape(Billing(s))
  BY JobFields, JobRest, NothingBack DEF JobShape, Billing
<1>2. ASSUME NEW s \in Sales PROVE JobShape(Undoing(s))
  BY JobFields, JobRest, NothingBack DEF JobShape, Undoing
<1>3. ASSUME NEW s \in Sales PROVE JobShape(Job("return", s, NoPosts, 0, NoAlloc))
  <2> DEFINE j == Job("return", s, NoPosts, 0, NoAlloc)
  <2>1. /\ j.op = "return" /\ j.posts = NoPosts /\ j.cash = 0 /\ j.alloc = NoAlloc
        /\ j = Job(j.op, j.id, j.posts, j.cash, j.alloc)
    BY JobFields, JobRest
  <2> HIDE DEF j
  <2>2. Back(j) \in [Products -> Nat] /\ j.posts[Khata] <= 0
    BY <2>1, NothingBack DEF Back
  <2>3. JobShape(j)
    BY <2>1, <2>2, NothingBack DEF JobShape
  <2> QED BY <2>3 DEF j
<1>4. ASSUME NEW p \in Payments PROVE JobShape(Reversing(p))
  BY JobFields, JobRest, NothingBack DEF JobShape, Reversing
<1> QED BY <1>1, <1>2, <1>3, <1>4

-----------------------------------------------------------------------------
(* Steps that leave the documents alone.                                   *)

\* A reversal looks at the sale its payment is of, or at all of them.
LEMMA ScopeOfReversal ==
  ASSUME NEW j, JobOK(j), NEW s \in Scope(j), j.op = "reverse"
  PROVE  j.id \in Collections \cup {s}
<1>1. j.id \in Sales \cup Collections
  BY DEF JobOK, Payments
<1> QED BY <1>1, ScopeType

\* What stands of a sale still does while its documents are what they were.
Untouched(s) ==
  /\ status'[s] = status[s] /\ returned'[s] = returned[s] /\ payment'[s] = payment[s]
  /\ \A c \in Collections : payment'[c] = payment[c] /\ alloc'[c][s] = alloc[c][s]

LEMMA UntouchedStands ==
  ASSUME NEW r \in Requests, job'[r] = job[r], stage'[r] = stage[r], JobOK(job[r]),
         NEW s \in Scope(job[r]), Untouched(s), s \in byHand => s \in byHand',
         s \in repeated => s \in repeated', Stands(r, s)
  PROVE  Stands(r, s)'
<1>1. Cleared(s)' = Cleared(s)
  BY DEF Untouched, Cleared, Live
<1>2. \A p \in Products : Returnable(s, p)' = Returnable(s, p)
  BY DEF Untouched, Returnable
<1>3. PICK j : j = job[r]
  OBVIOUS
<1>4. j.op = "reverse" => j.id \in Collections \cup {s}
  BY <1>3, ScopeOfReversal
<1>5. j.op = "reverse" => payment'[j.id] = payment[j.id]
  BY <1>4 DEF Untouched
<1> QED BY <1>1, <1>2, <1>3, <1>5 DEF Stands, Untouched, Back, MaxCash, Live

LEMMA SameDocuments ==
  ASSUME UNCHANGED documents
  PROVE  /\ \A s \in Sales : Untouched(s)
         /\ \A s \in Sales : Cleared(s)' = Cleared(s)
         /\ DocumentsTypeOK => DocumentsTypeOK'
         /\ \A s \in Sales, p \in Products : TakenBack(s, p)' = TakenBack(s, p)
BY DEF documents, Untouched, Cleared, Live, DocumentsTypeOK, TakenBack

\* The bounds hold of no more sales than before.
LEMMA BoundsStay ==
  ASSUME DInv, UNCHANGED documents, raced \subseteq raced', byHand \subseteq byHand',
         repeated \subseteq repeated'
  PROVE  GoodsComeBackOnce' /\ CashBehindCredit' /\ AllocatedWithinCredit'
<1>1. UNCHANGED <<status, returned, refunds, payment, alloc>> /\ InTurn' \subseteq InTurn /\ Plain' \subseteq Plain
  BY DEF documents, InTurn, Plain
<1>2. GoodsComeBackOnce'
  BY <1>1 DEF DInv, GoodsComeBackOnce, TakenBack
<1>3. CashBehindCredit'
  BY <1>1 DEF DInv, CashBehindCredit
<1>4. AllocatedWithinCredit'
  BY <1>1 DEF DInv, AllocatedWithinCredit, Live
<1> QED BY <1>2, <1>3, <1>4

LEMMA QuietKeeps ==
  ASSUME DInv, UNCHANGED <<documents, stage, job, history>>, begun' \in Nat
  PROVE  DInv'
<1>1. /\ UNCHANGED documents /\ stage' = stage /\ job' = job /\ raced' = raced
      /\ byHand' = byHand /\ repeated' = repeated
  BY DEF history
<1>2. GoodsComeBackOnce' /\ CashBehindCredit' /\ AllocatedWithinCredit'
  BY <1>1, BoundsStay
<1>3. DocumentsTypeOK' /\ HistoryOK'
  BY <1>1, SameDocuments DEF DInv, HistoryOK
<1>4. JobsKnown' /\ Alone'
  BY <1>1 DEF DInv, JobsKnown, Alone, Running
<1>5. UNCHANGED <<status, returned, payment, alloc>>
  BY <1>1 DEF documents
<1>6. ReadsStand'
  BY <1>1, <1>5 DEF DInv, ReadsStand, Running, Stands, Cleared, Live, Returnable
<1> QED BY <1>2, <1>3, <1>4, <1>6 DEF DInv

\* What Release leaves of the jobs, for the request that ends and the others.
LEMMA ReleaseJobs ==
  ASSUME BInv, NEW r \in Requests, Release(r)
  PROVE  /\ job'[r] = NoJob /\ ~Running(r)'
         /\ \A q \in Requests \ {r} : /\ job'[q] = job[q] /\ stage'[q] = stage[q]
                                      /\ Running(q)' <=> Running(q)
         /\ raced' = raced /\ byHand' = byHand /\ repeated' = repeated /\ begun' = begun
<1>1. stage \in [Requests -> Stages] /\ job = [q \in Requests |-> job[q]]
  BY DEF BInv, RequestsOK
<1>2. stage' = [stage EXCEPT ![r] = "idle"] /\ job' = [job EXCEPT ![r] = NoJob]
  BY DEF Release
<1> QED BY <1>1, <1>2 DEF Release, history, Running

LEMMA AbortKeepsDocuments ==
  ASSUME BInv, DInv, NEW r \in Requests, Abort(r)
  PROVE  DInv'
<1>1. UNCHANGED documents /\ Release(r)
  BY DEF Abort
<1>2. /\ job'[r] = NoJob /\ ~Running(r)'
      /\ \A q \in Requests \ {r} : /\ job'[q] = job[q] /\ stage'[q] = stage[q]
                                   /\ Running(q)' <=> Running(q)
      /\ raced' = raced /\ byHand' = byHand /\ repeated' = repeated /\ begun' = begun
  BY <1>1, ReleaseJobs
<1>3. GoodsComeBackOnce' /\ CashBehindCredit' /\ AllocatedWithinCredit'
  BY <1>1, <1>2, BoundsStay
<1>4. DocumentsTypeOK' /\ HistoryOK'
  BY <1>1, <1>2, SameDocuments DEF DInv, HistoryOK
<1>5. JobsKnown' /\ Alone'
  BY <1>2 DEF DInv, JobsKnown, Alone
<1>6. UNCHANGED <<status, returned, payment, alloc>>
  BY <1>1 DEF documents
<1>7. ReadsStand'
  BY <1>2, <1>6 DEF DInv, ReadsStand, Stands, Cleared, Live, Returnable
<1> QED BY <1>3, <1>4, <1>5, <1>7 DEF DInv

\* A request that begins finds the sales it looks at as they are; those another
\* request looks at are raced on from now on.
LEMMA StartKeepsDocuments ==
  ASSUME BInv, DInv, NEW r \in Requests, NEW j, JobShape(j), NEW next \in {"reading", "locking"},
         Start(r, j, next), byHand \subseteq byHand', byHand' \subseteq Sales,
         \A s \in Scope(j) \ raced' : Stands(r, s)'
  PROVE  DInv'
<1>1. /\ stage \in [Requests -> Stages] /\ job = [q \in Requests |-> job[q]]
      /\ begun \in Nat /\ raced \subseteq Sales
  BY DEF BInv, RequestsOK, DInv, HistoryOK
<1>2. /\ job'[r] = j /\ stage'[r] = next
      /\ \A q \in Requests \ {r} : job'[q] = job[q] /\ stage'[q] = stage[q]
      /\ begun' = begun + 1 /\ stage[r] = "idle"
  BY <1>1 DEF Start
<1>3. /\ Running(r)' /\ ~Running(r)
      /\ \A q \in Requests \ {r} : Running(q)' <=> Running(q)
  BY <1>2 DEF Running
<1>4. UNCHANGED documents
  BY DEF Start
<1>5. raced' = raced \cup
        {s \in Scope(j) : \E q \in Requests \ {r} : Running(q) /\ s \in Scope(job[q])}
  BY DEF Start
<1>6. raced \subseteq raced' /\ raced' \subseteq Sales
  BY <1>1, <1>5, ScopeType
<1>7. GoodsComeBackOnce' /\ CashBehindCredit' /\ AllocatedWithinCredit'
  BY <1>4, <1>6, BoundsStay DEF Start
<1>8. DocumentsTypeOK' /\ HistoryOK'
  BY <1>1, <1>2, <1>4, <1>6, SameDocuments DEF DInv, HistoryOK, Start
<1>9. JobsKnown'
  BY <1>2, <1>3 DEF DInv, JobsKnown
<1>10. Alone'
  <2> SUFFICES ASSUME NEW p \in Requests, NEW q \in Requests, p # q, Running(p)', Running(q)',
                      NEW s \in Scope(job'[p]) \cap Scope(job'[q])
               PROVE  s \in raced'
    BY DEF Alone, Scope
  <2>1. CASE p = r
    BY <1>2, <1>3, <1>5, <2>1
  <2>2. CASE q = r
    BY <1>2, <1>3, <1>5, <2>2
  <2>3. CASE p # r /\ q # r
    BY <1>2, <1>3, <1>6, <2>3 DEF DInv, Alone
  <2> QED BY <2>1, <2>2, <2>3
<1>11. ReadsStand'
  <2> SUFFICES ASSUME NEW q \in Requests, Running(q)', NEW s \in Scope(job'[q]) \ raced'
               PROVE  Stands(q, s)'
    BY DEF ReadsStand, Scope
  <2>1. CASE q = r
    BY <1>2, <2>1
  <2>2. CASE q # r
    <3>1. job'[q] = job[q] /\ stage'[q] = stage[q] /\ Running(q)
      BY <1>2, <1>3, <2>2
    <3>2. JobOK(job[q]) /\ s \in Scope(job[q]) \ raced
      BY <1>6, <3>1 DEF BInv, RequestsOK, Running
    <3>3. Stands(q, s)
      BY <3>1, <3>2 DEF DInv, ReadsStand
    <3>4. Untouched(s) /\ s \in Sales
      BY <1>4, <3>2, ScopeType, SameDocuments
    <3> QED BY <3>1, <3>2, <3>3, <3>4, UntouchedStands DEF Start
  <2> QED BY <2>1, <2>2
<1> QED BY <1>7, <1>8, <1>9, <1>10, <1>11 DEF DInv

\* Nor do the documents change when a request goes on to write.
LEMMA GoOnKeepsDocuments ==
  ASSUME BInv, DInv, NEW r \in Requests, stage[r] = "reading", NEW j, JobShape(j),
         Scope(j) = Scope(job[r]), GoOn(r, j), repeated \subseteq repeated', repeated' \subseteq Sales,
         \A s \in Scope(j) \ raced : Stands(r, s)'
  PROVE  DInv'
<1>1. /\ stage \in [Requests -> Stages] /\ job = [q \in Requests |-> job[q]]
      /\ UNCHANGED <<documents, begun, raced, byHand>>
  BY DEF BInv, RequestsOK, GoOn
<1>2. /\ job'[r] = j /\ stage'[r] = "locking"
      /\ \A q \in Requests \ {r} : job'[q] = job[q] /\ stage'[q] = stage[q]
      /\ begun' = begun /\ raced' = raced /\ byHand' = byHand
  BY <1>1 DEF GoOn
<1>3. /\ Running(r)' /\ Running(r)
      /\ \A q \in Requests : Running(q)' <=> Running(q)
  BY <1>2 DEF Running
<1>4. UNCHANGED documents
  BY <1>1
<1>5. GoodsComeBackOnce' /\ CashBehindCredit' /\ AllocatedWithinCredit'
  BY <1>2, <1>4, BoundsStay
<1>6. DocumentsTypeOK' /\ HistoryOK'
  BY <1>2, <1>4, SameDocuments DEF DInv, HistoryOK
<1>7. JobsKnown'
  BY <1>2, <1>3 DEF DInv, JobsKnown
<1>8. \A q \in Requests : Scope(job'[q]) = Scope(job[q])
  BY <1>2
<1>9. Alone'
  <2> SUFFICES ASSUME NEW p \in Requests, NEW q \in Requests, p # q, Running(p)', Running(q)'
               PROVE  Scope(job'[p]) \cap Scope(job'[q]) \subseteq raced'
    BY DEF Alone, Scope
  <2> QED BY <1>2, <1>3, <1>8 DEF DInv, Alone
<1>10. ReadsStand'
  <2> SUFFICES ASSUME NEW q \in Requests, Running(q)', NEW s \in Scope(job'[q]) \ raced'
               PROVE  Stands(q, s)'
    BY DEF ReadsStand, Scope
  <2>1. CASE q = r
    BY <1>2, <2>1
  <2>2. CASE q # r
    <3>1. job'[q] = job[q] /\ stage'[q] = stage[q] /\ Running(q)
      BY <1>2, <1>3, <2>2
    <3>2. JobOK(job[q]) /\ s \in Scope(job[q]) \ raced
      BY <1>2, <3>1 DEF BInv, RequestsOK, Running
    <3>3. Stands(q, s)
      BY <3>1, <3>2 DEF DInv, ReadsStand
    <3>4. Untouched(s) /\ s \in Sales
      BY <1>4, <3>2, ScopeType, SameDocuments
    <3> QED BY <1>2, <3>1, <3>2, <3>3, <3>4, UntouchedStands
  <2> QED BY <2>1, <2>2
<1> QED BY <1>5, <1>6, <1>7, <1>9, <1>10 DEF DInv

-----------------------------------------------------------------------------
(* What a request reads of the bills before it locks anything.             *)

LEMMA LiveFinite == IsFiniteSet({d \in Collections : Live(d)})
BY FS_Subset, BooksAssumption

LEMMA ClearedType ==
  ASSUME DInv, NEW s \in Sales
  PROVE  Cleared(s) \in Nat
<1> DEFINE f == [c \in {d \in Collections : Live(d)} |-> alloc[c][s]]
<1>1. f \in [{d \in Collections : Live(d)} -> Nat]
  BY DEF DInv, DocumentsTypeOK
<1> HIDE DEF f
<1>2. SumFunction(f) \in Nat
  BY <1>1, LiveFinite, SumOfNaturals
<1> QED BY <1>2 DEF Cleared, f

\* What is open of a bill is no more than what its live collections leave.
LEMMA OpenFacts ==
  ASSUME DInv, NEW s \in Sales
  PROVE  /\ Open(s) \in Nat
         /\ s \in InTurn \ byHand => Open(s) + Cleared(s) <= Credit[s]
<1>1. Credit[s] \in Nat /\ Paid[s] \in Nat /\ refunds[s].credit \in Nat /\ Cleared(s) \in Nat
  BY ClearedType, BooksAssumption DEF DInv, DocumentsTypeOK
<1>2. Allocated(s) \in Nat /\ Cleared(s) <= Allocated(s)
  BY <1>1 DEF Allocated, Cleared
<1>3. s \in InTurn \ byHand => Cleared(s) <= Credit[s]
  BY DEF DInv, AllocatedWithinCredit, Cleared
<1> QED BY <1>1, <1>2, <1>3 DEF Open, Most

LEMMA FifoFacts ==
  ASSUME DInv, NEW money \in Nat
  PROVE  /\ Fifo(money) \in [Sales -> Nat]
         /\ \A s \in Sales : Fifo(money)[s] <= Open(s)
<1> SUFFICES ASSUME NEW s \in Sales
             PROVE  Fifo(money)[s] \in Nat /\ Fifo(money)[s] <= Open(s)
  BY DEF Fifo
<1> DEFINE earlier == {u \in Sales : u < s}
           owed == [t \in earlier |-> Open(t)]
<1>1. IsFiniteSet(earlier)
  BY FS_Subset, BooksAssumption
<1>2. owed \in [earlier -> Nat]
  BY OpenFacts
<1>3. SumFunction(owed) \in Nat
  <2> HIDE DEF owed, earlier
  <2> QED BY <1>1, <1>2, SumOfNaturals
<1>4. Fifo(money)[s] = Least(Open(s), Most(0, money - SumFunction(owed)))
  BY DEF Fifo
<1>5. Open(s) \in Nat
  BY OpenFacts
<1> HIDE DEF owed
<1> QED BY <1>3, <1>4, <1>5 DEF Least, Most

LEMMA CollectKeepsDocuments ==
  ASSUME BInv, DInv, NEW r \in Requests, NEW c \in Collections, NEW shares \in [Sales -> Nat],
         Collect(r, c, shares), byHand \subseteq byHand', byHand' \subseteq Sales,
         \A s \in Sales \ raced : s \notin byHand' => shares[s] + Cleared(s) <= Credit[s]
  PROVE  DInv'
<1> DEFINE j == Job("collect", c, Posts(-Amount[c], Nothing), 0, shares)
<1>1. /\ j.op = "collect" /\ j.id = c /\ j.cash = 0 /\ j.alloc = shares
      /\ j.posts = Posts(-Amount[c], Nothing) /\ j = Job(j.op, j.id, j.posts, j.cash, j.alloc)
  BY JobFields, JobRest
<1>2. Start(r, j, "locking")
  BY DEF Collect
<1> HIDE DEF j
<1>3. JobShape(j) /\ Scope(j) = Sales
  BY <1>1, ScopeType DEF JobShape
<1>4. job'[r] = j /\ UNCHANGED documents /\ raced \subseteq raced'
  BY <1>2 DEF Start, BInv, RequestsOK
<1>5. ASSUME NEW s \in Scope(j) \ raced' PROVE Stands(r, s)'
  <2>1. s \in Sales /\ Cleared(s)' = Cleared(s)
    BY <1>3, <1>4, <1>5, SameDocuments
  <2> QED BY <1>1, <1>4, <1>5, <2>1 DEF Stands
<1> QED BY <1>2, <1>3, <1>5, StartKeepsDocuments

LEMMA BeginCollectKeepsDocuments ==
  ASSUME BInv, DInv, NEW r \in Requests, NEW c \in Collections, BeginCollect(r, c)
  PROVE  DInv'
<1>1. Collect(r, c, Fifo(Amount[c])) /\ byHand' = byHand /\ Amount[c] \in Nat
  BY BooksAssumption DEF BeginCollect
<1>2. Fifo(Amount[c]) \in [Sales -> Nat] /\ \A s \in Sales : Fifo(Amount[c])[s] <= Open(s)
  BY <1>1, FifoFacts
<1>3. ASSUME NEW s \in Sales \ raced, s \notin byHand'
      PROVE  Fifo(Amount[c])[s] + Cleared(s) <= Credit[s]
  <2>1. Open(s) \in Nat /\ Open(s) + Cleared(s) <= Credit[s]
    BY <1>1, <1>3, OpenFacts DEF InTurn
  <2>2. Cleared(s) \in Nat /\ Credit[s] \in Nat /\ Fifo(Amount[c])[s] \in Nat
    BY <1>2, ClearedType, BooksAssumption
  <2> QED BY <1>2, <2>1, <2>2
<1> QED BY <1>1, <1>2, <1>3, CollectKeepsDocuments DEF DInv, HistoryOK

LEMMA BeginCollectByHandKeepsDocuments ==
  ASSUME BInv, DInv, NEW r \in Requests, NEW c \in Collections, BeginCollectByHand(r, c)
  PROVE  DInv'
<1>1. Amount[c] \in Nat
  BY BooksAssumption
<1>2. PICK shares \in [{s \in Sales : status[s] # "none"} -> 0..Amount[c]] :
        /\ Collect(r, c, [s \in Sales |-> IF s \in DOMAIN shares THEN shares[s] ELSE 0])
        /\ byHand' = byHand \cup {s \in DOMAIN shares : shares[s] > 0}
  BY DEF BeginCollectByHand
<1> DEFINE all == [s \in Sales |-> IF s \in DOMAIN shares THEN shares[s] ELSE 0]
<1>3. all \in [Sales -> Nat]
  BY <1>1
<1>4. byHand \subseteq byHand' /\ byHand' \subseteq Sales
  BY <1>2 DEF DInv, HistoryOK
<1>5. ASSUME NEW s \in Sales \ raced, s \notin byHand'
      PROVE  all[s] + Cleared(s) <= Credit[s]
  <2>1. all[s] = 0
    BY <1>1, <1>2, <1>5
  <2>2. Cleared(s) <= Credit[s]
    BY <1>4, <1>5 DEF DInv, AllocatedWithinCredit, Cleared, InTurn
  <2>3. Cleared(s) \in Nat /\ Credit[s] \in Nat
    BY ClearedType, BooksAssumption
  <2> QED BY <2>1, <2>2, <2>3
<1>6. Collect(r, c, all)
  BY <1>2
<1> HIDE DEF all
<1> QED BY <1>3, <1>4, <1>5, <1>6, CollectKeepsDocuments

\* The beginnings that read one sale or payment, or nothing.
LEMMA BeginKeepsDocuments ==
  ASSUME BInv, DInv, NEW r \in Requests,
         \/ \E s \in Sales : BeginCreate(r, s) \/ BeginCancel(r, s) \/ BeginReturn(r, s)
         \/ \E p \in Payments : BeginReversal(r, p)
         \/ \E a \in Accounts, n \in Corrections : BeginAdjust(r, a, n)
  PROVE  DInv'
<1>1. byHand' = byHand /\ byHand \subseteq Sales
  BY DEF BeginCreate, BeginCancel, BeginReturn, BeginReversal, BeginAdjust, DInv, HistoryOK
<1>2. ASSUME NEW j, NEW next, Start(r, j, next)
      PROVE  job'[r] = j /\ stage'[r] = next /\ UNCHANGED <<status, payment>>
  BY <1>2 DEF Start, BInv, RequestsOK, documents
<1>3. ASSUME NEW s \in Sales, BeginCreate(r, s) PROVE DInv'
  <2>1. Start(r, Billing(s), "locking") /\ status[s] = "none"
    BY <1>3 DEF BeginCreate
  <2>2. Billing(s).op = "create" /\ Billing(s).id = s /\ JobShape(Billing(s))
    BY JobFields, GoodShapes DEF Billing
  <2>3. Scope(Billing(s)) = {s}
    BY <2>2, ScopeType
  <2>4. Stands(r, s)'
    BY <1>2, <2>1, <2>2 DEF Stands
  <2> QED BY <1>1, <2>1, <2>2, <2>3, <2>4, StartKeepsDocuments
<1>4. ASSUME NEW s \in Sales, BeginCancel(r, s) PROVE DInv'
  <2>1. Start(r, Undoing(s), "reading") /\ status[s] = "COMPLETED"
    BY <1>4 DEF BeginCancel
  <2>2. Undoing(s).op = "cancel" /\ Undoing(s).id = s /\ JobShape(Undoing(s))
    BY JobFields, GoodShapes DEF Undoing
  <2>3. Scope(Undoing(s)) = {s}
    BY <2>2, ScopeType
  <2>4. Stands(r, s)'
    BY <1>2, <2>1, <2>2 DEF Stands
  <2> QED BY <1>1, <2>1, <2>2, <2>3, <2>4, StartKeepsDocuments
<1>5. ASSUME NEW s \in Sales, BeginReturn(r, s) PROVE DInv'
  <2> DEFINE j == Job("return", s, NoPosts, 0, NoAlloc)
  <2>1. Start(r, j, "reading") /\ status[s] = "COMPLETED"
    BY <1>5 DEF BeginReturn
  <2>2. j.op = "return" /\ j.id = s /\ JobShape(j)
    BY JobFields, GoodShapes
  <2> HIDE DEF j
  <2>3. Scope(j) = {s}
    BY <2>2, ScopeType
  <2>4. Stands(r, s)'
    BY <1>2, <2>1, <2>2 DEF Stands
  <2> QED BY <1>1, <2>1, <2>2, <2>3, <2>4, StartKeepsDocuments
<1>6. ASSUME NEW p \in Payments, BeginReversal(r, p) PROVE DInv'
  <2>1. Start(r, Reversing(p), "locking") /\ Live(p)
    BY <1>6 DEF BeginReversal
  <2>2. Reversing(p).op = "reverse" /\ Reversing(p).id = p /\ JobShape(Reversing(p))
    BY JobFields, GoodShapes DEF Reversing
  <2>3. ASSUME NEW s \in Scope(Reversing(p)) PROVE Stands(r, s)'
    BY <1>2, <2>1, <2>2 DEF Stands, Live
  <2> QED BY <1>1, <2>1, <2>2, <2>3, StartKeepsDocuments
<1>7. ASSUME NEW a \in Accounts, NEW n \in Corrections, BeginAdjust(r, a, n) PROVE DInv'
  <2> DEFINE j == Job("adjust", 0, [x \in Accounts |-> IF x = a THEN n ELSE 0], 0, NoAlloc)
  <2>1. Start(r, j, "locking")
    BY <1>7 DEF BeginAdjust
  <2>2. /\ j.op = "adjust" /\ j.id = 0 /\ j.cash = 0 /\ j.alloc = NoAlloc
        /\ j = Job(j.op, j.id, j.posts, j.cash, j.alloc)
    BY JobFields, JobRest
  <2> HIDE DEF j
  <2>3. JobShape(j)
    BY <2>2, NothingBack DEF JobShape
  <2>4. Scope(j) = {}
    BY <2>2, ScopeType, BooksAssumption
  <2> QED BY <1>1, <2>1, <2>3, <2>4, StartKeepsDocuments
<1> QED BY <1>3, <1>4, <1>5, <1>6, <1>7

-----------------------------------------------------------------------------
(* Requests that have read on and go on to write.                          *)

LEMMA CountReturnsKeepsDocuments ==
  ASSUME BInv, DInv, NEW r \in Requests, CountReturns(r)
  PROVE  DInv'
<1>1. /\ stage[r] = "reading" /\ job[r].op = "cancel" /\ returned[job[r].id] = Nothing
      /\ GoOn(r, job[r]) /\ repeated' = repeated /\ repeated \subseteq Sales
  BY DEF CountReturns, DInv, HistoryOK
<1>2. Running(r) /\ JobShape(job[r]) /\ job[r].id \in Sales
  BY <1>1 DEF Running, DInv, JobsKnown, BInv, RequestsOK, JobOK
<1>3. Scope(job[r]) = {job[r].id}
  BY <1>1, <1>2, ScopeType
<1>4. job'[r] = job[r] /\ UNCHANGED <<status, returned>>
  BY <1>1 DEF GoOn, BInv, RequestsOK, documents
<1>5. ASSUME NEW s \in Scope(job[r]) \ raced PROVE Stands(r, s)'
  <2>1. Stands(r, s)
    BY <1>2 DEF DInv, ReadsStand
  <2> QED BY <1>1, <1>3, <1>4, <2>1 DEF Stands
<1>6. PICK j : j = job[r]
  OBVIOUS
<1> QED BY <1>1, <1>2, <1>5, <1>6, GoOnKeepsDocuments

LEMMA ReadReturnedKeepsDocuments ==
  ASSUME BInv, DInv, NEW r \in Requests, ReadReturned(r)
  PROVE  DInv'
<1>1. stage[r] = "reading" /\ job[r].op = "return"
  BY DEF ReadReturned
<1>2. Running(r) /\ job[r].id \in Sales
  BY <1>1 DEF Running, BInv, RequestsOK, JobOK
<1>3. PICK s \in Sales : s = job[r].id
  BY <1>2
<1>a. PICK named \in [Products -> 0..MaxNamed], back \in [Products -> 0..(MaxNamed * Worth(s))] :
        /\ \A p \in Products : named[p] <= back[p] /\ back[p] <= named[p] * Returnable(s, p)
        /\ repeated' = IF \E p \in Products : named[p] > 1 THEN repeated \cup {s} ELSE repeated
        /\ \E cash \in 0..MaxCash(s, SumFunction(back)) :
             GoOn(r, Job("return", s, Posts(cash - SumFunction(back), back), cash, NoAlloc))
  BY <1>3 DEF ReadReturned
<1>4. PICK cash \in 0..MaxCash(s, SumFunction(back)) :
        GoOn(r, Job("return", s, Posts(cash - SumFunction(back), back), cash, NoAlloc))
  BY <1>a
<1> DEFINE total == SumFunction(back)
           j == Job("return", s, Posts(cash - total, back), cash, NoAlloc)
<1>5. back \in [Products -> Nat]
  BY <1>a
<1>6. /\ j.op = "return" /\ j.id = s /\ j.cash = cash /\ j.alloc = NoAlloc
      /\ j.posts = Posts(cash - total, back) /\ j = Job(j.op, j.id, j.posts, j.cash, j.alloc)
  BY JobFields, JobRest
<1>7. GoOn(r, j)
  BY <1>4
<1>9. total \in Nat /\ cash \in Nat /\ cash <= MaxCash(s, total) /\ cash <= total
  <2>1. total \in Nat /\ Credit[s] \in Nat
    BY <1>5, SumOfNaturals, ProductsFinite, BooksAssumption
  <2>2. cash \in 0..MaxCash(s, total)
    BY <1>4
  <2> HIDE DEF total
  <2> QED BY <2>1, <2>2 DEF MaxCash
<1> HIDE DEF j
<1>8. j.posts[Khata] = cash - total /\ Back(j) = back
  <2>1. \A p \in Products : j.posts[Product(p)] = back[p]
    BY <1>6, PostsAt
  <2> QED BY <1>5, <1>6, <2>1, PostsAt DEF Back
<1>10. JobShape(j)
  <2>1. Back(j) \in [Products -> Nat]
    BY <1>5, <1>8
  <2>2. j.posts[Khata] <= 0
    BY <1>8, <1>9
  <2> QED BY <1>6, <1>9, <2>1, <2>2, NothingBack DEF JobShape
<1>11. Scope(j) = {s} /\ Scope(job[r]) = {s}
  BY <1>1, <1>3, <1>6, ScopeType
<1>12. job'[r] = j /\ UNCHANGED <<status, returned>>
  BY <1>7 DEF GoOn, BInv, RequestsOK, documents
<1>13. s \notin raced => status[s] = "COMPLETED"
  BY <1>1, <1>2, <1>11 DEF DInv, ReadsStand, Stands
<1>14. repeated \subseteq repeated' /\ repeated' \subseteq Sales
  BY <1>a DEF DInv, HistoryOK
\* A line named once is measured against what is left of it.
<1>15. s \notin raced \cup repeated' => \A p \in Products : back[p] <= Returnable(s, p)
  <2> SUFFICES ASSUME s \notin raced \cup repeated', NEW p \in Products
               PROVE  back[p] <= Returnable(s, p)
    OBVIOUS
  <2>1. ~(named[p] > 1) /\ named[p] \in Nat
    BY <1>a, BooksAssumption
  <2>2. back[p] <= named[p] * Returnable(s, p) /\ named[p] <= back[p] /\ back[p] \in Nat
    BY <1>a, <1>5
  <2>3. Returnable(s, p) \in Int
    BY BooksAssumption DEF Returnable, DInv, DocumentsTypeOK
  <2>4. CASE named[p] = 1
    BY <2>2, <2>3, <2>4
  <2>5. CASE named[p] = 0
    <3>1. back[p] = 0
      BY <2>2, <2>3, <2>5
    <3>2. s \in Plain
      BY <1>14 DEF Plain, InTurn
    <3>3. returned[s][p] + TakenBack(s, p) <= Sold[s][p] /\ TakenBack(s, p) \in Nat
      BY <3>2, BooksAssumption DEF DInv, GoodsComeBackOnce, TakenBack
    <3>4. Returnable(s, p) >= 0
      BY <3>3, BooksAssumption DEF Returnable, DInv, DocumentsTypeOK
    <3> QED BY <3>1, <3>4
  <2> QED BY <2>1, <2>4, <2>5
<1>16. ASSUME s \notin raced PROVE Stands(r, s)'
  BY <1>6, <1>8, <1>9, <1>12, <1>13, <1>15, <1>16 DEF Stands, Returnable, MaxCash
<1> QED BY <1>1, <1>7, <1>10, <1>11, <1>14, <1>16, GoOnKeepsDocuments

-----------------------------------------------------------------------------
(* Commits.                                                                *)

\* What is known of a request that commits.
LEMMA CommitFacts ==
  ASSUME BInv, DInv, NEW r \in Requests, NEW op, Commits(r, op)
  PROVE  /\ Running(r) /\ stage[r] = "locking" /\ job[r].op = op
         /\ JobOK(job[r]) /\ JobShape(job[r])
         /\ \A s \in Scope(job[r]) : s \in InTurn => Stands(r, s)
         /\ raced' = raced /\ byHand' = byHand /\ repeated' = repeated
         /\ InTurn' = InTurn /\ Plain' = Plain
<1>1. stage[r] = "locking" /\ job[r].op = op /\ Release(r)
  BY DEF Commits
<1>2. Running(r)
  BY <1>1 DEF Running
<1>3. JobOK(job[r]) /\ JobShape(job[r])
  BY <1>1, <1>2 DEF BInv, RequestsOK, DInv, JobsKnown
<1>4. \A s \in Scope(job[r]) : s \in InTurn => Stands(r, s)
  BY <1>2 DEF DInv, ReadsStand, InTurn
<1> QED BY <1>1, <1>2, <1>3, <1>4, ReleaseJobs DEF InTurn, Plain

\* Whoever else is running looks at other sales, or has raced.
LEMMA CommitLeavesJobs ==
  ASSUME BInv, DInv, NEW r \in Requests, NEW op, Commits(r, op),
         \A s \in Sales \ Scope(job[r]) : Untouched(s)
  PROVE  HistoryOK' /\ JobsKnown' /\ Alone' /\ ReadsStand'
<1>1. Running(r) /\ Release(r)
  BY CommitFacts DEF Commits
<1>2. /\ job'[r] = NoJob /\ ~Running(r)'
      /\ \A q \in Requests \ {r} : /\ job'[q] = job[q] /\ stage'[q] = stage[q]
                                   /\ Running(q)' <=> Running(q)
      /\ raced' = raced /\ byHand' = byHand /\ repeated' = repeated /\ begun' = begun
  BY <1>1, ReleaseJobs
<1>3. HistoryOK' /\ JobsKnown' /\ Alone'
  BY <1>2 DEF DInv, HistoryOK, JobsKnown, Alone
<1>4. ReadsStand'
  <2> SUFFICES ASSUME NEW q \in Requests, Running(q)', NEW s \in Scope(job'[q]) \ raced'
               PROVE  Stands(q, s)'
    BY DEF ReadsStand, Scope
  <2>1. q # r /\ job'[q] = job[q] /\ stage'[q] = stage[q] /\ Running(q)
    BY <1>2
  <2>2. JobOK(job[q]) /\ s \in Scope(job[q]) \ raced
    BY <1>2, <2>1 DEF BInv, RequestsOK, Running
  <2>3. Stands(q, s)
    BY <2>1, <2>2 DEF DInv, ReadsStand
  <2>4. s \notin Scope(job[r])
    BY <1>1, <2>1, <2>2 DEF DInv, Alone
  <2>5. Untouched(s)
    BY <2>2, <2>4, ScopeType
  <2> QED BY <1>2, <2>1, <2>2, <2>3, <2>5, UntouchedStands
<1> QED BY <1>3, <1>4

\* The documents of sales: nothing of the collections changes.
LEMMA ClearedStays ==
  ASSUME UNCHANGED alloc, \A c \in Collections : payment'[c] = payment[c]
  PROVE  /\ \A s \in Sales : Cleared(s)' = Cleared(s)
         /\ raced' = raced /\ byHand' = byHand /\ AllocatedWithinCredit => AllocatedWithinCredit'
<1>1. {d \in Collections : Live(d)}' = {d \in Collections : Live(d)}
  BY DEF Live
<1>2. \A s \in Sales : Cleared(s)' = Cleared(s)
  BY <1>1 DEF Cleared
<1>3. ASSUME raced' = raced, byHand' = byHand, AllocatedWithinCredit PROVE AllocatedWithinCredit'
  BY <1>1, <1>3 DEF AllocatedWithinCredit, InTurn
<1> QED BY <1>2, <1>3

LEMMA CommitCreateKeepsDocuments ==
  ASSUME BInv, DInv, NEW r \in Requests, CommitCreate(r)
  PROVE  DInv'
<1>1. Commits(r, "create")
  BY DEF CommitCreate
<1>2. PICK s \in Sales : s = job[r].id
  BY <1>1, CommitFacts DEF JobOK
<1>3. /\ status[s] = "none"
      /\ status' = [status EXCEPT ![s] = "COMPLETED"]
      /\ payment' = [payment EXCEPT ![s] = IF Paid[s] > 0 THEN "live" ELSE @]
      /\ UNCHANGED <<returned, refunds, outs, alloc>>
  BY <1>2 DEF CommitCreate
<1>4. DocumentsTypeOK
  BY DEF DInv
<1>5. /\ status'[s] = "COMPLETED"
      /\ \A t \in Sales \ {s} : status'[t] = status[t] /\ payment'[t] = payment[t]
      /\ \A c \in Collections : payment'[c] = payment[c]
  BY <1>3, <1>4, BooksAssumption DEF DocumentsTypeOK, Payments
<1>6. DocumentsTypeOK'
  BY <1>3, <1>4 DEF DocumentsTypeOK, Payments
<1>7. Scope(job[r]) = {s}
  BY <1>1, <1>2, CommitFacts, ScopeType
<1>8. HistoryOK' /\ JobsKnown' /\ Alone' /\ ReadsStand'
  BY <1>1, <1>3, <1>5, <1>7, CommitLeavesJobs DEF Untouched
<1>9. raced' = raced /\ byHand' = byHand /\ InTurn' = InTurn /\ Plain' = Plain
  BY <1>1, CommitFacts
<1>10. GoodsComeBackOnce'
  <2>1. \A t \in Sales, p \in Products : TakenBack(t, p)' = TakenBack(t, p)
    BY <1>3, <1>5 DEF TakenBack
  <2> QED BY <1>3, <1>9, <2>1 DEF DInv, GoodsComeBackOnce, Plain, InTurn
<1>11. CashBehindCredit'
  BY <1>3, <1>9 DEF DInv, CashBehindCredit
<1>12. AllocatedWithinCredit'
  BY <1>3, <1>5, <1>9, ClearedStays DEF DInv
<1> QED BY <1>6, <1>8, <1>10, <1>11, <1>12 DEF DInv

LEMMA CommitCancelKeepsDocuments ==
  ASSUME BInv, DInv, NEW r \in Requests, CommitCancel(r)
  PROVE  DInv'
<1>1. Commits(r, "cancel")
  BY DEF CommitCancel
<1>2. PICK s \in Sales : s = job[r].id
  BY <1>1, CommitFacts DEF JobOK
<1>3. /\ status' = [status EXCEPT ![s] = "CANCELLED"]
      /\ payment' = [payment EXCEPT ![s] = IF Paid[s] > 0 THEN "reversed" ELSE @]
      /\ outs' = [outs EXCEPT ![s] = IF Paid[s] > 0 THEN @ + 1 ELSE @]
      /\ UNCHANGED <<returned, refunds, alloc>>
  BY <1>2 DEF CommitCancel
<1>4. DocumentsTypeOK
  BY DEF DInv
<1>5. /\ status'[s] = "CANCELLED"
      /\ \A t \in Sales \ {s} : status'[t] = status[t] /\ payment'[t] = payment[t]
      /\ \A c \in Collections : payment'[c] = payment[c]
  BY <1>3, <1>4, BooksAssumption DEF DocumentsTypeOK, Payments
<1>6. DocumentsTypeOK'
  BY <1>3, <1>4 DEF DocumentsTypeOK, Payments
<1>7. Scope(job[r]) = {s}
  BY <1>1, <1>2, CommitFacts, ScopeType
<1>8. HistoryOK' /\ JobsKnown' /\ Alone' /\ ReadsStand'
  BY <1>1, <1>3, <1>5, <1>7, CommitLeavesJobs DEF Untouched
<1>9. raced' = raced /\ byHand' = byHand /\ InTurn' = InTurn /\ Plain' = Plain
  BY <1>1, CommitFacts
<1>10. GoodsComeBackOnce'
  <2> SUFFICES ASSUME NEW t \in Plain, NEW p \in Products
               PROVE  returned'[t][p] + TakenBack(t, p)' <= Sold[t][p]
    BY <1>9 DEF GoodsComeBackOnce
  <2>1. t \in Sales /\ t \in InTurn
    BY DEF Plain, InTurn
  <2>2. CASE t = s
    <3>1. Stands(r, s)
      BY <1>1, <1>7, <2>1, <2>2, CommitFacts
    <3>2. returned[s] = Nothing
      BY <1>1, <3>1, CommitFacts DEF Stands
    <3>3. Sold[s][p] \in Nat
      BY BooksAssumption
    <3> QED BY <1>3, <1>5, <2>2, <3>2, <3>3 DEF TakenBack, Nothing
  <2>3. CASE t # s
    <3>1. TakenBack(t, p)' = TakenBack(t, p)
      BY <1>5, <2>1, <2>3 DEF TakenBack
    <3> QED BY <1>3, <3>1 DEF DInv, GoodsComeBackOnce
  <2> QED BY <2>2, <2>3
<1>11. CashBehindCredit'
  BY <1>3, <1>9 DEF DInv, CashBehindCredit
<1>12. AllocatedWithinCredit'
  BY <1>3, <1>5, <1>9, ClearedStays DEF DInv
<1> QED BY <1>6, <1>8, <1>10, <1>11, <1>12 DEF DInv

LEMMA CommitReturnKeepsDocuments ==
  ASSUME BInv, DInv, NEW r \in Requests, CommitReturn(r)
  PROVE  DInv'
<1>1. Commits(r, "return")
  BY DEF CommitReturn
<1>2. PICK s \in Sales : s = job[r].id
  BY <1>1, CommitFacts DEF JobOK
<1>3. PICK back, cash, given : /\ back = Back(job[r]) /\ cash = job[r].cash
                               /\ given = job[r].posts[Khata]
  OBVIOUS
<1>4. back \in [Products -> Nat] /\ cash \in Nat /\ given \in Int /\ given <= 0
  <2>1. JobShape(job[r]) /\ JobOK(job[r]) /\ job[r].op = "return"
    BY <1>1, CommitFacts
  <2> QED BY <1>3, <2>1, RowFacts DEF JobShape, JobOK
<1>5. /\ returned' = [returned EXCEPT ![s] = [p \in Products |-> @[p] + back[p]]]
      /\ refunds' = [refunds EXCEPT ![s].cash = @ + cash, ![s].credit = @ - given]
      /\ UNCHANGED <<status, payment, outs, alloc>>
  BY <1>2, <1>3 DEF CommitReturn, Back
<1>6. DocumentsTypeOK
  BY DEF DInv
<1>7. /\ returned'[s] = [p \in Products |-> returned[s][p] + back[p]]
      /\ refunds'[s].cash = refunds[s].cash + cash
      /\ refunds'[s].credit = refunds[s].credit - given
      /\ \A t \in Sales \ {s} : returned'[t] = returned[t] /\ refunds'[t] = refunds[t]
  BY <1>5, <1>6 DEF DocumentsTypeOK
<1>8. DocumentsTypeOK'
  <2>1. returned' \in [Sales -> [Products -> Nat]]
    BY <1>4, <1>5, <1>6 DEF DocumentsTypeOK
  <2>2. refunds[s] \in [cash : Nat, credit : Nat]
    BY <1>6 DEF DocumentsTypeOK
  <2>3. refunds[s].cash + cash \in Nat /\ refunds[s].credit - given \in Nat
    BY <1>4, <2>2
  <2>4. refunds' \in [Sales -> [cash : Nat, credit : Nat]]
    BY <1>5, <1>6, <2>3 DEF DocumentsTypeOK
  <2> QED BY <1>5, <1>6, <2>1, <2>4 DEF DocumentsTypeOK
<1>9. Scope(job[r]) = {s}
  BY <1>1, <1>2, CommitFacts, ScopeType
<1>10. HistoryOK' /\ JobsKnown' /\ Alone' /\ ReadsStand'
  BY <1>1, <1>5, <1>7, <1>9, CommitLeavesJobs DEF Untouched
<1>11. raced' = raced /\ byHand' = byHand /\ InTurn' = InTurn /\ Plain' = Plain
  BY <1>1, CommitFacts
<1>12. s \in InTurn => /\ status[s] = "COMPLETED"
                       /\ s \in Plain => \A p \in Products : back[p] <= Sold[s][p] - returned[s][p]
                       /\ cash <= MaxCash(s, SumFunction(back))
  BY <1>1, <1>3, <1>9, CommitFacts DEF Stands, Returnable, Plain
<1>13. GoodsComeBackOnce'
  <2> SUFFICES ASSUME NEW t \in Plain, NEW p \in Products
               PROVE  returned'[t][p] + TakenBack(t, p)' <= Sold[t][p]
    BY <1>11 DEF GoodsComeBackOnce
  <2>1. t \in Sales /\ TakenBack(t, p)' = TakenBack(t, p)
    BY <1>5 DEF Plain, InTurn, TakenBack
  <2>2. CASE t = s
    <3>1. TakenBack(s, p) = 0
      BY <1>12, <2>2 DEF TakenBack, Plain
    <3>2. returned[s][p] \in Nat /\ back[p] \in Nat /\ Sold[s][p] \in Nat
      BY <1>4, <1>6, BooksAssumption DEF DocumentsTypeOK
    <3>3. returned'[s][p] = returned[s][p] + back[p]
      BY <1>7
    <3> QED BY <1>12, <2>1, <2>2, <3>1, <3>2, <3>3 DEF Plain
  <2>3. CASE t # s
    BY <1>7, <2>1, <2>3 DEF DInv, GoodsComeBackOnce
  <2> QED BY <2>2, <2>3
<1>14. CashBehindCredit'
  <2> SUFFICES ASSUME NEW t \in InTurn
               PROVE  refunds'[t].cash <= Most(0, SumFunction(returned'[t]) - Credit[t])
    BY <1>11 DEF CashBehindCredit, Most
  <2>1. t \in Sales
    BY DEF InTurn
  <2>2. CASE t # s
    BY <1>7, <2>1, <2>2 DEF DInv, CashBehindCredit
  <2>3. CASE t = s
    <3>1. returned[s] \in [Products -> Nat] /\ returned'[s] \in [Products -> Nat]
      BY <1>6, <1>8 DEF DocumentsTypeOK
    <3>2. SumFunction(returned'[s]) = SumFunction(returned[s]) + SumFunction(back)
      <4>1. \A p \in Products : /\ returned[s][p] \in Int /\ back[p] \in Int
                                /\ returned'[s][p] = returned[s][p] + back[p]
        BY <1>4, <1>7, <3>1
      <4> QED BY <1>4, <3>1, <4>1, ProductsFinite, SumPlus DEF SumFunction
    <3>3. SumFunction(returned[s]) \in Nat /\ SumFunction(back) \in Nat
      BY <1>4, <3>1, ProductsFinite, SumOfNaturals
    <3>4. refunds[s].cash \in Nat /\ Credit[s] \in Nat
      BY <1>6, BooksAssumption DEF DocumentsTypeOK
    <3>5. refunds[s].cash <= Most(0, SumFunction(returned[s]) - Credit[s])
      BY <2>3 DEF DInv, CashBehindCredit
    <3> QED BY <1>4, <1>7, <1>12, <2>3, <3>2, <3>3, <3>4, <3>5 DEF Most, MaxCash
  <2> QED BY <2>2, <2>3
<1>15. AllocatedWithinCredit'
  BY <1>5, <1>11, ClearedStays DEF DInv
<1> QED BY <1>8, <1>10, <1>13, <1>14, <1>15 DEF DInv

\* A collection that becomes live adds what it clears.
LEMMA ClearedGrows ==
  ASSUME DInv, DocumentsTypeOK', NEW c \in Collections, payment[c] = "none",
         payment' = [payment EXCEPT ![c] = "live"],
         NEW shares \in [Sales -> Nat], alloc' = [alloc EXCEPT ![c] = shares], NEW s \in Sales
  PROVE  Cleared(s)' = Cleared(s) + shares[s]
<1> DEFINE L == {d \in Collections : Live(d)}
           f == [d \in L |-> alloc[d][s]]
           g == [d \in L \cup {c} |-> IF d = c THEN shares[s] ELSE alloc[d][s]]
<1>1. DocumentsTypeOK /\ c \in Payments
  BY DEF DInv, Payments
<1>2. \A d \in Collections : d \in Payments
  BY DEF Payments
<1>3. c \notin L /\ {d \in Collections : Live(d)}' = L \cup {c}
  BY <1>1, <1>2 DEF Live, DocumentsTypeOK
<1>4. \A d \in Collections : alloc'[d][s] = IF d = c THEN shares[s] ELSE alloc[d][s]
  BY <1>1 DEF DocumentsTypeOK
<1>5. Cleared(s)' = SumFunction(g)
  BY <1>3, <1>4 DEF Cleared
<1>6. Cleared(s) = SumFunction(f)
  BY DEF Cleared
<1>7. \A d \in L : f[d] \in Nat /\ g[d] = f[d]
  BY <1>1, <1>3 DEF DocumentsTypeOK
<1>8. g[c] = shares[s] /\ shares[s] \in Nat /\ DOMAIN g = L \cup {c} /\ DOMAIN f = L
  OBVIOUS
<1>9. IsFiniteSet(L)
  BY LiveFinite
<1> HIDE DEF f, g, L
<1>10. SumFunctionOnSet(g, L \cup {c}) = g[c] + SumFunctionOnSet(g, L)
  BY <1>3, <1>7, <1>8, <1>9, SumAdd
<1>11. SumFunctionOnSet(g, L) = SumFunctionOnSet(f, L)
  BY <1>7, <1>9, SumSame
<1>12. SumFunctionOnSet(f, L) \in Int
  BY <1>7, <1>9, SumInt
<1> QED BY <1>5, <1>6, <1>8, <1>10, <1>11, <1>12 DEF SumFunction

LEMMA CommitCollectKeepsDocuments ==
  ASSUME BInv, DInv, NEW r \in Requests, CommitCollect(r)
  PROVE  DInv'
<1>1. Commits(r, "collect")
  BY DEF CommitCollect
<1>2. JobShape(job[r]) /\ job[r].op = "collect"
  BY <1>1, CommitFacts
<1>3. PICK c \in Collections, shares \in [Sales -> Nat] : c = job[r].id /\ shares = job[r].alloc
  BY <1>2 DEF JobShape
<1>4. /\ payment[c] = "none"
      /\ payment' = [payment EXCEPT ![c] = "live"]
      /\ alloc' = [alloc EXCEPT ![c] = shares]
      /\ UNCHANGED <<status, returned, refunds, outs>>
  BY <1>3 DEF CommitCollect
<1>5. DocumentsTypeOK
  BY DEF DInv
<1>6. DocumentsTypeOK'
  BY <1>4, <1>5 DEF DocumentsTypeOK, Payments
<1>7. Scope(job[r]) = Sales
  BY <1>2, <1>3, ScopeType
<1>8. HistoryOK' /\ JobsKnown' /\ Alone' /\ ReadsStand'
  BY <1>1, <1>7, CommitLeavesJobs
<1>9. raced' = raced /\ byHand' = byHand /\ InTurn' = InTurn /\ Plain' = Plain
  BY <1>1, CommitFacts
<1>10. GoodsComeBackOnce' /\ CashBehindCredit'
  BY <1>4, <1>9 DEF DInv, GoodsComeBackOnce, CashBehindCredit, TakenBack
<1>11. AllocatedWithinCredit'
  <2> SUFFICES ASSUME NEW s \in InTurn \ byHand
               PROVE  Cleared(s)' <= Credit[s]
    BY <1>9 DEF AllocatedWithinCredit, Cleared
  <2>1. s \in Sales
    BY DEF InTurn
  <2>2. Cleared(s)' = Cleared(s) + shares[s]
    BY <1>4, <1>6, <2>1, ClearedGrows
  <2>3. shares[s] + Cleared(s) <= Credit[s]
    BY <1>1, <1>2, <1>3, <1>7, <2>1, CommitFacts DEF Stands
  <2>4. Cleared(s) \in Nat /\ shares[s] \in Nat
    BY <2>1, ClearedType
  <2> QED BY <2>2, <2>3, <2>4
<1> QED BY <1>6, <1>8, <1>10, <1>11 DEF DInv

\* A payment that is reversed clears nothing any more.
LEMMA ClearedShrinks ==
  ASSUME DInv, NEW p \in Payments, payment' = [payment EXCEPT ![p] = "reversed"],
         UNCHANGED alloc, NEW s \in Sales
  PROVE  Cleared(s)' \in Nat /\ Cleared(s)' <= Cleared(s)
<1> DEFINE L == {d \in Collections : Live(d)}
           M == {d \in L : d # p}
           f == [d \in L |-> alloc[d][s]]
           g == [d \in M |-> alloc[d][s]]
<1>1. DocumentsTypeOK
  BY DEF DInv
<1>2. {d \in Collections : Live(d)}' = M
  BY <1>1 DEF Live, DocumentsTypeOK, Payments
<1>3. Cleared(s)' = SumFunction(g) /\ Cleared(s) = SumFunction(f)
  BY <1>2 DEF Cleared
<1>4. \A d \in L : f[d] \in Nat
  BY <1>1 DEF DocumentsTypeOK
<1>5. \A d \in M : f[d] \in Nat /\ g[d] = f[d]
  BY <1>4
<1>6. IsFiniteSet(L) /\ M \in SUBSET L
  BY LiveFinite
<1>7. IsFiniteSet(M) /\ DOMAIN f = L /\ DOMAIN g = M
  BY <1>6, FS_Subset
<1> HIDE DEF f, g, L, M
<1>8. SumFunctionOnSet(g, M) = SumFunctionOnSet(f, M)
  BY <1>5, <1>7, SumSame
<1>9. SumFunctionOnSet(f, M) <= SumFunctionOnSet(f, L)
  BY <1>4, <1>6, SumOfSome
<1>10. SumFunctionOnSet(f, M) \in Nat
  BY <1>5, <1>7, SumNat
<1> QED BY <1>3, <1>7, <1>8, <1>9, <1>10 DEF SumFunction

LEMMA CommitReversalKeepsDocuments ==
  ASSUME BInv, DInv, NEW r \in Requests, CommitReversal(r)
  PROVE  DInv'
<1>1. Commits(r, "reverse")
  BY DEF CommitReversal
<1>2. JobOK(job[r]) /\ job[r].op = "reverse"
  BY <1>1, CommitFacts
<1>3. PICK p \in Payments : p = job[r].id
  BY <1>2 DEF JobOK
<1>4. /\ payment' = [payment EXCEPT ![p] = "reversed"]
      /\ outs' = [outs EXCEPT ![p] = @ + 1]
      /\ UNCHANGED <<status, returned, refunds, alloc>>
  BY <1>3 DEF CommitReversal
<1>5. DocumentsTypeOK
  BY DEF DInv
<1>6. DocumentsTypeOK'
  BY <1>4, <1>5 DEF DocumentsTypeOK
<1>7. \A s \in Sales \ Scope(job[r]) : Untouched(s)
  <2> SUFFICES ASSUME NEW s \in Sales \ Scope(job[r])
               PROVE  Untouched(s)
    OBVIOUS
  <2>1. p # s /\ p \notin Collections
    BY <1>2, <1>3, ScopeType DEF Payments
  <2>2. payment'[s] = payment[s] /\ \A c \in Collections : payment'[c] = payment[c]
    BY <1>4, <1>5, <2>1 DEF DocumentsTypeOK, Payments
  <2> QED BY <1>4, <2>2 DEF Untouched
<1>8. HistoryOK' /\ JobsKnown' /\ Alone' /\ ReadsStand'
  BY <1>1, <1>7, CommitLeavesJobs
<1>9. raced' = raced /\ byHand' = byHand /\ InTurn' = InTurn /\ Plain' = Plain
  BY <1>1, CommitFacts
<1>10. GoodsComeBackOnce' /\ CashBehindCredit'
  BY <1>4, <1>9 DEF DInv, GoodsComeBackOnce, CashBehindCredit, TakenBack
<1>11. AllocatedWithinCredit'
  <2> SUFFICES ASSUME NEW s \in InTurn \ byHand
               PROVE  Cleared(s)' <= Credit[s]
    BY <1>9 DEF AllocatedWithinCredit, Cleared
  <2>1. s \in Sales
    BY DEF InTurn
  <2>2. Cleared(s)' \in Nat /\ Cleared(s)' <= Cleared(s)
    BY <1>4, <2>1, ClearedShrinks
  <2>3. Cleared(s) <= Credit[s]
    BY DEF DInv, AllocatedWithinCredit, Cleared
  <2>4. Cleared(s) \in Nat /\ Credit[s] \in Nat
    BY <2>1, ClearedType, BooksAssumption
  <2> QED BY <2>2, <2>3, <2>4
<1> QED BY <1>6, <1>8, <1>10, <1>11 DEF DInv

LEMMA CommitAdjustKeepsDocuments ==
  ASSUME BInv, DInv, NEW r \in Requests, CommitAdjust(r)
  PROVE  DInv'
<1>1. Commits(r, "adjust") /\ UNCHANGED documents
  BY DEF CommitAdjust
<1>2. \A s \in Sales \ Scope(job[r]) : Untouched(s)
  BY <1>1, SameDocuments
<1>3. HistoryOK' /\ JobsKnown' /\ Alone' /\ ReadsStand'
  BY <1>1, <1>2, CommitLeavesJobs
<1>4. raced' = raced /\ byHand' = byHand /\ repeated' = repeated
  BY <1>1, CommitFacts
<1>5. GoodsComeBackOnce' /\ CashBehindCredit' /\ AllocatedWithinCredit'
  BY <1>1, <1>4, BoundsStay
<1>6. DocumentsTypeOK'
  BY <1>1, SameDocuments DEF DInv
<1> QED BY <1>3, <1>5, <1>6 DEF DInv

-----------------------------------------------------------------------------
(* The theorems.                                                           *)

LEMMA InitKeepsDocuments == Init => DInv
<1> SUFFICES ASSUME Init PROVE DInv
  OBVIOUS
<1>1. DocumentsTypeOK /\ HistoryOK
  BY DEF Init, DocumentsTypeOK, HistoryOK, Nothing, NoAlloc
<1>2. \A r \in Requests : ~Running(r) /\ job[r] = NoJob
  BY DEF Init, Running
<1>3. JobsKnown /\ Alone /\ ReadsStand
  BY <1>2 DEF JobsKnown, Alone, ReadsStand
<1>4. GoodsComeBackOnce
  BY BooksAssumption DEF Init, GoodsComeBackOnce, Plain, InTurn, TakenBack, Nothing
<1>5. CashBehindCredit
  <2> SUFFICES ASSUME NEW s \in Sales
               PROVE  refunds[s].cash <= Most(0, SumFunction(returned[s]) - Credit[s])
    BY DEF CashBehindCredit, InTurn
  <2>1. SumFunction(returned[s]) \in Nat
    BY <1>1, ProductsFinite, SumOfNaturals DEF DocumentsTypeOK
  <2>2. Credit[s] \in Nat /\ refunds[s].cash = 0
    BY BooksAssumption DEF Init
  <2> QED BY <2>1, <2>2 DEF Most
<1>6. AllocatedWithinCredit
  <2> SUFFICES ASSUME NEW s \in Sales
               PROVE  Cleared(s) <= Credit[s]
    BY DEF AllocatedWithinCredit, InTurn, Cleared
  <2>1. \A d \in Collections : ~Live(d)
    BY DEF Init, Live, Payments
  <2> DEFINE f == [c \in {d \in Collections : Live(d)} |-> alloc[c][s]]
  <2>2. DOMAIN f = {}
    BY <2>1
  <2> HIDE DEF f
  <2>3. SumFunction(f) = 0
    BY <2>2, SumEmpty DEF SumFunction
  <2> QED BY <2>3, BooksAssumption DEF Cleared, f
<1> QED BY <1>1, <1>3, <1>4, <1>5, <1>6 DEF DInv

\* Every step of a request.
LEMMA RequestStepKeepsDocuments ==
  ASSUME BInv, DInv, NEW r \in Requests, RequestStep(r)
  PROVE  DInv'
<1>1. CASE Lock(r)
  <2>1. UNCHANGED <<documents, stage, job, history>> /\ begun' \in Nat
    BY <1>1 DEF Lock, DInv, HistoryOK
  <2> QED BY <2>1, QuietKeeps
<1>2. CASE Abort(r)
  BY <1>2, AbortKeepsDocuments
<1>3. CASE CreateStep(r)
  BY <1>3, BeginKeepsDocuments, CommitCreateKeepsDocuments DEF CreateStep
<1>4. CASE CancelStep(r)
  BY <1>4, BeginKeepsDocuments, CountReturnsKeepsDocuments, CommitCancelKeepsDocuments
  DEF CancelStep
<1>5. CASE ReturnStep(r)
  BY <1>5, BeginKeepsDocuments, ReadReturnedKeepsDocuments, CommitReturnKeepsDocuments
  DEF ReturnStep
<1>6. CASE CollectStep(r)
  BY <1>6, BeginCollectKeepsDocuments, BeginCollectByHandKeepsDocuments,
     CommitCollectKeepsDocuments DEF CollectStep
<1>7. CASE ReverseStep(r)
  BY <1>7, BeginKeepsDocuments, CommitReversalKeepsDocuments DEF ReverseStep
<1>8. CASE AdjustStep(r)
  BY <1>8, BeginKeepsDocuments, CommitAdjustKeepsDocuments DEF AdjustStep
<1> QED BY <1>1, <1>2, <1>3, <1>4, <1>5, <1>6, <1>7, <1>8 DEF RequestStep

LEMMA StutterKeepsDocuments ==
  ASSUME DInv, UNCHANGED vars
  PROVE  DInv'
<1>1. UNCHANGED <<documents, stage, job, history>> /\ begun' \in Nat
  BY DEF vars, requests, DInv, HistoryOK
<1> QED BY <1>1, QuietKeeps

\* What the invariants say of the shape of the state.
LEMMA DocumentsType == BInv /\ DInv => TypeOK
<1> SUFFICES ASSUME BInv, DInv PROVE TypeOK
  OBVIOUS
<1>1. ASSUME NEW r \in Requests
      PROVE  job[r] \in [op : Ops \cup {"none"}, id : Payments \cup {0}, cash : Nat,
                         posts : [Accounts -> Int], alloc : [Sales -> Nat]]
  <2>1. CASE Running(r)
    <3>1. JobOK(job[r]) /\ JobShape(job[r])
      BY <2>1 DEF BInv, RequestsOK, DInv, JobsKnown, Running
    <3>2. /\ job[r] = Job(job[r].op, job[r].id, job[r].posts, job[r].cash, job[r].alloc)
          /\ job[r].op \in Ops /\ job[r].id \in Payments \cup {0} /\ job[r].cash \in Nat
          /\ job[r].posts \in [Accounts -> Int] /\ job[r].alloc \in [Sales -> Nat]
      BY <3>1 DEF JobOK, JobShape
    <3> QED BY <3>2 DEF Job
  <2>2. CASE ~Running(r)
    <3>1. job[r] = NoJob
      BY <2>2 DEF DInv, JobsKnown
    <3>2. NoPosts \in [Accounts -> Int]
      BY PostsType DEF NoPosts, Nothing
    <3> QED BY <3>1, <3>2, NothingBack DEF NoJob, Job
  <2> QED BY <2>1, <2>2
<1>2. RequestsTypeOK
  BY <1>1 DEF RequestsTypeOK, BInv, RequestsOK, DInv, HistoryOK
<1> QED BY <1>2 DEF TypeOK, BInv, RequestsOK, DInv

\* The goods that came back of a bill are worth no more than the bill.
LEMMA CashIsPaid == DInv => CashWithinPaid
<1> SUFFICES ASSUME DInv, NEW s \in Plain
             PROVE  refunds[s].cash <= Most(0, Paid[s] + TakenOff(s))
  BY DEF CashWithinPaid
<1>1. s \in Sales /\ s \in InTurn /\ DocumentsTypeOK
  BY DEF Plain, InTurn, DInv
<1>2. returned[s] \in [Products -> Nat] /\ Sold[s] \in [Products -> Nat]
      /\ Paid[s] \in Nat /\ Credit[s] \in Nat /\ refunds[s].cash \in Nat
  BY <1>1, BooksAssumption DEF DocumentsTypeOK
<1>3. ASSUME NEW p \in Products PROVE returned[s][p] <= Sold[s][p]
  <2>1. TakenBack(s, p) \in Nat /\ returned[s][p] + TakenBack(s, p) <= Sold[s][p]
    BY <1>2 DEF TakenBack, DInv, GoodsComeBackOnce
  <2> QED BY <1>2, <2>1
<1>4. SumFunction(returned[s]) <= SumFunction(Sold[s])
  BY <1>2, <1>3, ProductsFinite, SumMono DEF SumFunction
<1>5. Paid[s] + TakenOff(s) = SumFunction(Sold[s]) - Credit[s]
  <2>1. SumFunction(Sold[s]) \in Nat
    BY <1>2, ProductsFinite, SumOfNaturals
  <2> QED BY <1>2, <2>1 DEF TakenOff, Worth
<1>6. SumFunction(returned[s]) \in Nat /\ SumFunction(Sold[s]) \in Nat
  BY <1>2, ProductsFinite, SumOfNaturals
<1>7. refunds[s].cash <= Most(0, SumFunction(returned[s]) - Credit[s])
  BY <1>1 DEF DInv, CashBehindCredit
<1> QED BY <1>2, <1>4, <1>5, <1>6, <1>7 DEF Most

-----------------------------------------------------------------------------
(* Sums of the entries.                                                    *)

\* The balances are the sums of their entries, and what the documents add up to.
Agreement ==
  /\ \A a \in Accounts : balance[a] = Total(a)
  /\ raced = {} => DocumentsAgree

LEMMA CountIsFinite ==
  ASSUME NEW n \in Nat
  PROVE  IsFiniteSet(1..n)
<1>1. n \in Int /\ 1 \in Int
  OBVIOUS
<1> QED BY <1>1, FS_Interval

\* One entry more on an account.
LEMMA EntryAdds ==
  ASSUME NEW a \in Accounts, log[a] \in Seq(Entry), NEW e \in Entry, log'[a] = Append(log[a], e)
  PROVE  /\ Total(a) \in Int /\ Total(a)' = Total(a) + e.amount
         /\ Adjusted(a) \in Int
         /\ Adjusted(a)' = Adjusted(a) + IF e.op = "adjust" THEN e.amount ELSE 0
<1> DEFINE n == Len(log[a])
           f == [i \in DOMAIN log[a] |-> log[a][i].amount]
           g == [i \in DOMAIN log'[a] |-> log'[a][i].amount]
           K == {i \in DOMAIN log[a] : log[a][i].op = "adjust"}
           M == {i \in DOMAIN log'[a] : log'[a][i].op = "adjust"}
           h == [i \in K |-> log[a][i].amount]
           k == [i \in M |-> log'[a][i].amount]
<1>1. n \in Nat /\ DOMAIN log[a] = 1..n /\ DOMAIN log'[a] = 1..(n + 1)
  OBVIOUS
<1>2. 1..(n + 1) = (1..n) \cup {n + 1} /\ n + 1 \notin 1..n /\ IsFiniteSet(1..n)
  <2> HIDE DEF n
  <2>1. 1..(n + 1) = (1..n) \cup {n + 1} /\ n + 1 \notin 1..n
    BY <1>1
  <2>2. IsFiniteSet(1..n)
    BY <1>1, CountIsFinite
  <2> QED BY <2>1, <2>2
<1>3. log'[a][n + 1] = e /\ \A i \in 1..n : log'[a][i] = log[a][i] /\ log[a][i] \in Entry
  BY <1>1
<1>4. e.amount \in Int /\ \A i \in 1..n : log[a][i].amount \in Int
  BY <1>3 DEF Entry
<1>5. Total(a) = SumFunctionOnSet(f, 1..n) /\ Total(a)' = SumFunctionOnSet(g, (1..n) \cup {n + 1})
  BY <1>1, <1>2 DEF Total, SumFunction
<1>6. g[n + 1] = e.amount /\ \A i \in 1..n : f[i] \in Int /\ g[i] = f[i]
  BY <1>1, <1>2, <1>3, <1>4
<1>7. Adjusted(a) = SumFunctionOnSet(h, K) /\ Adjusted(a)' = SumFunctionOnSet(k, M)
  BY DEF Adjusted, SumFunction
<1>8. K \subseteq 1..n /\ M = IF e.op = "adjust" THEN K \cup {n + 1} ELSE K
  BY <1>1, <1>2, <1>3
<1>9. \A i \in K : h[i] \in Int /\ k[i] = h[i]
  BY <1>1, <1>3, <1>4, <1>8
<1>10. e.op = "adjust" => k[n + 1] = e.amount
  BY <1>3, <1>8
<1>11. IsFiniteSet(K)
  BY <1>2, <1>8, FS_Subset
<1> HIDE DEF f, g, h, k, K, M, n
<1>12. SumFunctionOnSet(g, (1..n) \cup {n + 1}) = g[n + 1] + SumFunctionOnSet(g, 1..n)
  BY <1>2, <1>4, <1>6, SumAdd
<1>13. SumFunctionOnSet(g, 1..n) = SumFunctionOnSet(f, 1..n)
  BY <1>2, <1>6, SumSame
<1>14. SumFunctionOnSet(f, 1..n) \in Int
  BY <1>2, <1>6, SumInt
<1>15. Total(a) \in Int /\ Total(a)' = Total(a) + e.amount
  BY <1>4, <1>5, <1>6, <1>12, <1>13, <1>14
<1>16. SumFunctionOnSet(k, K) = SumFunctionOnSet(h, K) /\ SumFunctionOnSet(h, K) \in Int
  BY <1>9, <1>11, SumSame, SumInt
<1>17. CASE e.op = "adjust"
  <2>1. n + 1 \notin K /\ \A i \in K \cup {n + 1} : k[i] \in Int
    BY <1>2, <1>4, <1>8, <1>9, <1>10, <1>17
  <2>2. SumFunctionOnSet(k, K \cup {n + 1}) = k[n + 1] + SumFunctionOnSet(k, K)
    BY <1>11, <2>1, SumAdd
  <2> QED BY <1>4, <1>7, <1>8, <1>10, <1>15, <1>16, <1>17, <2>2
<1>18. CASE e.op # "adjust"
  BY <1>7, <1>8, <1>15, <1>16, <1>18
<1> QED BY <1>17, <1>18

\* An account no entry is added to.
LEMMA SameLog ==
  ASSUME NEW a \in Accounts, log'[a] = log[a]
  PROVE  Total(a)' = Total(a) /\ Adjusted(a)' = Adjusted(a)
BY DEF Total, Adjusted

LEMMA LogSumsType ==
  ASSUME BInv, NEW a \in Accounts
  PROVE  Total(a) \in Int /\ Adjusted(a) \in Int
<1> DEFINE f == [i \in DOMAIN log[a] |-> log[a][i].amount]
           K == {i \in DOMAIN log[a] : log[a][i].op = "adjust"}
           h == [i \in K |-> log[a][i].amount]
<1>1. log[a] \in Seq(Entry)
  BY DEF BInv, AccountsTypeOK
<1>2. DOMAIN log[a] = 1..Len(log[a]) /\ Len(log[a]) \in Nat
  BY <1>1
<1>3. IsFiniteSet(DOMAIN log[a]) /\ IsFiniteSet(K)
  <2>1. IsFiniteSet(DOMAIN log[a])
    BY <1>2, FS_Interval
  <2> QED BY <2>1, FS_Subset
<1>4. \A i \in DOMAIN log[a] : log[a][i].amount \in Int
  <2>1. \A i \in 1..Len(log[a]) : log[a][i] \in Entry
    BY <1>1
  <2> QED BY <1>2, <2>1 DEF Entry
<1>5. Total(a) = SumFunctionOnSet(f, DOMAIN log[a]) /\ Adjusted(a) = SumFunctionOnSet(h, K)
  BY DEF Total, Adjusted, SumFunction
<1>6. (\A i \in DOMAIN log[a] : f[i] \in Int) /\ (\A i \in K : h[i] \in Int)
  BY <1>4
<1> HIDE DEF f, h, K
<1> QED BY <1>3, <1>5, <1>6, SumInt

\* A commit moves every account by what its job posts, entries and balance alike.
LEMMA CommitPosts ==
  ASSUME BInv, NEW r \in Requests, NEW op, Commits(r, op), NEW a \in Accounts
  PROVE  /\ job[r].posts[a] \in Int /\ balance[a] \in Int
         /\ balance'[a] = balance[a] + job[r].posts[a]
         /\ Total(a)' = Total(a) + job[r].posts[a]
         /\ Adjusted(a)' = Adjusted(a) + IF op = "adjust" THEN job[r].posts[a] ELSE 0
<1>1. stage[r] = "locking" /\ todo[r] = {} /\ Post(r) /\ job[r].op = op
  BY DEF Commits
<1>2. JobOK(job[r])
  BY <1>1 DEF BInv, RequestsOK
<1>3. job[r].posts[a] \in Int /\ balance[a] \in Int /\ log[a] \in Seq(Entry)
  BY <1>2 DEF JobOK, BInv, AccountsTypeOK
<1>4. CASE a \in Moved(r)
  <2> DEFINE e == Posting(r, a)
  <2>1. e \in Entry /\ e.after = balance[a] + e.amount
    BY <1>1, <1>4, HoldsMoved
  <2>2. balance'[a] = e.after /\ log'[a] = Append(log[a], e)
    BY <1>1, <1>4 DEF Post
  <2>3. e.amount = job[r].posts[a] /\ e.op = op
    BY <1>1 DEF Posting
  <2> HIDE DEF e
  <2>4. /\ Total(a)' = Total(a) + e.amount
        /\ Adjusted(a)' = Adjusted(a) + IF e.op = "adjust" THEN e.amount ELSE 0
    BY <1>3, <2>1, <2>2, EntryAdds
  <2> QED BY <1>3, <2>1, <2>2, <2>3, <2>4
<1>5. CASE a \notin Moved(r)
  <2>1. job[r].posts[a] = 0 /\ balance'[a] = balance[a] /\ log'[a] = log[a]
    BY <1>1, <1>5 DEF Moved, Post
  <2> QED BY <1>3, <2>1, SameLog, LogSumsType
<1> QED BY <1>4, <1>5

-----------------------------------------------------------------------------
(* Sums of the documents.                                                  *)

\* What one bill puts on the khata, and on the stock card of a product.
KhataTerm(s) == Issued(s) * Credit[s] + Bounced(s) * Paid[s] - refunds[s].credit
StockTerm(s, p) == returned[s][p] - Issued(s) * Sold[s][p]

KhataOfBills == SumFunction([s \in Sales |-> KhataTerm(s)])
StockOfBills(p) == SumFunction([s \in Sales |-> StockTerm(s, p)])
Collected == SumFunction([c \in {d \in Collections : Live(d)} |-> Amount[c]])

LEMMA AgreesOf ==
  DocumentsAgree <=>
    /\ balance[Khata] = Adjusted(Khata) + KhataOfBills - Collected
    /\ \A p \in Products : balance[Product(p)] = Adjusted(Product(p)) + StockOfBills(p)
BY DEF DocumentsAgree, KhataOfBills, Collected, StockOfBills, KhataTerm, StockTerm

LEMMA Times ==
  ASSUME NEW m \in Int, NEW n \in Int
  PROVE  /\ m * n \in Int /\ (m + 1) * n = m * n + n
         /\ 0 * n = 0 /\ 1 * n = n
OBVIOUS

LEMMA TermsType ==
  ASSUME DocumentsTypeOK, NEW s \in Sales
  PROVE  /\ KhataTerm(s) \in Int
         /\ Bounced(s) \in Int /\ Paid[s] \in Int /\ Credit[s] \in Int
         /\ refunds[s].credit \in Int
         /\ \A p \in Products : StockTerm(s, p) \in Int /\ Sold[s][p] \in Int /\ returned[s][p] \in Int
<1>1. outs[s] \in Nat /\ refunds[s].credit \in Nat /\ Paid[s] \in Nat /\ Credit[s] \in Nat
  BY BooksAssumption DEF DocumentsTypeOK, Payments
<1>2. Bounced(s) \in Int /\ Issued(s) \in Int
  BY <1>1 DEF Bounced, Issued
<1>3. Issued(s) * Credit[s] \in Int /\ Bounced(s) * Paid[s] \in Int
  BY <1>1, <1>2, Times
<1>4. \A p \in Products : returned[s][p] \in Nat /\ Sold[s][p] \in Nat
  BY BooksAssumption DEF DocumentsTypeOK
<1>5. \A p \in Products : Issued(s) * Sold[s][p] \in Int
  BY <1>2, <1>4, Times
<1> QED BY <1>1, <1>2, <1>3, <1>4, <1>5 DEF KhataTerm, StockTerm

LEMMA BillSumsType ==
  ASSUME DocumentsTypeOK
  PROVE  /\ KhataOfBills \in Int /\ Collected \in Int
         /\ \A p \in Products : StockOfBills(p) \in Int
<1>1. KhataOfBills \in Int
  <2> DEFINE f == [s \in Sales |-> KhataTerm(s)]
  <2>1. DOMAIN f = Sales /\ \A s \in Sales : f[s] \in Int
    BY TermsType
  <2> HIDE DEF f
  <2>2. SumFunction(f) \in Int
    BY <2>1, BooksAssumption, SumInt DEF SumFunction
  <2> QED BY <2>2 DEF KhataOfBills, f
<1>2. ASSUME NEW p \in Products PROVE StockOfBills(p) \in Int
  <2> DEFINE f == [s \in Sales |-> StockTerm(s, p)]
  <2>1. DOMAIN f = Sales /\ \A s \in Sales : f[s] \in Int
    BY TermsType
  <2> HIDE DEF f
  <2>2. SumFunction(f) \in Int
    BY <2>1, BooksAssumption, SumInt DEF SumFunction
  <2> QED BY <2>2 DEF StockOfBills, f
<1>3. Collected \in Int
  <2> DEFINE L == {d \in Collections : Live(d)}
             f == [c \in L |-> Amount[c]]
  <2>1. f \in [L -> Nat] /\ IsFiniteSet(L)
    BY LiveFinite, BooksAssumption
  <2> HIDE DEF f, L
  <2>2. SumFunction(f) \in Nat
    BY <2>1, SumOfNaturals
  <2> QED BY <2>2 DEF Collected, f, L
<1> QED BY <1>1, <1>2, <1>3

LEMMA SalesChange ==
  ASSUME NEW f, NEW g, DOMAIN f = Sales, DOMAIN g = Sales, NEW s \in Sales,
         \A t \in Sales : f[t] \in Int /\ g[t] \in Int, \A t \in Sales \ {s} : g[t] = f[t]
  PROVE  SumFunction(g) = SumFunction(f) - f[s] + g[s]
<1>1. IsFiniteSet(Sales)
  BY BooksAssumption
<1>2. SumFunctionOnSet(g, Sales) = SumFunctionOnSet(f, Sales) - f[s] + g[s]
  BY <1>1, SumChange
<1> QED BY <1>2 DEF SumFunction

\* A step that touches one bill moves the sums by what its terms move.
LEMMA OneBillMoves ==
  ASSUME DocumentsTypeOK, NEW s \in Sales, KhataTerm(s)' \in Int,
         \A p \in Products : StockTerm(s, p)' \in Int,
         \A t \in Sales \ {s} : /\ KhataTerm(t)' = KhataTerm(t)
                                /\ \A p \in Products : StockTerm(t, p)' = StockTerm(t, p)
  PROVE  /\ KhataOfBills' = KhataOfBills - KhataTerm(s) + KhataTerm(s)'
         /\ \A p \in Products :
              StockOfBills(p)' = StockOfBills(p) - StockTerm(s, p) + StockTerm(s, p)'
<1>1. KhataOfBills' = KhataOfBills - KhataTerm(s) + KhataTerm(s)'
  <2> DEFINE f == [t \in Sales |-> KhataTerm(t)]
             g == [t \in Sales |-> KhataTerm(t)']
  <2>1. DOMAIN f = Sales /\ DOMAIN g = Sales /\ \A t \in Sales : f[t] \in Int
    BY TermsType
  <2>2. \A t \in Sales : KhataTerm(t)' \in Int
    BY TermsType, Zenon
  <2>3. /\ \A t \in Sales : f[t] \in Int /\ g[t] \in Int
        /\ \A t \in Sales \ {s} : g[t] = f[t]
    BY <2>1, <2>2
  <2>4. f[s] = KhataTerm(s) /\ g[s] = KhataTerm(s)'
    OBVIOUS
  <2>5. KhataOfBills = SumFunction(f) /\ KhataOfBills' = SumFunction(g)
    BY DEF KhataOfBills
  <2> HIDE DEF f, g
  <2>6. SumFunction(g) = SumFunction(f) - f[s] + g[s]
    BY <2>1, <2>3, SalesChange
  <2> QED BY <2>4, <2>5, <2>6
<1>2. ASSUME NEW p \in Products
      PROVE  StockOfBills(p)' = StockOfBills(p) - StockTerm(s, p) + StockTerm(s, p)'
  <2> DEFINE f == [t \in Sales |-> StockTerm(t, p)]
             g == [t \in Sales |-> StockTerm(t, p)']
  <2>1. DOMAIN f = Sales /\ DOMAIN g = Sales /\ \A t \in Sales : f[t] \in Int
    BY TermsType
  <2>2. \A t \in Sales : StockTerm(t, p)' \in Int
    BY TermsType, Zenon
  <2>3. /\ \A t \in Sales : f[t] \in Int /\ g[t] \in Int
        /\ \A t \in Sales \ {s} : g[t] = f[t]
    BY <2>1, <2>2
  <2>4. f[s] = StockTerm(s, p) /\ g[s] = StockTerm(s, p)'
    OBVIOUS
  <2>5. StockOfBills(p) = SumFunction(f) /\ StockOfBills(p)' = SumFunction(g)
    BY DEF StockOfBills
  <2> HIDE DEF f, g
  <2>6. SumFunction(g) = SumFunction(f) - f[s] + g[s]
    BY <2>1, <2>3, SalesChange
  <2> QED BY <2>4, <2>5, <2>6
<1> QED BY <1>1, <1>2

\* A payment that leaves the bills alone.
LEMMA NoBillMoves ==
  ASSUME \A t \in Sales : /\ KhataTerm(t)' = KhataTerm(t)
                          /\ \A p \in Products : StockTerm(t, p)' = StockTerm(t, p)
  PROVE  /\ KhataOfBills' = KhataOfBills
         /\ \A p \in Products : StockOfBills(p)' = StockOfBills(p)
BY DEF KhataOfBills, StockOfBills

\* What was collected, with a collection more or less.
LEMMA CollectedMoves ==
  ASSUME DocumentsTypeOK, NEW c \in Collections,
         \A d \in Collections \ {c} : payment'[d] = payment[d]
  PROVE  /\ payment[c] # "live" /\ payment'[c] = "live" => Collected' = Collected + Amount[c]
         /\ payment[c] = "live" /\ payment'[c] # "live" => Collected' = Collected - Amount[c]
<1> DEFINE L == {d \in Collections : Live(d)}
           M == {d \in Collections : payment'[d] = "live"}
           f == [d \in L |-> Amount[d]]
           g == [d \in M |-> Amount[d]]
<1>1. Collected = SumFunction(f) /\ Collected' = SumFunction(g)
  BY DEF Collected, Live
<1>2. IsFiniteSet(L) /\ IsFiniteSet(M)
  BY FS_Subset, BooksAssumption
<1>3. DOMAIN f = L /\ DOMAIN g = M /\ (\A d \in L : f[d] = Amount[d]) /\ (\A d \in M : g[d] = Amount[d])
  OBVIOUS
<1>4. \A d \in Collections : Amount[d] \in Int
  BY BooksAssumption
<1>5. L \subseteq Collections /\ M \subseteq Collections
  OBVIOUS
<1>6. payment[c] # "live" /\ payment'[c] = "live" => c \notin L /\ M = L \cup {c}
  BY DEF Live
<1>7. payment[c] = "live" /\ payment'[c] # "live" => c \notin M /\ L = M \cup {c}
  BY DEF Live
<1> HIDE DEF f, g, L, M
<1>8. SumFunctionOnSet(f, L) \in Int /\ SumFunctionOnSet(g, M) \in Int
  BY <1>2, <1>3, <1>4, <1>5, SumInt
<1>8a. SumFunction(f) = SumFunctionOnSet(f, L) /\ SumFunction(g) = SumFunctionOnSet(g, M)
  BY <1>3 DEF SumFunction
<1>9. CASE payment[c] # "live" /\ payment'[c] = "live"
  <2>1. SumFunctionOnSet(g, L \cup {c}) = g[c] + SumFunctionOnSet(g, L)
    BY <1>2, <1>3, <1>4, <1>5, <1>6, <1>9, SumAdd
  <2>2. \A d \in L : f[d] \in Int /\ g[d] = f[d]
    BY <1>3, <1>4, <1>5, <1>6, <1>9
  <2>3. SumFunctionOnSet(g, L) = SumFunctionOnSet(f, L)
    BY <1>2, <2>2, SumSame
  <2>4. g[c] = Amount[c] /\ Amount[c] \in Int
    BY <1>3, <1>4, <1>6, <1>9
  <2>5. SumFunction(g) = SumFunction(f) + Amount[c]
    <3>1. SumFunctionOnSet(g, M) = g[c] + SumFunctionOnSet(g, L)
      BY <1>6, <1>9, <2>1
    <3>2. SumFunctionOnSet(g, M) = Amount[c] + SumFunctionOnSet(f, L)
      BY <2>3, <2>4, <3>1
    <3> QED BY <1>8, <1>8a, <2>4, <3>2
  <2> QED BY <1>1, <1>9, <2>5
<1>10. CASE payment[c] = "live" /\ payment'[c] # "live"
  <2>1. SumFunctionOnSet(f, M \cup {c}) = f[c] + SumFunctionOnSet(f, M)
    BY <1>2, <1>3, <1>4, <1>5, <1>7, <1>10, SumAdd
  <2>2. \A d \in M : g[d] \in Int /\ f[d] = g[d]
    BY <1>3, <1>4, <1>5, <1>7, <1>10
  <2>3. SumFunctionOnSet(f, M) = SumFunctionOnSet(g, M)
    BY <1>2, <2>2, SumSame
  <2>4. f[c] = Amount[c] /\ Amount[c] \in Int
    BY <1>3, <1>4, <1>7, <1>10
  <2>5. SumFunction(g) = SumFunction(f) - Amount[c]
    <3>1. SumFunctionOnSet(f, L) = f[c] + SumFunctionOnSet(f, M)
      BY <1>7, <1>10, <2>1
    <3>2. SumFunctionOnSet(f, L) = Amount[c] + SumFunctionOnSet(g, M)
      BY <2>3, <2>4, <3>1
    <3> QED BY <1>8, <1>8a, <2>4, <3>2
  <2> QED BY <1>1, <1>10, <2>5
<1> QED BY <1>9, <1>10

LEMMA CollectedStays ==
  ASSUME \A d \in Collections : payment'[d] = payment[d]
  PROVE  Collected' = Collected
<1>1. {d \in Collections : Live(d)}' = {d \in Collections : Live(d)}
  BY DEF Live
<1> QED BY <1>1 DEF Collected

-----------------------------------------------------------------------------
(* A commit moves the balances as it moves the documents.                  *)

LEMMA DocumentsMove ==
  ASSUME BInv, DInv, DocumentsAgree, NEW r \in Requests, NEW op, Commits(r, op),
         NEW x \in Int, NEW y \in Int, KhataOfBills' = KhataOfBills + x, Collected' = Collected + y,
         x - y = (IF op = "adjust" THEN 0 ELSE job[r].posts[Khata]),
         \A p \in Products : StockOfBills(p)' = StockOfBills(p) +
           IF op = "adjust" THEN 0 ELSE job[r].posts[Product(p)]
  PROVE  DocumentsAgree'
<1>1. /\ KhataOfBills \in Int /\ Collected \in Int
      /\ \A p \in Products : StockOfBills(p) \in Int
  BY BillSumsType DEF DInv
<1>2. /\ balance[Khata] = Adjusted(Khata) + KhataOfBills - Collected
      /\ \A p \in Products : balance[Product(p)] = Adjusted(Product(p)) + StockOfBills(p)
  BY AgreesOf
<1>3. balance'[Khata] = Adjusted(Khata)' + KhataOfBills' - Collected'
  <2>1. /\ job[r].posts[Khata] \in Int /\ balance[Khata] \in Int /\ Adjusted(Khata) \in Int
        /\ balance'[Khata] = balance[Khata] + job[r].posts[Khata]
        /\ Adjusted(Khata)' = Adjusted(Khata) + IF op = "adjust" THEN job[r].posts[Khata] ELSE 0
    BY CommitPosts, LogSumsType, RowFacts
  <2> QED BY <1>1, <1>2, <2>1
<1>4. ASSUME NEW p \in Products
      PROVE  balance'[Product(p)] = Adjusted(Product(p))' + StockOfBills(p)'
  <2> DEFINE a == Product(p)
  <2>1. a \in Accounts
    BY RowFacts
  <2>2. /\ job[r].posts[a] \in Int /\ balance[a] \in Int /\ Adjusted(a) \in Int
        /\ balance'[a] = balance[a] + job[r].posts[a]
        /\ Adjusted(a)' = Adjusted(a) + IF op = "adjust" THEN job[r].posts[a] ELSE 0
    <3> HIDE DEF a
    <3> QED BY <2>1, CommitPosts, LogSumsType
  <2>3. /\ balance[a] = Adjusted(a) + StockOfBills(p) /\ StockOfBills(p) \in Int
        /\ StockOfBills(p)' = StockOfBills(p) + IF op = "adjust" THEN 0 ELSE job[r].posts[a]
    BY <1>1, <1>2
  <2> QED BY <2>2, <2>3
<1> QED BY <1>3, <1>4
    DEF DocumentsAgree, KhataOfBills, Collected, StockOfBills, KhataTerm, StockTerm

\* A commit that touches the bill s and no collection.
LEMMA BillMoves ==
  ASSUME BInv, DInv, DocumentsAgree, NEW r \in Requests, NEW op, op # "adjust", Commits(r, op),
         NEW s \in Sales, \A d \in Collections : payment'[d] = payment[d],
         \A t \in Sales \ {s} : /\ KhataTerm(t)' = KhataTerm(t)
                                /\ \A p \in Products : StockTerm(t, p)' = StockTerm(t, p),
         KhataTerm(s)' = KhataTerm(s) + job[r].posts[Khata],
         \A p \in Products : StockTerm(s, p)' = StockTerm(s, p) + job[r].posts[Product(p)]
  PROVE  DocumentsAgree'
<1>1. DocumentsTypeOK
  BY DEF DInv
<1>2. /\ KhataTerm(s) \in Int /\ KhataOfBills \in Int /\ Collected \in Int
      /\ \A p \in Products : StockTerm(s, p) \in Int /\ StockOfBills(p) \in Int
  BY <1>1, TermsType, BillSumsType
<1>3. job[r].posts[Khata] \in Int /\ \A p \in Products : job[r].posts[Product(p)] \in Int
  <2>1. \A a \in Accounts : job[r].posts[a] \in Int
    BY CommitPosts
  <2> QED BY <2>1, RowFacts
<1>4. KhataTerm(s)' \in Int /\ \A p \in Products : StockTerm(s, p)' \in Int
  BY <1>2, <1>3
<1>5. /\ KhataOfBills' = KhataOfBills - KhataTerm(s) + KhataTerm(s)'
      /\ \A p \in Products :
           StockOfBills(p)' = StockOfBills(p) - StockTerm(s, p) + StockTerm(s, p)'
  BY <1>1, <1>4, OneBillMoves
<1>6. KhataOfBills' = KhataOfBills + job[r].posts[Khata]
  BY <1>2, <1>3, <1>5
<1>7. \A p \in Products : StockOfBills(p)' = StockOfBills(p) + job[r].posts[Product(p)]
  BY <1>2, <1>3, <1>5
<1>8. Collected' = Collected + 0
  BY <1>2, CollectedStays
<1> QED BY <1>3, <1>6, <1>7, <1>8, DocumentsMove

\* Of a request no other has raced with, all it read still stands.
LEMMA NothingRaced ==
  ASSUME BInv, DInv, raced = {}, NEW r \in Requests, NEW op, Commits(r, op)
  PROVE  /\ job[r].op = op /\ JobOK(job[r]) /\ JobShape(job[r])
         /\ \A s \in Scope(job[r]) : s \in Sales /\ Stands(r, s)
BY CommitFacts, ScopeType DEF InTurn

LEMMA CreateAgrees ==
  ASSUME BInv, DInv, raced = {}, DocumentsAgree, NEW r \in Requests, CommitCreate(r)
  PROVE  DocumentsAgree'
<1>1. Commits(r, "create")
  BY DEF CommitCreate
<1>2. job[r].op = "create" /\ JobOK(job[r]) /\ JobShape(job[r])
  BY <1>1, NothingRaced
<1>3. PICK s \in Sales : s = job[r].id
  BY <1>2 DEF JobOK
<1>4. DocumentsTypeOK
  BY DEF DInv
<1>5. /\ status[s] = "none" /\ status' = [status EXCEPT ![s] = "COMPLETED"]
      /\ payment' = [payment EXCEPT ![s] = IF Paid[s] > 0 THEN "live" ELSE @]
      /\ UNCHANGED <<returned, refunds, outs, alloc>>
  BY <1>3 DEF CommitCreate
<1>6. /\ status'[s] = "COMPLETED" /\ \A t \in Sales \ {s} : status'[t] = status[t]
      /\ \A d \in Collections : payment'[d] = payment[d]
  BY <1>4, <1>5, BooksAssumption DEF DocumentsTypeOK
<1>7. \A t \in Sales \ {s} : /\ KhataTerm(t)' = KhataTerm(t)
                             /\ \A p \in Products : StockTerm(t, p)' = StockTerm(t, p)
  BY <1>5, <1>6 DEF KhataTerm, StockTerm, Issued, Bounced
<1>8. Issued(s) = 0 /\ Issued(s)' = 1 /\ Bounced(s)' = Bounced(s)
  BY <1>5, <1>6 DEF Issued, Bounced
<1>9. /\ Bounced(s) \in Int /\ Paid[s] \in Int /\ Credit[s] \in Int /\ refunds[s].credit \in Int
      /\ \A p \in Products : Sold[s][p] \in Int /\ returned[s][p] \in Int
  BY <1>4, TermsType
<1>10. /\ job[r].posts[Khata] = Credit[s]
       /\ \A p \in Products : job[r].posts[Product(p)] = -Sold[s][p]
  BY <1>2, <1>3, PostsAt, JobFields DEF JobShape, Billing, Minus
<1>11. KhataTerm(s)' = KhataTerm(s) + job[r].posts[Khata]
  <2>1. KhataTerm(s) = 0 * Credit[s] + Bounced(s) * Paid[s] - refunds[s].credit
    BY <1>8 DEF KhataTerm
  <2>2. KhataTerm(s)' = 1 * Credit[s] + Bounced(s) * Paid[s] - refunds[s].credit
    BY <1>5, <1>8 DEF KhataTerm
  <2>3. PICK b \in Int : b = Bounced(s) * Paid[s]
    BY <1>9, Times
  <2> QED BY <1>9, <1>10, <2>1, <2>2, <2>3, Times
<1>12. \A p \in Products : StockTerm(s, p)' = StockTerm(s, p) + job[r].posts[Product(p)]
  <2> SUFFICES ASSUME NEW p \in Products
               PROVE  StockTerm(s, p)' = StockTerm(s, p) + job[r].posts[Product(p)]
    OBVIOUS
  <2>1. StockTerm(s, p) = returned[s][p] - 0 * Sold[s][p]
    BY <1>8 DEF StockTerm
  <2>2. StockTerm(s, p)' = returned[s][p] - 1 * Sold[s][p]
    BY <1>5, <1>8 DEF StockTerm
  <2> QED BY <1>9, <1>10, <2>1, <2>2, Times
<1> QED BY <1>1, <1>6, <1>7, <1>11, <1>12, BillMoves

\* A bill that is read as standing is no longer, and its payment given back is no
\* bounced one.
LEMMA CancelAgrees ==
  ASSUME BInv, DInv, raced = {}, DocumentsAgree, NEW r \in Requests, CommitCancel(r)
  PROVE  DocumentsAgree'
<1>1. Commits(r, "cancel")
  BY DEF CommitCancel
<1>2. /\ job[r].op = "cancel" /\ JobOK(job[r]) /\ JobShape(job[r])
      /\ \A s \in Scope(job[r]) : Stands(r, s)
  BY <1>1, NothingRaced
<1>3. PICK s \in Sales : s = job[r].id
  BY <1>2 DEF JobOK
<1>4. DocumentsTypeOK
  BY DEF DInv
<1>5. /\ status' = [status EXCEPT ![s] = "CANCELLED"]
      /\ payment' = [payment EXCEPT ![s] = IF Paid[s] > 0 THEN "reversed" ELSE @]
      /\ outs' = [outs EXCEPT ![s] = IF Paid[s] > 0 THEN @ + 1 ELSE @]
      /\ UNCHANGED <<returned, refunds, alloc>>
  BY <1>3 DEF CommitCancel
<1>6. /\ status'[s] = "CANCELLED" /\ \A t \in Sales \ {s} : status'[t] = status[t]
      /\ \A d \in Collections : payment'[d] = payment[d]
      /\ outs[s] \in Nat /\ outs'[s] = (IF Paid[s] > 0 THEN outs[s] + 1 ELSE outs[s])
      /\ \A t \in Sales \ {s} : outs'[t] = outs[t]
  BY <1>4, <1>5, BooksAssumption DEF DocumentsTypeOK, Payments
<1>7. status[s] = "COMPLETED"
  <2>1. Stands(r, s)
    BY <1>2, <1>3, ScopeType
  <2> QED BY <1>2, <2>1 DEF Stands
<1>8. \A t \in Sales \ {s} : /\ KhataTerm(t)' = KhataTerm(t)
                             /\ \A p \in Products : StockTerm(t, p)' = StockTerm(t, p)
  BY <1>5, <1>6 DEF KhataTerm, StockTerm, Issued, Bounced
<1>9. Issued(s) = 1 /\ Issued(s)' = 0 /\ Bounced(s)' = Bounced(s)
  BY <1>6, <1>7 DEF Issued, Bounced
<1>10. /\ Bounced(s) \in Int /\ Paid[s] \in Int /\ Credit[s] \in Int /\ refunds[s].credit \in Int
       /\ \A p \in Products : Sold[s][p] \in Int /\ returned[s][p] \in Int
  BY <1>4, TermsType
<1>11. /\ job[r].posts[Khata] = -Credit[s]
       /\ \A p \in Products : job[r].posts[Product(p)] = Sold[s][p]
  BY <1>2, <1>3, PostsAt, JobFields DEF JobShape, Undoing
<1>12. KhataTerm(s)' = KhataTerm(s) + job[r].posts[Khata]
  <2>1. KhataTerm(s) = 1 * Credit[s] + Bounced(s) * Paid[s] - refunds[s].credit
    BY <1>9 DEF KhataTerm
  <2>2. KhataTerm(s)' = 0 * Credit[s] + Bounced(s) * Paid[s] - refunds[s].credit
    BY <1>5, <1>9 DEF KhataTerm
  <2>3. PICK b \in Int : b = Bounced(s) * Paid[s]
    BY <1>10, Times
  <2> QED BY <1>10, <1>11, <2>1, <2>2, <2>3, Times
<1>13. \A p \in Products : StockTerm(s, p)' = StockTerm(s, p) + job[r].posts[Product(p)]
  <2> SUFFICES ASSUME NEW p \in Products
               PROVE  StockTerm(s, p)' = StockTerm(s, p) + job[r].posts[Product(p)]
    OBVIOUS
  <2>1. StockTerm(s, p) = returned[s][p] - 1 * Sold[s][p]
    BY <1>9 DEF StockTerm
  <2>2. StockTerm(s, p)' = returned[s][p] - 0 * Sold[s][p]
    BY <1>5, <1>9 DEF StockTerm
  <2> QED BY <1>10, <1>11, <2>1, <2>2, Times
<1> QED BY <1>1, <1>6, <1>8, <1>12, <1>13, BillMoves

LEMMA ReturnAgrees ==
  ASSUME BInv, DInv, raced = {}, DocumentsAgree, NEW r \in Requests, CommitReturn(r)
  PROVE  DocumentsAgree'
<1>1. Commits(r, "return")
  BY DEF CommitReturn
<1>2. job[r].op = "return" /\ JobOK(job[r])
  BY <1>1, NothingRaced
<1>3. PICK s \in Sales : s = job[r].id
  BY <1>2 DEF JobOK
<1>4. DocumentsTypeOK
  BY DEF DInv
<1>5. /\ returned' = [returned EXCEPT ![s] = [p \in Products |-> @[p] + job[r].posts[Product(p)]]]
      /\ refunds' = [refunds EXCEPT ![s].cash = @ + job[r].cash,
                                    ![s].credit = @ - job[r].posts[Khata]]
      /\ UNCHANGED <<status, payment, outs, alloc>>
  BY <1>3 DEF CommitReturn
<1>6. /\ \A p \in Products : returned'[s][p] = returned[s][p] + job[r].posts[Product(p)]
      /\ \A t \in Sales \ {s} : returned'[t] = returned[t] /\ refunds'[t] = refunds[t]
      /\ refunds'[s].credit = refunds[s].credit - job[r].posts[Khata]
  BY <1>4, <1>5 DEF DocumentsTypeOK
<1>7. \A t \in Sales : Issued(t)' = Issued(t) /\ Bounced(t)' = Bounced(t)
  BY <1>5 DEF Issued, Bounced
<1>8. \A t \in Sales \ {s} : /\ KhataTerm(t)' = KhataTerm(t)
                             /\ \A p \in Products : StockTerm(t, p)' = StockTerm(t, p)
  BY <1>6, <1>7 DEF KhataTerm, StockTerm
<1>9. /\ Bounced(s) \in Int /\ Paid[s] \in Int /\ Credit[s] \in Int /\ refunds[s].credit \in Int
      /\ Issued(s) \in Int
      /\ \A p \in Products : Sold[s][p] \in Int /\ returned[s][p] \in Int
  BY <1>4, TermsType DEF Issued
<1>10. job[r].posts[Khata] \in Int /\ \A p \in Products : job[r].posts[Product(p)] \in Int
  BY <1>2, RowFacts DEF JobOK
<1>11. KhataTerm(s)' = KhataTerm(s) + job[r].posts[Khata]
  <2>1. PICK b \in Int, i \in Int : b = Bounced(s) * Paid[s] /\ i = Issued(s) * Credit[s]
    BY <1>9, Times
  <2>2. KhataTerm(s) = i + b - refunds[s].credit
    BY <2>1 DEF KhataTerm
  <2>3. KhataTerm(s)' = i + b - (refunds[s].credit - job[r].posts[Khata])
    BY <1>6, <1>7, <2>1 DEF KhataTerm
  <2> QED BY <1>9, <1>10, <2>2, <2>3
<1>12. \A p \in Products : StockTerm(s, p)' = StockTerm(s, p) + job[r].posts[Product(p)]
  <2> SUFFICES ASSUME NEW p \in Products
               PROVE  StockTerm(s, p)' = StockTerm(s, p) + job[r].posts[Product(p)]
    OBVIOUS
  <2>1. PICK i \in Int : i = Issued(s) * Sold[s][p]
    BY <1>9, Times
  <2>2. StockTerm(s, p) = returned[s][p] - i
    BY <2>1 DEF StockTerm
  <2>3. StockTerm(s, p)' = returned'[s][p] - i
    BY <1>7, <2>1 DEF StockTerm
  <2> QED BY <1>6, <1>9, <1>10, <2>2, <2>3
<1> QED BY <1>1, <1>5, <1>8, <1>11, <1>12, BillMoves

LEMMA CollectAgrees ==
  ASSUME BInv, DInv, raced = {}, DocumentsAgree, NEW r \in Requests, CommitCollect(r)
  PROVE  DocumentsAgree'
<1>1. Commits(r, "collect")
  BY DEF CommitCollect
<1>2. job[r].op = "collect" /\ JobShape(job[r])
  BY <1>1, NothingRaced
<1>3. PICK c \in Collections : c = job[r].id
  BY <1>2 DEF JobShape
<1>4. DocumentsTypeOK
  BY DEF DInv
<1>5. /\ payment[c] = "none" /\ payment' = [payment EXCEPT ![c] = "live"]
      /\ UNCHANGED <<status, returned, refunds, outs>>
  BY <1>3 DEF CommitCollect
<1>6. payment'[c] = "live" /\ \A d \in Collections \ {c} : payment'[d] = payment[d]
  BY <1>4, <1>5 DEF DocumentsTypeOK, Payments
<1>7. Collected' = Collected + Amount[c]
  BY <1>4, <1>5, <1>6, CollectedMoves
<1>8. /\ KhataOfBills' = KhataOfBills
      /\ \A p \in Products : StockOfBills(p)' = StockOfBills(p)
  BY <1>5 DEF KhataOfBills, StockOfBills, KhataTerm, StockTerm, Issued, Bounced
<1>9. /\ job[r].posts[Khata] = -Amount[c] /\ Amount[c] \in Int
      /\ \A p \in Products : job[r].posts[Product(p)] = 0
  BY <1>2, <1>3, PostsAt, BooksAssumption DEF JobShape, Nothing
<1>10. /\ KhataOfBills \in Int /\ \A p \in Products : StockOfBills(p) \in Int
  BY <1>4, BillSumsType
<1>11. KhataOfBills' = KhataOfBills + 0
  BY <1>8, <1>10
<1>12. \A p \in Products : StockOfBills(p)' = StockOfBills(p) + job[r].posts[Product(p)]
  BY <1>8, <1>9, <1>10
<1>13. 0 - Amount[c] = job[r].posts[Khata]
  BY <1>9
<1> QED BY <1>1, <1>7, <1>9, <1>11, <1>12, <1>13, DocumentsMove

LEMMA AdjustAgrees ==
  ASSUME BInv, DInv, raced = {}, DocumentsAgree, NEW r \in Requests, CommitAdjust(r)
  PROVE  DocumentsAgree'
<1>1. Commits(r, "adjust") /\ UNCHANGED <<status, returned, refunds, payment, outs>>
  BY DEF CommitAdjust, documents
<1>2. /\ KhataOfBills' = KhataOfBills /\ Collected' = Collected
      /\ \A p \in Products : StockOfBills(p)' = StockOfBills(p)
  BY <1>1 DEF KhataOfBills, StockOfBills, Collected, Live, KhataTerm, StockTerm, Issued, Bounced
<1>3. /\ KhataOfBills \in Int /\ Collected \in Int
      /\ \A p \in Products : StockOfBills(p) \in Int
  BY BillSumsType DEF DInv
<1>4. /\ KhataOfBills' = KhataOfBills + 0 /\ Collected' = Collected + 0
      /\ \A p \in Products : StockOfBills(p)' = StockOfBills(p) + 0
  BY <1>2, <1>3
<1> QED BY <1>1, <1>4, DocumentsMove

\* A counter payment that bounces goes on the khata, a reversed collection goes
\* back on it; that it was live is what the request read.
LEMMA ReversalAgrees ==
  ASSUME BInv, DInv, raced = {}, DocumentsAgree, NEW r \in Requests, CommitReversal(r)
  PROVE  DocumentsAgree'
<1>1. Commits(r, "reverse")
  BY DEF CommitReversal
<1>2. /\ job[r].op = "reverse" /\ JobOK(job[r]) /\ JobShape(job[r])
      /\ \A s \in Scope(job[r]) : Stands(r, s)
  BY <1>1, NothingRaced
<1>3. PICK p \in Sales \cup Collections : p = job[r].id
  BY <1>2 DEF JobOK, Payments
<1>4. DocumentsTypeOK
  BY DEF DInv
<1>5. /\ payment' = [payment EXCEPT ![p] = "reversed"] /\ outs' = [outs EXCEPT ![p] = @ + 1]
      /\ UNCHANGED <<status, returned, refunds, alloc>>
  BY <1>3 DEF CommitReversal
<1>6. /\ payment'[p] = "reversed" /\ \A q \in Payments \ {p} : payment'[q] = payment[q]
      /\ outs[p] \in Nat /\ outs'[p] = outs[p] + 1
      /\ \A q \in Payments \ {p} : outs'[q] = outs[q]
  BY <1>4, <1>5 DEF DocumentsTypeOK, Payments
<1>7. Sales \cap Collections = {} /\ Sales \subseteq Payments /\ Collections \subseteq Payments
  BY BooksAssumption DEF Payments
<1>8. /\ job[r].posts[Khata] = AmountOf(p)
      /\ \A q \in Products : job[r].posts[Product(q)] = 0
  BY <1>2, <1>3, PostsAt, JobFields DEF JobShape, Reversing, Nothing
<1>9. CASE p \in Sales
  <2>1. job[r].posts[Khata] = Paid[p]
    BY <1>8, <1>9 DEF AmountOf
  <2>2. \A d \in Collections : payment'[d] = payment[d]
    BY <1>6, <1>7, <1>9
  <2>3. \A t \in Sales \ {p} : Issued(t)' = Issued(t) /\ Bounced(t)' = Bounced(t)
    BY <1>5, <1>6, <1>7 DEF Issued, Bounced
  <2>4. \A t \in Sales \ {p} : /\ KhataTerm(t)' = KhataTerm(t)
                               /\ \A q \in Products : StockTerm(t, q)' = StockTerm(t, q)
    BY <1>5, <2>3 DEF KhataTerm, StockTerm
  <2>5. /\ Bounced(p) \in Int /\ Paid[p] \in Int /\ Credit[p] \in Int
        /\ refunds[p].credit \in Int /\ Issued(p) \in Int
        /\ \A q \in Products : StockTerm(p, q) \in Int
    BY <1>4, <1>9, TermsType DEF Issued
  <2>6. Issued(p)' = Issued(p) /\ Bounced(p)' = Bounced(p) + 1
    BY <1>5, <1>6, <2>5 DEF Issued, Bounced
  <2>7. KhataTerm(p)' = KhataTerm(p) + Paid[p]
    <3>1. PICK b \in Int, i \in Int : b = Bounced(p) * Paid[p] /\ i = Issued(p) * Credit[p]
      BY <2>5, Times
    <3>2. KhataTerm(p) = i + b - refunds[p].credit
      BY <3>1 DEF KhataTerm
    <3>3. KhataTerm(p)' = i + (Bounced(p) + 1) * Paid[p] - refunds[p].credit
      BY <1>5, <2>6, <3>1 DEF KhataTerm
    <3>4. (Bounced(p) + 1) * Paid[p] = b + Paid[p]
      BY <2>5, <3>1, Times
    <3> QED BY <2>5, <3>1, <3>2, <3>3, <3>4
  <2>8. \A q \in Products : StockTerm(p, q)' = StockTerm(p, q) + job[r].posts[Product(q)]
    <3>1. \A q \in Products : StockTerm(p, q)' = StockTerm(p, q)
      BY <1>5, <2>6 DEF StockTerm
    <3> QED BY <1>8, <2>5, <3>1
  <2> QED BY <1>1, <1>9, <2>1, <2>2, <2>4, <2>7, <2>8, BillMoves
<1>10. CASE p \in Collections
  <2>1. job[r].posts[Khata] = Amount[p] /\ Amount[p] \in Int
    BY <1>7, <1>8, <1>10, BooksAssumption DEF AmountOf
  <2>2. payment[p] = "live"
    <3>1. PICK s \in Sales : s \in Scope(job[r])
      BY <1>2, <1>3, <1>10, ScopeType, BooksAssumption
    <3> QED BY <1>2, <1>3, <3>1 DEF Stands, Live
  <2>3. Collected' = Collected - Amount[p]
    BY <1>4, <1>6, <1>7, <1>10, <2>2, CollectedMoves
  <2>4. \A t \in Sales : outs'[t] = outs[t]
    BY <1>6, <1>7, <1>10
  <2>5. \A t \in Sales : Issued(t)' = Issued(t) /\ Bounced(t)' = Bounced(t)
    BY <1>5, <2>4 DEF Issued, Bounced
  <2>6. /\ KhataOfBills' = KhataOfBills
        /\ \A q \in Products : StockOfBills(q)' = StockOfBills(q)
    <3>1. \A t \in Sales : /\ KhataTerm(t)' = KhataTerm(t)
                           /\ \A q \in Products : StockTerm(t, q)' = StockTerm(t, q)
      BY <1>5, <2>5 DEF KhataTerm, StockTerm
    <3> QED BY <3>1, NoBillMoves
  <2>7. /\ KhataOfBills \in Int /\ Collected \in Int
        /\ \A q \in Products : StockOfBills(q) \in Int
    BY <1>4, BillSumsType
  <2>8. KhataOfBills' = KhataOfBills + 0 /\ Collected' = Collected + (-Amount[p])
    BY <2>1, <2>3, <2>6, <2>7
  <2>9. \A q \in Products : StockOfBills(q)' = StockOfBills(q) + job[r].posts[Product(q)]
    BY <1>8, <2>6, <2>7
  <2>10. -Amount[p] \in Int /\ 0 - (-Amount[p]) = job[r].posts[Khata]
    BY <2>1
  <2> QED BY <1>1, <2>8, <2>9, <2>10, DocumentsMove
<1> QED BY <1>3, <1>9, <1>10

-----------------------------------------------------------------------------
(* The books agree with the entries and with the documents.                *)

\* A step that commits nothing.
LEMMA QuietAgrees ==
  ASSUME Agreement, UNCHANGED <<documents, accounts>>, raced \subseteq raced'
  PROVE  Agreement'
<1>1. UNCHANGED <<balance, log, status, returned, refunds, payment, outs>>
  BY DEF documents, accounts
<1>2. DocumentsAgree => DocumentsAgree'
  BY <1>1 DEF DocumentsAgree, Adjusted, Issued, Bounced, Live
<1>3. \A a \in Accounts : balance'[a] = Total(a)'
  BY <1>1 DEF Agreement, Total
<1> QED BY <1>2, <1>3 DEF Agreement

\* A step that commits.
LEMMA CommitAgrees ==
  ASSUME BInv, DInv, Agreement, NEW r \in Requests,
         \/ CommitCreate(r) \/ CommitCancel(r) \/ CommitReturn(r)
         \/ CommitCollect(r) \/ CommitReversal(r) \/ CommitAdjust(r)
  PROVE  Agreement'
<1>1. PICK op : Commits(r, op)
  BY DEF CommitCreate, CommitCancel, CommitReturn, CommitCollect, CommitReversal, CommitAdjust
<1>2. ASSUME NEW a \in Accounts PROVE balance'[a] = Total(a)'
  BY <1>1, <1>2, CommitPosts DEF Agreement
<1>3. raced' = raced
  BY <1>1, CommitFacts
<1>4. ASSUME raced' = {} PROVE DocumentsAgree'
  BY <1>3, <1>4, CreateAgrees, CancelAgrees, ReturnAgrees, CollectAgrees, ReversalAgrees,
     AdjustAgrees DEF Agreement
<1> QED BY <1>2, <1>4 DEF Agreement

\* What races, has raced for good.
LEMMA RequestStepAgrees ==
  ASSUME BInv, DInv, Agreement, NEW r \in Requests, RequestStep(r)
  PROVE  Agreement'
<1>1. ASSUME NEW j, NEW next, Start(r, j, next) PROVE Agreement'
  BY <1>1, QuietAgrees DEF Start
<1>2. ASSUME NEW j, GoOn(r, j) PROVE Agreement'
  BY <1>2, QuietAgrees DEF GoOn, history
<1>3. CASE Lock(r)
  BY <1>3, QuietAgrees DEF Lock, history
<1>4. CASE Abort(r)
  BY <1>4, QuietAgrees DEF Abort, Release, history
<1>5. CASE CreateStep(r)
  BY <1>1, <1>5, CommitAgrees DEF CreateStep, BeginCreate
<1>6. CASE CancelStep(r)
  BY <1>1, <1>2, <1>6, CommitAgrees DEF CancelStep, BeginCancel, CountReturns
<1>7. CASE ReturnStep(r)
  BY <1>1, <1>2, <1>7, CommitAgrees DEF ReturnStep, BeginReturn, ReadReturned
<1>8. CASE CollectStep(r)
  BY <1>1, <1>8, CommitAgrees DEF CollectStep, BeginCollect, BeginCollectByHand, Collect
<1>9. CASE ReverseStep(r)
  BY <1>1, <1>9, CommitAgrees DEF ReverseStep, BeginReversal
<1>10. CASE AdjustStep(r)
  BY <1>1, <1>10, CommitAgrees DEF AdjustStep, BeginAdjust
<1> QED BY <1>3, <1>4, <1>5, <1>6, <1>7, <1>8, <1>9, <1>10 DEF RequestStep

\* The first bill is still to come, and nothing was posted.
LEMMA InitAgrees == Init => Agreement
<1> SUFFICES ASSUME Init PROVE Agreement
  OBVIOUS
<1>1. \A a \in Accounts : balance[a] = 0 /\ log[a] = <<>>
  BY DEF Init
<1>2. ASSUME NEW a \in Accounts PROVE Total(a) = 0 /\ Adjusted(a) = 0
  <2> DEFINE f == [i \in DOMAIN log[a] |-> log[a][i].amount]
             h == [i \in {k \in DOMAIN log[a] : log[a][k].op = "adjust"} |-> log[a][i].amount]
  <2>1. DOMAIN log[a] = {}
    BY <1>1
  <2>2. DOMAIN f = {} /\ DOMAIN h = {}
    BY <2>1
  <2> HIDE DEF f, h
  <2>3. SumFunction(f) = 0 /\ SumFunction(h) = 0
    BY <2>2, SumEmpty DEF SumFunction
  <2> QED BY <2>3 DEF Total, Adjusted, f, h
<1>3. /\ \A s \in Sales : status[s] = "none" /\ outs[s] = 0 /\ returned[s] = Nothing
                          /\ refunds[s].credit = 0
      /\ \A d \in Collections : ~Live(d)
  BY DEF Init, Live, Payments
<1>4. \A s \in Sales : Issued(s) = 0 /\ Bounced(s) = 0
  BY <1>3 DEF Issued, Bounced
<1>5. /\ \A s \in Sales : KhataTerm(s) = 0
      /\ \A s \in Sales, p \in Products : StockTerm(s, p) = 0
  <2>1. \A s \in Sales : Credit[s] \in Int /\ Paid[s] \in Int
    BY BooksAssumption
  <2>2. \A s \in Sales, p \in Products : Sold[s][p] \in Int
    BY BooksAssumption
  <2>3. \A s \in Sales : 0 * Credit[s] = 0 /\ 0 * Paid[s] = 0
    BY <2>1, Times
  <2>4. \A s \in Sales, p \in Products : 0 * Sold[s][p] = 0 /\ returned[s][p] = 0
    BY <1>3, <2>2, Times DEF Nothing
  <2>5. \A s \in Sales : KhataTerm(s) = 0 + 0 - 0
    BY <1>3, <1>4, <2>3 DEF KhataTerm
  <2>6. \A s \in Sales, p \in Products : StockTerm(s, p) = 0 - 0
    BY <1>4, <2>4 DEF StockTerm
  <2> QED BY <2>5, <2>6
<1>6. KhataOfBills = 0
  <2> DEFINE f == [s \in Sales |-> KhataTerm(s)]
  <2>1. DOMAIN f = Sales /\ \A s \in Sales : f[s] = 0
    BY <1>5
  <2> HIDE DEF f
  <2>2. SumFunction(f) = 0
    BY <2>1, BooksAssumption, SumZero DEF SumFunction
  <2> QED BY <2>2 DEF KhataOfBills, f
<1>7. ASSUME NEW p \in Products PROVE StockOfBills(p) = 0
  <2> DEFINE f == [s \in Sales |-> StockTerm(s, p)]
  <2>1. DOMAIN f = Sales /\ \A s \in Sales : f[s] = 0
    BY <1>5
  <2> HIDE DEF f
  <2>2. SumFunction(f) = 0
    BY <2>1, BooksAssumption, SumZero DEF SumFunction
  <2> QED BY <2>2 DEF StockOfBills, f
<1>8. Collected = 0
  <2> DEFINE f == [c \in {d \in Collections : Live(d)} |-> Amount[c]]
  <2>1. DOMAIN f = {}
    BY <1>3
  <2> HIDE DEF f
  <2>2. SumFunction(f) = 0
    BY <2>1, SumEmpty DEF SumFunction
  <2> QED BY <2>2 DEF Collected, f
<1>9. DocumentsAgree
  BY <1>1, <1>2, <1>6, <1>7, <1>8, RowFacts, AgreesOf
<1> QED BY <1>1, <1>2, <1>9 DEF Agreement

\* Nothing to report, and the documents agreed with.
LEMMA AgreementIsBooks == Agreement => BooksAgree
<1> SUFFICES ASSUME Agreement PROVE BooksAgree
  OBVIOUS
<1>1. StockMismatches = {} /\ KhataMismatches = {}
  BY RowFacts DEF Agreement, StockMismatches, KhataMismatches
<1> QED BY <1>1 DEF Agreement, BooksAgree, ShopsWithMismatch

LEMMA StutterAgrees ==
  ASSUME Agreement, UNCHANGED vars
  PROVE  Agreement'
<1>1. UNCHANGED <<documents, accounts>> /\ raced \subseteq raced'
  BY DEF vars, history
<1> QED BY <1>1, QuietAgrees

\* The invariant of the books: what a request has read under a lock, or of a bill
\* no other request is working on, still holds when it commits; every entry, and
\* every document, is on the balances.
THEOREM BooksAreSound == Spec => [](BInv /\ DInv /\ Agreement)
<1>1. Init => BInv /\ DInv /\ Agreement
  BY InitKeeps, InitKeepsDocuments, InitAgrees
<1>2. BInv /\ DInv /\ Agreement /\ [Next]_vars => (BInv /\ DInv /\ Agreement)'
  <2> SUFFICES ASSUME BInv, DInv, Agreement, [Next]_vars
               PROVE  BInv' /\ DInv' /\ Agreement'
    OBVIOUS
  <2>1. CASE Next
    BY <2>1, StepKeeps, RequestStepKeepsDocuments, RequestStepAgrees DEF Next
  <2>2. CASE UNCHANGED vars
    BY <2>2, StepKeeps, StutterKeepsDocuments, StutterAgrees
  <2> QED BY <2>1, <2>2
<1> QED BY <1>1, <1>2, PTL DEF Spec

\* The shape of the state of the books.
THEOREM BooksType == Spec => []TypeOK
BY BooksAreSound, DocumentsType, PTL

\* Of a bill no two requests worked on at once no more is cleared than was put on
\* the khata; and if no return named a line of it twice, no more comes back than
\* was sold, and no more cash than was paid and its discount took off.
THEOREM BillsAreBounded == Spec => [](GoodsComeBackOnce /\ CashWithinPaid /\ AllocatedWithinCredit)
<1>1. DInv => GoodsComeBackOnce /\ CashWithinPaid /\ AllocatedWithinCredit
  BY CashIsPaid DEF DInv
<1> QED BY <1>1, BooksAreSound, PTL

\* Reconciliation finds nothing, and the balances are what the documents add up to.
THEOREM BooksBalance == Spec => []BooksAgree
BY BooksAreSound, AgreementIsBooks, PTL

-----------------------------------------------------------------------------
(* The customer.                                                           *)

Read == [entries : Nat \cup {NotRead}, limit : Limits \cup {NoLimit}]

CustomerRowOK ==
  /\ limit \in Limits \cup {NoLimit}
  /\ closing \subseteq Requests
  /\ archived \in Nat \cup {NotRead}
  /\ read \in [Requests -> Read]
  /\ \A r \in closing : stage[r] = "idle" /\ read[r].entries # NotRead

\* Nothing was read of a later khata than the present one.
ReadBefore ==
  /\ archived <= Len(log[Khata])
  /\ \A r \in Requests : read[r].entries <= Len(log[Khata])

\* While the khata stands as it was read, what was decided on it is right.
BillsFit ==
  \A r \in Requests :
    /\ stage[r] # "idle" /\ job[r].op = "create"
    /\ read[r].entries = Len(log[Khata])
    => balance[Khata] + job[r].posts[Khata] <= read[r].limit
ClosingOwesNothing ==
  \A r \in closing : read[r].entries = Len(log[Khata]) => balance[Khata] <= 0
ArchivedOwedNothing == archived = Len(log[Khata]) => balance[Khata] <= 0

CInv ==
  BInv /\ CustomerRowOK /\ ReadBefore /\ BillsFit /\ ClosingOwesNothing /\ ArchivedOwedNothing

-----------------------------------------------------------------------------
(* Steps of the books.                                                     *)

\* The khata stands as it stood, or has one entry more.
LEMMA KhataMoves ==
  ASSUME BInv, [Next]_vars
  PROVE  \/ balance'[Khata] = balance[Khata] /\ log'[Khata] = log[Khata]
         \/ Len(log'[Khata]) = Len(log[Khata]) + 1
<1>1. CASE UNCHANGED accounts
  BY <1>1 DEF accounts
<1>2. CASE \E r \in Requests : \E op \in Ops : Commits(r, op)
  <2>1. Statement!Next
    BY <1>2, CommitExtends
  <2>2. CASE Statement!Extend(Khata)
    <3>1. log[Khata] \in Seq(Entry) /\ log'[Khata] \in Seq(Entry)
      BY StepKeeps, RowFacts DEF BInv, AccountsTypeOK
    <3>2. log'[Khata] # <<>>
          /\ log'[Khata] = Append(log[Khata], Statement!Last(log'[Khata]))
      BY <2>2 DEF Statement!Extend
    <3>3. Statement!Last(log'[Khata]) \in Entry
      BY <3>1, <3>2 DEF Statement!Last
    <3> QED BY <3>1, <3>2, <3>3
  <2> QED BY <2>1, <2>2, RowFacts DEF Statement!Next
<1> QED BY <1>1, <1>2, StepKeeps

\* A bill that is being made is the one it was, unless the step takes it up.
LEMMA SameBill ==
  ASSUME BInv, NEW r \in Requests, RequestStep(r),
         NEW q \in Requests, stage'[q] # "idle", job'[q].op = "create"
  PROVE  \/ stage[q] # "idle" /\ job'[q] = job[q]
         \/ q = r /\ stage[r] = "idle"
<1>1. /\ stage \in [Requests -> Stages]
      /\ job = [p \in Requests |-> job[p]]
  BY DEF BInv, RequestsOK
<1>2. ASSUME UNCHANGED <<stage, job>>
      PROVE  stage[q] # "idle" /\ job'[q] = job[q]
  BY <1>2
<1>3. ASSUME Release(r)
      PROVE  stage[q] # "idle" /\ job'[q] = job[q]
  BY <1>1, <1>3 DEF Release
<1>4. ASSUME NEW j, NEW next, Start(r, j, next)
      PROVE  \/ stage[q] # "idle" /\ job'[q] = job[q]
             \/ q = r /\ stage[r] = "idle"
  BY <1>1, <1>4 DEF Start
<1>5. ASSUME NEW j, GoOn(r, j), stage[r] = "reading", j.op # "create"
      PROVE  stage[q] # "idle" /\ job'[q] = job[q]
  BY <1>1, <1>5 DEF GoOn
<1>6. CASE Lock(r)
  BY <1>2, <1>6 DEF Lock
<1>7. CASE Abort(r)
  BY <1>3, <1>7 DEF Abort
<1>8. CASE \E op : Commits(r, op)
  BY <1>3, <1>8 DEF Commits
<1>9. CASE \E j, next : Start(r, j, next)
  BY <1>4, <1>9
<1>10. CASE CountReturns(r)
  BY <1>5, <1>10 DEF CountReturns
<1>11. CASE ReadReturned(r)
  BY <1>5, <1>11 DEF ReadReturned, Job
<1>12. CASE CreateStep(r)
  BY <1>8, <1>9, <1>12 DEF CreateStep, BeginCreate, CommitCreate
<1>13. CASE CancelStep(r)
  BY <1>8, <1>9, <1>10, <1>13 DEF CancelStep, BeginCancel, CommitCancel
<1>14. CASE ReturnStep(r)
  BY <1>8, <1>9, <1>11, <1>14 DEF ReturnStep, BeginReturn, CommitReturn
<1>15. CASE CollectStep(r)
  BY <1>8, <1>9, <1>15 DEF CollectStep, BeginCollect, BeginCollectByHand, Collect, CommitCollect
<1>16. CASE ReverseStep(r)
  BY <1>8, <1>9, <1>16 DEF ReverseStep, BeginReversal, CommitReversal
<1>17. CASE AdjustStep(r)
  BY <1>8, <1>9, <1>17 DEF AdjustStep, BeginAdjust, CommitAdjust
<1> QED BY <1>6, <1>7, <1>12, <1>13, <1>14, <1>15, <1>16, <1>17 DEF RequestStep

\* Only the request that takes a step may leave its place.
LEMMA OthersStay ==
  ASSUME BInv, NEW r \in Requests, RequestStep(r), NEW q \in Requests \ {r}
  PROVE  stage'[q] = stage[q]
<1>1. stage \in [Requests -> Stages]
  BY DEF BInv, RequestsOK
<1>2. CASE UNCHANGED stage
  BY <1>2
<1>3. CASE Release(r)
  BY <1>1, <1>3 DEF Release
<1>4. CASE \E j, next : Start(r, j, next)
  BY <1>1, <1>4 DEF Start
<1>5. CASE \E j : GoOn(r, j)
  BY <1>1, <1>5 DEF GoOn
<1>6. CASE CreateStep(r)
  BY <1>3, <1>4, <1>6 DEF CreateStep, BeginCreate, CommitCreate, Commits
<1>7. CASE CancelStep(r)
  BY <1>3, <1>4, <1>5, <1>7 DEF CancelStep, BeginCancel, CountReturns, CommitCancel, Commits
<1>8. CASE ReturnStep(r)
  BY <1>3, <1>4, <1>5, <1>8 DEF ReturnStep, BeginReturn, ReadReturned, CommitReturn, Commits
<1>9. CASE CollectStep(r)
  BY <1>3, <1>4, <1>9
  DEF CollectStep, BeginCollect, BeginCollectByHand, Collect, CommitCollect, Commits
<1>10. CASE ReverseStep(r)
  BY <1>3, <1>4, <1>10 DEF ReverseStep, BeginReversal, CommitReversal, Commits
<1>11. CASE AdjustStep(r)
  BY <1>3, <1>4, <1>11 DEF AdjustStep, BeginAdjust, CommitAdjust, Commits
<1> QED BY <1>2, <1>3, <1>6, <1>7, <1>8, <1>9, <1>10, <1>11 DEF RequestStep, Lock, Abort

\* A read of the khata as it stands is of its present entries.
LEMMA ReadType ==
  ASSUME CInv
  PROVE  /\ Len(log[Khata]) \in Nat /\ balance[Khata] \in Int
         /\ Unread \in Read /\ JustRead \in Read
         /\ JustRead.entries = Len(log[Khata]) /\ JustRead.limit = limit
         /\ Unread.entries = NotRead /\ Unread.limit = NoLimit
<1>1. log[Khata] \in Seq(Entry) /\ balance[Khata] \in Int
  BY RowFacts DEF CInv, BInv, AccountsTypeOK
<1>2. Len(log[Khata]) \in Nat
  BY <1>1
<1>3. limit \in Limits \cup {NoLimit}
  BY DEF CInv, CustomerRowOK
<1> QED BY <1>1, <1>2, <1>3 DEF Unread, JustRead, Read

\* What a step of the books leaves of what its request read: nothing, what it
\* was, or that the bill it takes up fits.
LEMMA BillRead ==
  ASSUME CInv, NEW r \in Requests, BookStep(r)
  PROVE  /\ read' \in [Requests -> Read]
         /\ \A q \in Requests \ {r} : read'[q] = read[q]
         /\ \/ read'[r] = Unread
            \/ read'[r] = read[r] /\ (stage[r] # "idle" \/ job'[r].op # "create")
            \/ /\ read'[r] = JustRead
               /\ balance[Khata] + job'[r].posts[Khata] <= limit
<1>1. read \in [Requests -> Read] /\ Unread \in Read /\ JustRead \in Read
  BY ReadType DEF CInv, CustomerRowOK
<1>2. CASE Bills(r)
  <2>1. CheckCreditLimit(r)
    BY <1>2 DEF BookStep
  <2> QED BY <1>1, <2>1 DEF CheckCreditLimit, Fits
<1>3. CASE ~Bills(r)
  <2>1. read' = read \/ read' = [read EXCEPT ![r] = Unread]
    BY <1>3 DEF BookStep
  <2>2. stage[r] # "idle" \/ job'[r].op # "create"
    BY <1>3 DEF Bills, Running
  <2> QED BY <1>1, <2>1, <2>2
<1> QED BY <1>2, <1>3

\* The khata never loses an entry, and with as many as before it is as before.
LEMMA SameKhata ==
  ASSUME CInv, [Next]_vars
  PROVE  /\ Len(log'[Khata]) \in Nat /\ Len(log[Khata]) <= Len(log'[Khata])
         /\ Len(log'[Khata]) = Len(log[Khata]) => balance'[Khata] = balance[Khata]
<1>1. Len(log[Khata]) \in Nat
  BY ReadType
<1> QED BY <1>1, KhataMoves DEF CInv

\* A step of the books keeps the invariant.
LEMMA BookStepKeeps ==
  ASSUME CInv, NEW r \in Requests, BookStep(r)
  PROVE  CInv'
<1> USE DEF NotRead
<1>1. RequestStep(r) /\ r \notin closing /\ UNCHANGED <<limit, closing, archived>>
  BY DEF BookStep
<1>2. [Next]_vars /\ BInv /\ BInv'
  BY <1>1, StepKeeps DEF Next, CInv
<1>3. /\ Len(log[Khata]) \in Nat /\ Len(log'[Khata]) \in Nat
      /\ Len(log[Khata]) <= Len(log'[Khata])
      /\ Len(log'[Khata]) = Len(log[Khata]) => balance'[Khata] = balance[Khata]
  BY <1>2, SameKhata, ReadType
<1>4. \A q \in Requests : read[q] \in Read /\ read[q].entries \in Nat \cup {NotRead}
  BY DEF CInv, CustomerRowOK, Read
<1>5. CustomerRowOK'
  <2>1. \A q \in closing : q \in Requests \ {r} /\ stage'[q] = stage[q]
    BY <1>1, <1>2, OthersStay DEF CInv, CustomerRowOK
  <2> QED BY <1>1, <2>1, BillRead DEF CInv, CustomerRowOK
<1>6. ReadBefore'
  <2>1. archived \in Nat \cup {NotRead} /\ archived <= Len(log[Khata])
    BY DEF CInv, CustomerRowOK, ReadBefore
  <2>2. ASSUME NEW q \in Requests PROVE read'[q].entries <= Len(log'[Khata])
    <3>1. read[q].entries <= Len(log[Khata])
      BY DEF CInv, ReadBefore
    <3>2. read'[q].entries \in {read[q].entries, NotRead, Len(log[Khata])}
      BY BillRead, ReadType
    <3> QED BY <1>3, <1>4, <3>1, <3>2
  <2> QED BY <1>1, <1>3, <2>1, <2>2 DEF ReadBefore
<1>7. BillsFit'
  <2> SUFFICES ASSUME NEW q \in Requests, stage'[q] # "idle", job'[q].op = "create",
                      read'[q].entries = Len(log'[Khata])
               PROVE  balance'[Khata] + job'[q].posts[Khata] <= read'[q].limit
    BY DEF BillsFit
  <2>1. read'[q] # Unread
    BY <1>3, ReadType
  <2>2. CASE read'[q] = read[q] /\ stage[q] # "idle" /\ job'[q] = job[q]
    <3>1. read[q].entries = Len(log[Khata]) /\ balance'[Khata] = balance[Khata]
      BY <1>3, <1>4, <2>2 DEF CInv, ReadBefore
    <3> QED BY <2>2, <3>1 DEF CInv, BillsFit
  <2>3. CASE q = r /\ read'[r] = JustRead
                   /\ balance[Khata] + job'[r].posts[Khata] <= limit
    BY <1>3, <2>3, ReadType
  <2>4. \/ stage[q] # "idle" /\ job'[q] = job[q]
        \/ q = r /\ stage[r] = "idle"
    BY <1>1, <1>2, SameBill
  <2> QED BY <2>1, <2>2, <2>3, <2>4, BillRead
<1>8. ClosingOwesNothing'
  <2> SUFFICES ASSUME NEW q \in closing, read'[q].entries = Len(log'[Khata])
               PROVE  balance'[Khata] <= 0
    BY <1>1 DEF ClosingOwesNothing
  <2>1. q \in Requests \ {r} /\ read'[q] = read[q]
    BY <1>1, BillRead DEF CInv, CustomerRowOK
  <2>2. read[q].entries = Len(log[Khata]) /\ balance'[Khata] = balance[Khata]
    BY <1>3, <1>4, <2>1 DEF CInv, ReadBefore
  <2> QED BY <2>2 DEF CInv, ClosingOwesNothing
<1>9. ArchivedOwedNothing'
  BY <1>1, <1>3 DEF CInv, CustomerRowOK, ReadBefore, ArchivedOwedNothing
<1> QED BY <1>2, <1>5, <1>6, <1>7, <1>8, <1>9 DEF CInv

-----------------------------------------------------------------------------
(* Steps on the customer's row.                                            *)

\* They leave the books alone, but for a request more.
LEMMA RowStepLeavesBooks ==
  ASSUME CInv, NEW r \in Requests, CustomerStep(r)
  PROVE  /\ BInv'
         /\ UNCHANGED <<balance, log, stage, job>>
<1>1. UNCHANGED <<balance, log, owner, stage, job, todo, before>>
  BY DEF CustomerStep, ChangeLimit, BeginArchive, CommitArchive, AbortArchive, Arrives,
         vars, accounts, requests
<1> QED BY <1>1 DEF CInv, BInv, AccountsTypeOK, RequestsOK, LocksTypeOK, BeforeIsBalance, HeldBelow, Needs

LEMMA RowStepKeeps ==
  ASSUME CInv, NEW r \in Requests, CustomerStep(r)
  PROVE  CInv'
<1> USE DEF NotRead
<1>1. BInv' /\ UNCHANGED <<balance, log, stage, job>>
  BY RowStepLeavesBooks
<1>2. /\ Len(log[Khata]) \in Nat /\ read \in [Requests -> Read] /\ r \in Requests
      /\ Unread \in Read /\ JustRead \in Read /\ JustRead.entries = Len(log[Khata])
      /\ Unread.entries = NotRead
  BY ReadType DEF CInv, CustomerRowOK
<1>3. CASE ChangeLimit(r)
  <2>1. UNCHANGED <<closing, archived, read>> /\ limit' \in Limits \cup {NoLimit}
    BY <1>3 DEF ChangeLimit
  <2> QED BY <1>1, <2>1
      DEF CInv, CustomerRowOK, ReadBefore, BillsFit, ClosingOwesNothing, ArchivedOwedNothing
<1>4. CASE BeginArchive(r)
  <2>1. /\ balance[Khata] <= 0 /\ stage[r] = "idle"
        /\ closing' = closing \cup {r} /\ UNCHANGED <<limit, archived>>
        /\ read' = [read EXCEPT ![r] = JustRead]
    BY <1>4 DEF BeginArchive, Arrives, Running
  <2>2. \A q \in Requests : read'[q] = IF q = r THEN JustRead ELSE read[q]
    BY <1>2, <2>1
  <2>3. CustomerRowOK'
    BY <1>1, <1>2, <2>1, <2>2 DEF CInv, CustomerRowOK
  <2>4. ReadBefore' /\ ArchivedOwedNothing'
    BY <1>1, <1>2, <2>1, <2>2 DEF CInv, ReadBefore, ArchivedOwedNothing
  <2>5. BillsFit' /\ ClosingOwesNothing'
    BY <1>1, <1>2, <2>1, <2>2 DEF CInv, CustomerRowOK, BillsFit, ClosingOwesNothing
  <2> QED BY <1>1, <2>3, <2>4, <2>5 DEF CInv
<1>5. ASSUME r \in closing, closing' = closing \ {r}, UNCHANGED limit,
             read' = [read EXCEPT ![r] = Unread], archived' \in {archived, read[r].entries}
      PROVE  CInv'
  <2>1. \A q \in Requests : read'[q] = IF q = r THEN Unread ELSE read[q]
    BY <1>2, <1>5
  <2>2. read[r].entries \in Nat \cup {NotRead}
    BY <1>2 DEF Read
  <2>3. CustomerRowOK'
    BY <1>1, <1>2, <1>5, <2>1, <2>2 DEF CInv, CustomerRowOK
  <2>4. ReadBefore'
    BY <1>1, <1>2, <1>5, <2>1 DEF CInv, ReadBefore
  <2>5. ArchivedOwedNothing'
    BY <1>1, <1>5 DEF CInv, ArchivedOwedNothing, ClosingOwesNothing
  <2>6. BillsFit' /\ ClosingOwesNothing'
    BY <1>1, <1>2, <1>5, <2>1 DEF CInv, CustomerRowOK, BillsFit, ClosingOwesNothing
  <2> QED BY <1>1, <2>3, <2>4, <2>5, <2>6 DEF CInv
<1>6. CASE CommitArchive(r)
  BY <1>5, <1>6 DEF CommitArchive
<1>7. CASE AbortArchive(r)
  BY <1>5, <1>7 DEF AbortArchive
<1> QED BY <1>3, <1>4, <1>6, <1>7 DEF CustomerStep

-----------------------------------------------------------------------------
(* The theorems.                                                           *)

LEMMA CInit == CustomerInit => CInv
<1> SUFFICES ASSUME CustomerInit PROVE CInv
  OBVIOUS
<1> USE DEF CustomerInit, NotRead
<1>1. BInv
  BY InitKeeps
<1>2. log[Khata] = <<>> /\ balance[Khata] = 0
  BY RowFacts DEF Init
<1>3. CustomerRowOK /\ ReadBefore
  BY <1>2 DEF CustomerRowOK, ReadBefore, Read, Unread
<1>4. BillsFit /\ ClosingOwesNothing /\ ArchivedOwedNothing
  BY <1>2 DEF BillsFit, ClosingOwesNothing, ArchivedOwedNothing, Unread
<1> QED BY <1>1, <1>3, <1>4 DEF CInv

LEMMA CStepKeeps == CInv /\ [CustomerNext]_allVars => CInv'
<1> SUFFICES ASSUME CInv, [CustomerNext]_allVars PROVE CInv'
  OBVIOUS
<1>1. CASE UNCHANGED allVars
  <2>1. UNCHANGED vars /\ UNCHANGED customerVars
    BY <1>1 DEF allVars
  <2>2. BInv'
    BY <2>1, StepKeeps DEF CInv
  <2>3. UNCHANGED <<balance, log, stage, job>>
    BY <2>1 DEF vars, accounts, requests
  <2> QED BY <2>1, <2>2, <2>3
      DEF CInv, customerVars, CustomerRowOK, ReadBefore, BillsFit, ClosingOwesNothing,
          ArchivedOwedNothing
<1>2. CASE CustomerNext
  BY <1>2, BookStepKeeps, RowStepKeeps DEF CustomerNext
<1> QED BY <1>1, <1>2

\* The invariant of the books and the customer together.
THEOREM CustomersAreSound == CustomerSpec => []CInv
BY CInit, CStepKeeps, PTL DEF CustomerSpec

LEMMA SoundReadsHold == CInv => KhataReadsHold
<1> SUFFICES ASSUME CInv PROVE KhataReadsHold
  OBVIOUS
<1> USE DEF NotRead
<1>1. Len(log[Khata]) \in Nat /\ balance[Khata] \in Int
  BY ReadType
<1>2. LimitIsKept
  <2> SUFFICES ASSUME NEW r \in Requests, AboutToBill(r), read[r].entries = Len(log[Khata])
               PROVE  before[r][Khata] + job[r].posts[Khata] <= read[r].limit
    BY DEF LimitIsKept
  <2>1. owner[Khata] = r
    BY RowFacts DEF AboutToBill, CInv, BInv, RequestsOK, LocksTypeOK
  <2>2. before[r][Khata] = balance[Khata]
    BY <2>1, RowFacts DEF CInv, BInv, BeforeIsBalance
  <2> QED BY <2>2 DEF AboutToBill, CInv, BillsFit
<1>3. DebtsAreListed
  <2> SUFFICES ASSUME balance[Khata] > 0, Ageing = {}
               PROVE  Len(log[Khata]) > archived
    BY DEF DebtsAreListed
  <2>1. archived # NotRead
    <3> DEFINE row == [owes |-> balance[Khata],
                       since |-> IF OnCredit = {} THEN 0 ELSE FSE!Min(OnCredit)]
    <3>1. ~(balance[Khata] <= 0)
      BY <1>1
    <3>2. archived = NotRead => Ageing = {row}
      BY Zenon, <3>1 DEF Ageing
    <3> HIDE DEF row
    <3>3. {row} # {}
      OBVIOUS
    <3> QED BY <3>2, <3>3
  <2>2. archived \in Nat /\ archived <= Len(log[Khata])
    BY <2>1 DEF CInv, CustomerRowOK, ReadBefore
  <2> QED BY <1>1, <2>2 DEF CInv, ArchivedOwedNothing
<1> QED BY <1>2, <1>3 DEF KhataReadsHold

\* Whatever runs at once, a bill passes the limit it was checked against, and a
\* debt is missing from the khata list, only by entries made after the read.
THEOREM ReadsHold == CustomerSpec => []KhataReadsHold
BY CustomersAreSound, SoundReadsHold, PTL

\* Beside archivings and changed limits the khata is a running balance still.
THEOREM ListedStatement == CustomerSpec => KeepsStatement
<1>1. CustomerInit => Statement!Init
  BY DEF CustomerInit, Init, Statement!Init
<1>2. CInv /\ [CustomerNext]_allVars => [Statement!Next]_<<balance, log>>
  <2> SUFFICES ASSUME CInv, [CustomerNext]_allVars PROVE [Statement!Next]_<<balance, log>>
    OBVIOUS
  <2>1. CASE UNCHANGED accounts
    BY <2>1 DEF accounts
  <2>2. ASSUME NEW r \in Requests, BookStep(r)
        PROVE  [Statement!Next]_<<balance, log>>
    <3>1. BInv /\ [Next]_vars
      BY <2>2 DEF BookStep, Next, CInv
    <3>2. CASE \E q \in Requests : \E op \in Ops : Commits(q, op)
      BY <3>1, <3>2, CommitExtends
    <3> QED BY <2>1, <3>1, <3>2, StepKeeps
  <2>3. ASSUME NEW r \in Requests, CustomerStep(r)
        PROVE  [Statement!Next]_<<balance, log>>
    BY <2>3, RowStepLeavesBooks
  <2>4. CASE UNCHANGED allVars
    BY <2>1, <2>4 DEF allVars, vars
  <2> QED BY <2>2, <2>3, <2>4 DEF CustomerNext
<1> QED BY <1>1, <1>2, CustomersAreSound, PTL DEF CustomerSpec, KeepsStatement, Statement!Spec

\* Nor do requests wait in a circle for stock.
THEOREM StockStaysFree == CustomerSpec => []StockNeverDeadlocks
BY CustomersAreSound, NoStockCircle, PTL DEF CInv

-----------------------------------------------------------------------------
(* The books beside the customer.                                          *)

\* A step on the customer's row leaves the documents and what requests have read
\* of them alone.
LEMMA RowStepIsQuiet ==
  ASSUME DInv, NEW r \in Requests, CustomerStep(r)
  PROVE  /\ UNCHANGED <<documents, accounts, stage, job, history>>
         /\ begun' \in Nat
<1>1. CASE Arrives(r)
  BY <1>1 DEF Arrives, DInv, HistoryOK
<1>2. CASE UNCHANGED vars
  BY <1>2 DEF vars, requests, DInv, HistoryOK
<1> QED BY <1>1, <1>2 DEF CustomerStep, ChangeLimit, BeginArchive, CommitArchive, AbortArchive

\* The invariant of the books holds beside bills checked against a limit and a
\* customer who is archived.
THEOREM AllIsSound == CustomerSpec => [](CInv /\ DInv /\ Agreement)
<1>1. CustomerInit => CInv /\ DInv /\ Agreement
  BY CInit, InitKeepsDocuments, InitAgrees DEF CustomerInit
<1>2. CInv /\ DInv /\ Agreement /\ [CustomerNext]_allVars => (CInv /\ DInv /\ Agreement)'
  <2> SUFFICES ASSUME CInv, DInv, Agreement, [CustomerNext]_allVars
               PROVE  CInv' /\ DInv' /\ Agreement'
    OBVIOUS
  <2>1. CInv'
    BY CStepKeeps
  <2>2. ASSUME NEW r \in Requests, BookStep(r) PROVE DInv' /\ Agreement'
    BY <2>2, RequestStepKeepsDocuments, RequestStepAgrees DEF BookStep, CInv
  <2>3. ASSUME NEW r \in Requests, CustomerStep(r) PROVE DInv' /\ Agreement'
    <3>1. UNCHANGED <<documents, accounts, stage, job, history>> /\ begun' \in Nat
      BY <2>3, RowStepIsQuiet
    <3>2. DInv'
      BY <3>1, QuietKeeps
    <3>3. Agreement'
      BY <3>1, QuietAgrees DEF history
    <3> QED BY <3>2, <3>3
  <2>4. CASE UNCHANGED allVars
    BY <2>1, <2>4, StutterKeepsDocuments, StutterAgrees DEF allVars
  <2>5. CASE CustomerNext
    <3>1. PICK r \in Requests : BookStep(r) \/ CustomerStep(r)
      BY <2>5 DEF CustomerNext
    <3> QED BY <2>1, <2>2, <2>3, <3>1
  <2> QED BY <2>1, <2>4, <2>5
<1> QED BY <1>1, <1>2, PTL DEF CustomerSpec

\* The shape of the whole state.
THEOREM CustomersType == CustomerSpec => []CustomerTypeOK
<1>1. CInv /\ DInv => CustomerTypeOK
  <2> SUFFICES ASSUME CInv, DInv PROVE CustomerTypeOK
    OBVIOUS
  <2>1. TypeOK
    BY DocumentsType DEF CInv
  <2>2. \A r \in closing : ~Running(r) /\ read[r].entries # NotRead
    BY DEF CInv, CustomerRowOK, Running
  <2> QED BY <2>1, <2>2 DEF CInv, CustomerRowOK, CustomerTypeOK, Read
<1> QED BY <1>1, AllIsSound, PTL

\* Whatever the returns and the cancellation of a bill come in, as long as none
\* names a line twice, its goods come back once, and no cash is handed back but
\* what was paid and what its discount took off.
THEOREM GoodsAndCash == CustomerSpec => [](GoodsComeBackOnce /\ CashWithinPaid)
<1>1. DInv => GoodsComeBackOnce /\ CashWithinPaid
  BY CashIsPaid DEF DInv
<1> QED BY <1>1, AllIsSound, PTL

\* First in, first out never clears more of a bill than its credit.
THEOREM CollectionsFit == CustomerSpec => []AllocatedWithinCredit
<1>1. DInv => AllocatedWithinCredit
  BY DEF DInv
<1> QED BY <1>1, AllIsSound, PTL

\* Reconciliation finds nothing whatever raced; and where no two requests worked
\* on one bill, the khata and the stock cards are what the documents add up to.
THEOREM DocumentsAddUp == CustomerSpec => []BooksAgree
BY AllIsSound, AgreementIsBooks, PTL
=============================================================================
