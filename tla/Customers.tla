----------------------------- MODULE Customers -----------------------------
(***************************************************************************)
(* The customer beside the books: the credit limit a bill is checked       *)
(* against, the archiving of the customer, and the khata list.             *)
(*                                                                         *)
(* Both decisions are taken on the balance of the khata, read without its  *)
(* lock: by the time the bill posts its credit, or the customer's row is   *)
(* archived, other requests may have posted to it.  Nothing that posts to  *)
(* the khata looks at the archiving.                                       *)
(***************************************************************************)
EXTENDS Books

FSE == INSTANCE FiniteSetsExt

CONSTANT Limits   \* credit limits the shopkeeper may write down

ASSUME LimitsAssumption == Limits \subseteq Nat \ {0}

VARIABLES
  limit,       \* credit_limit_paise, or NoLimit
  closing,     \* requests that are archiving the customer
  archived,    \* entries of the khata when it was read to archive him, or NotRead
  read         \* what each request decided on: entries of the khata, and the limit (history)

customerVars == <<limit, closing, archived, read>>
allVars == <<vars, customerVars>>

NoLimit == 0
NotRead == -1
Unread == [entries |-> NotRead, limit |-> NoLimit]
JustRead == [entries |-> Len(log[Khata]), limit |-> limit]

CustomerInit ==
  /\ Init
  /\ limit = NoLimit /\ closing = {} /\ archived = NotRead
  /\ read = [r \in Requests |-> Unread]

-----------------------------------------------------------------------------
(* Bills.                                                                  *)

\* r's step takes up a new bill.
Bills(r) == ~Running(r) /\ job'[r].op = "create"

\* (mutant) the credit of this bill is not counted
FitsBefore(credit) == balance[Khata] <= limit

Fits(credit) == balance[Khata] + credit <= limit

\* checkCreditLimit, of a bill that gives credit to a customer with a limit: over
\* it only with an override, which leaves a warning behind.
CheckCreditLimit(r) == \E override \in BOOLEAN :
  LET credit  == job'[r].posts[Khata]
      checked == credit > 0 /\ limit # NoLimit
  IN  /\ checked /\ ~Fits(credit) => override
      /\ read' = [read EXCEPT ![r] = IF checked /\ Fits(credit) THEN JustRead ELSE Unread]

\* A step of the books, whatever the customer's row says.
BookStep(r) ==
  /\ r \notin closing /\ RequestStep(r)
  /\ IF Bills(r) THEN CheckCreditLimit(r)
     ELSE read' = IF Running(r)' THEN read ELSE [read EXCEPT ![r] = Unread]
  /\ UNCHANGED <<limit, closing, archived>>

-----------------------------------------------------------------------------
(* The customer's row.                                                     *)

Arrives(r) ==
  /\ ~Running(r) /\ r \notin closing /\ begun < MaxRequests
  /\ begun' = begun + 1
  /\ UNCHANGED <<documents, accounts, owner, stage, job, todo, before, history>>

\* update, with a new limit or none: the row's own statement, read and written at once.
ChangeLimit(r) ==
  /\ Arrives(r)
  /\ limit' \in (Limits \cup {NoLimit}) \ {limit}
  /\ UNCHANGED <<closing, archived, read>>

\* archive of a customer who owes nothing as far as it reads.
BeginArchive(r) ==
  /\ archived = NotRead /\ balance[Khata] <= 0
  /\ Arrives(r)
  /\ closing' = closing \cup {r}
  /\ read' = [read EXCEPT ![r] = JustRead]
  /\ UNCHANGED <<limit, archived>>

\* It writes the row by its id, whatever was posted or archived since.
CommitArchive(r) ==
  /\ r \in closing
  /\ archived' = read[r].entries
  /\ closing' = closing \ {r}
  /\ read' = [read EXCEPT ![r] = Unread]
  /\ UNCHANGED <<vars, limit>>

AbortArchive(r) ==
  /\ r \in closing
  /\ closing' = closing \ {r}
  /\ read' = [read EXCEPT ![r] = Unread]
  /\ UNCHANGED <<vars, limit, archived>>

CustomerStep(r) == ChangeLimit(r) \/ BeginArchive(r) \/ CommitArchive(r) \/ AbortArchive(r)

CustomerNext == \E r \in Requests : BookStep(r) \/ CustomerStep(r)

CustomerSpec == CustomerInit /\ [][CustomerNext]_allVars

-----------------------------------------------------------------------------
(* The khata list.                                                         *)

OnCredit == {s \in Sales : status[s] = "COMPLETED" /\ Credit[s] > 0}

\* ageing: who owes, is not archived, and since which bill: the oldest one that
\* gave credit, paid since or not.
Ageing ==
  IF balance[Khata] <= 0 \/ archived # NotRead THEN {}
  ELSE {[owes |-> balance[Khata], since |-> IF OnCredit = {} THEN 0 ELSE FSE!Min(OnCredit)]}

-----------------------------------------------------------------------------
(* Properties.                                                             *)

\* The shape of the customer's state beside that of the books.
CustomerTypeOK ==
  /\ TypeOK
  /\ limit \in Limits \cup {NoLimit} /\ closing \subseteq Requests
  /\ archived \in Nat \cup {NotRead}
  /\ read \in [Requests -> [entries : Nat \cup {NotRead}, limit : Limits \cup {NoLimit}]]
  /\ \A r \in closing : ~Running(r) /\ read[r].entries # NotRead

AboutToBill(r) ==
  stage[r] = "locking" /\ job[r].op = "create" /\ Khata \in Needs(job[r]) \ todo[r]

\* A bill that asked for no override takes the khata past the limit it was
\* checked against only over an entry another request made meanwhile.
LimitIsKept ==
  \A r \in Requests :
    AboutToBill(r) /\ read[r].entries = Len(log[Khata]) =>
      before[r][Khata] + job[r].posts[Khata] <= read[r].limit

\* Archiving takes no debt off the khata list: one that is missing was made
\* after the archiving had read the balance.
DebtsAreListed == balance[Khata] > 0 /\ Ageing = {} => Len(log[Khata]) > archived

\* What was decided on the balance read without its lock - a bill within the
\* customer's limit, a customer who owes nothing - is undone by other requests'
\* entries alone, and never by what the request itself left out of account.
KhataReadsHold == LimitIsKept /\ DebtsAreListed
=============================================================================
