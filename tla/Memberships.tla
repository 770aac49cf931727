----------------------------- MODULE Memberships -----------------------------
(***************************************************************************)
(* Who may do what in one shop: the role matrix (rbac/matrix.ts), the      *)
(* memberships and the requests that change them (memberships.service),    *)
(* registration, and the permissions a request is let in with (auth.guard).*)
(*                                                                         *)
(* A change is let in, reads the membership and writes it later; two       *)
(* changes may overlap.  A permission stands for those the matrix treats   *)
(* like it.                                                                *)
(***************************************************************************)
EXTENDS Naturals, FiniteSets

CONSTANTS
    Users,          \* people with a phone
    Changes,        \* changes of memberships that may run at the same time
    MaxChanges,     \* bound: changes in all
    InvitedAs,      \* roles people are invited with
    Sent            \* updates people send: [role, status, overrides]

VARIABLES
    account,        \* the people who have an account
    member,         \* shop_membership, by user
    change,         \* the changes being made
    changes         \* changes so far

memberVars == <<account, member, change, changes>>

-----------------------------------------------------------------------------
(* The matrix.                                                             *)

Roles == {"OWNER", "MANAGER", "CASHIER"}

\* What the schemas let through: "same" stands for what an update leaves out.
ASSUME MembershipsAssumption ==
    /\ InvitedAs \subseteq Roles
    /\ \A sent \in Sent : /\ sent.role \in Roles \cup {"same"}
                          /\ sent.status \in {"same", "ACTIVE", "SUSPENDED", "REMOVED"}

\* sale.create for everybody, sale.cancel for the first two, customer.ledger.adjust and
\* employee.manage for the owner, and to be granted to a manager, subscription.manage for the
\* owner alone.
Permissions == {"sale.create", "sale.cancel", "customer.ledger.adjust", "employee.manage",
                "subscription.manage"}

RoleDefaults == [OWNER   |-> Permissions,
                 MANAGER |-> {"sale.create", "sale.cancel"},
                 CASHIER |-> {"sale.create"}]

\* What a role may never hold.
RoleCeiling == [OWNER   |-> {},
                MANAGER |-> {"subscription.manage"},
                CASHIER |-> {"customer.ledger.adjust", "employee.manage", "subscription.manage"}]

\* resolveEffectivePermissions: the ceiling comes last.
Effective(m) ==
    ((RoleDefaults[m.role] \cup m.overrides.grant) \ m.overrides.revoke) \ RoleCeiling[m.role]

IsGrantable(role, permission) == permission \notin RoleCeiling[role]

-----------------------------------------------------------------------------
(* Memberships.                                                            *)

NoOverrides == [grant |-> {}, revoke |-> {}]
NoMember    == [status |-> "none", role |-> "CASHIER", overrides |-> NoOverrides]
NewMember(role) == [status |-> "ACTIVE", role |-> role, overrides |-> NoOverrides]
NoChange    == [kind |-> "none"]

IsActive(u) == member[u].status = "ACTIVE"
Owners      == {u \in Users : IsActive(u) /\ member[u].role = "OWNER"}

\* The guard: an active member who holds the permission now.
LetIn(u, permission) == IsActive(u) /\ permission \in Effective(member[u])

MembershipInit ==
    /\ account = {}
    /\ member = [u \in Users |-> NoMember]
    /\ change = [w \in Changes |-> NoChange]
    /\ changes = 0

Begin(w, job) ==
    /\ change[w] = NoChange
    /\ changes < MaxChanges
    /\ changes' = changes + 1
    /\ change' = [change EXCEPT ![w] = job]

Finish(w) ==
    /\ change' = [change EXCEPT ![w] = NoChange]
    /\ UNCHANGED changes

\* The first person to come makes the shop, in one transaction.
Register(u) ==
    /\ u \notin account
    /\ \A v \in Users : member[v] = NoMember
    /\ account' = account \cup {u}
    /\ member' = [member EXCEPT ![u] = NewMember("OWNER")]
    /\ UNCHANGED <<change, changes>>

\* Mutant: the account is left to be made.
BeginInviteLater(w, actor, u, role) ==
    /\ LetIn(actor, "employee.manage")
    /\ member[u].status \in {"none", "REMOVED"}
    /\ Begin(w, [kind |-> "invite", actor |-> actor, target |-> u, role |-> role])
    /\ UNCHANGED <<account, member>>

\* The account is made at once, outside the transaction of the request.
BeginInvite(w, actor, u, role) ==
    /\ LetIn(actor, "employee.manage")
    /\ member[u].status \in {"none", "REMOVED"}
    /\ account' = account \cup {u}
    /\ Begin(w, [kind |-> "invite", actor |-> actor, target |-> u, role |-> role])
    /\ UNCHANGED member

\* A second row of the same person, even of one who was removed, hits the unique index.
CommitInvite(w) ==
    LET c == change[w] IN
    /\ c.kind = "invite"
    /\ member[c.target].status = "none"
    /\ member' = [member EXCEPT ![c.target] = NewMember(c.role)]
    /\ Finish(w)
    /\ UNCHANGED account

\* Mutant: people may change themselves.
MayChangeAnyone(actor, u, sent) == TRUE

\* Nobody changes their own role or status.
MayChange(actor, u, sent) == u = actor => sent.role = "same" /\ sent.status = "same"

\* "same" and {} stand for what the update leaves out.  What it grants must be grantable to the
\* role the member will have.
BeginUpdate(w, actor, u, sent) ==
    LET role == IF sent.role = "same" THEN member[u].role ELSE sent.role IN
    /\ LetIn(actor, "employee.manage")
    /\ member[u].status # "none"
    /\ MayChange(actor, u, sent)
    /\ \A o \in sent.overrides : \A p \in o.grant : IsGrantable(role, p)
    /\ Begin(w, [kind |-> "update", actor |-> actor, target |-> u, sent |-> sent])
    /\ UNCHANGED <<account, member>>

CommitUpdate(w) ==
    LET c == change[w] IN
    /\ c.kind = "update"
    /\ member' = [member EXCEPT
          ![c.target] = [status    |-> IF c.sent.status = "same" THEN @.status ELSE c.sent.status,
                         role      |-> IF c.sent.role = "same" THEN @.role ELSE c.sent.role,
                         overrides |-> IF c.sent.overrides = {} THEN @.overrides
                                       ELSE CHOOSE o \in c.sent.overrides : TRUE]]
    /\ Finish(w)
    /\ UNCHANGED account

\* An exception, a unique index, a timeout: the transaction is rolled back.
Drop(w) ==
    /\ change[w] # NoChange
    /\ Finish(w)
    /\ UNCHANGED <<account, member>>

MembershipNext ==
    \/ \E u \in Users : Register(u)
    \/ \E w \in Changes :
          \/ \E actor, u \in Users, role \in InvitedAs : BeginInvite(w, actor, u, role)
          \/ CommitInvite(w)
          \/ \E actor, u \in Users, sent \in Sent : BeginUpdate(w, actor, u, sent)
          \/ CommitUpdate(w)
          \/ Drop(w)

\* A shop that has an owner keeps one: the last is never taken away by a change whose author is
\* an owner when it is written.  (It can be by a member who is not - employee.manage can be
\* granted to a manager - or by two owners who change each other at once.)
ShopKeepsAnOwner ==
    [][Owners # {} /\ Owners' = {} =>
          \E w \in Changes : /\ change[w].kind = "update"
                             /\ change'[w] = NoChange
                             /\ change[w].actor \notin Owners]_memberVars
=============================================================================
