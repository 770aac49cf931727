------------------------------ MODULE Sessions ------------------------------
(***************************************************************************)
(* Sign-in and the rotation of refresh tokens (token.service, auth.service)*)
(* in the shop of Memberships.                                             *)
(*                                                                         *)
(* A refresh is four statements that commit one by one: read the session,  *)
(* look up the membership, revoke the token, insert its successor.  Other  *)
(* requests run between them, the server may stop between them, and the    *)
(* device may stop waiting at any time and send its token again.           *)
(*                                                                         *)
(* A token is its number in order of issue; a family is the number of its  *)
(* first token.  The device's side is the plain client the protocol is     *)
(* written for: it keeps the last token it was answered with.              *)
(***************************************************************************)
EXTENDS Memberships, Sequences

CONSTANTS
    Devices,        \* phones
    Requests,       \* sign-ins and refreshes that may run at the same time
    NoRequest,      \* a device that waits for no answer
    MaxRequests,    \* bound: sign-ins and refreshes in all
    MaxTokens       \* bound: tokens

ASSUME SessionsAssumption == NoRequest \notin Requests /\ MaxRequests \in Nat /\ MaxTokens \in Nat

VARIABLES
    session,        \* session rows, by token
    held,           \* the token a device keeps, 0 when it is signed out
    waiting,        \* the request a device waits for
    request,        \* how far each request has come
    requests,       \* requests so far
    overlapped,     \* families where two requests used one token
    closed,         \* families closed while no refresh of theirs was under way
    patient         \* devices that had every answer since they signed in

sessionVars == <<session, held, waiting, request, requests, overlapped, closed, patient>>
vars == <<memberVars, sessionVars>>

Idle   == [step |-> "idle"]
Tokens == DOMAIN session

TokensOf(f) == {t \in Tokens : session[t].family = f}
LiveOf(f)   == {t \in TokensOf(f) : session[t].live}

\* Refreshes of a family that have read their token and not yet inserted its successor.
UnderWay(f) == {q \in Requests : /\ request[q].step \in {"member", "revoke", "mint"}
                                 /\ request[q].family = f}

Init ==
    /\ MembershipInit
    /\ session = <<>>
    /\ held = [d \in Devices |-> 0]
    /\ waiting = [d \in Devices |-> NoRequest]
    /\ request = [q \in Requests |-> Idle]
    /\ requests = 0
    /\ overlapped = {}
    /\ closed = {}
    /\ patient = {}

-----------------------------------------------------------------------------
(* The device.                                                             *)

\* A device that waits for nothing sends a request; family 0 is still to be opened.
Send(d, q, token, user, family, step) ==
    /\ waiting[d] = NoRequest
    /\ request[q] = Idle
    /\ requests < MaxRequests
    /\ requests' = requests + 1
    /\ waiting' = [waiting EXCEPT ![d] = q]
    /\ request' = [request EXCEPT ![q] = [step |-> step, device |-> d, token |-> token,
                                          user |-> user, family |-> family]]
    /\ UNCHANGED <<session, held, overlapped, closed, patient>>

SendRefresh(d, q) ==
    /\ held[d] # 0
    /\ Send(d, q, held[d], session[held[d]].user, session[held[d]].family, "read")
    /\ UNCHANGED memberVars

\* With a phone and a password; the lookup of the membership is the next step.
SendLogin(d, q, u) ==
    /\ held[d] = 0
    /\ u \in account
    /\ Send(d, q, 0, u, 0, "member")
    /\ UNCHANGED memberVars

\* The account, the shop and the membership first, then a token.
SendRegister(d, q, u) ==
    /\ held[d] = 0
    /\ Register(u)
    /\ Send(d, q, 0, u, 0, "mint")

\* The answer arrives: a token, or an error after which the device is signed out.
Answer(q) ==
    LET d == request[q].device
        t == IF request[q].step = "minted" THEN request[q].token ELSE 0
    IN  /\ request[q].step \in {"minted", "refused"}
        /\ waiting[d] = q
        /\ held' = [held EXCEPT ![d] = t]
        /\ patient' = IF t # 0 /\ held[d] = 0 THEN patient \cup {d}
                      ELSE IF t = 0 THEN patient \ {d} ELSE patient
        /\ waiting' = [waiting EXCEPT ![d] = NoRequest]
        /\ request' = [request EXCEPT ![q] = Idle]
        /\ UNCHANGED <<session, requests, overlapped, closed, memberVars>>

\* The device stops waiting and keeps the token it has; the request goes on.
GiveUp(d) ==
    /\ waiting[d] # NoRequest
    /\ waiting' = [waiting EXCEPT ![d] = NoRequest]
    /\ patient' = patient \ {d}
    /\ UNCHANGED <<session, held, request, requests, overlapped, closed, memberVars>>

\* The server stops, or the answer is lost; what was written stays.
Lose(q) ==
    LET d == request[q].device IN
    /\ request[q] # Idle
    /\ request' = [request EXCEPT ![q] = Idle]
    /\ IF waiting[d] = q
       THEN /\ waiting' = [waiting EXCEPT ![d] = NoRequest]
            /\ patient' = patient \ {d}
       ELSE UNCHANGED <<waiting, patient>>
    /\ UNCHANGED <<session, held, requests, overlapped, closed, memberVars>>

-----------------------------------------------------------------------------
(* TokenService.                                                           *)

Revoked(tokens) == [t \in Tokens |-> [session[t] EXCEPT !.live = @ /\ t \notin tokens]]

\* A token that was used already closes its family; an expired one is refused.
ReadToken(q) ==
    LET row == session[request[q].token] IN
    /\ request[q].step = "read"
    /\ request' = [request EXCEPT ![q].step = IF ~row.live THEN "reuse"
                                              ELSE IF row.expired THEN "refused" ELSE "member"]
    /\ UNCHANGED <<session, held, waiting, requests, overlapped, closed, patient, memberVars>>

\* Mutant: only the token presented is revoked.
RevokeFamilyOne(q) ==
    /\ request[q].step = "reuse"
    /\ session' = Revoked({request[q].token})
    /\ closed' = IF UnderWay(request[q].family) = {} THEN closed \cup {request[q].family} ELSE closed
    /\ request' = [request EXCEPT ![q].step = "refused"]
    /\ UNCHANGED <<held, waiting, requests, overlapped, patient, memberVars>>

\* Mutant: every session of the user is revoked.
RevokeFamilyAll(q) ==
    /\ request[q].step = "reuse"
    /\ session' = Revoked({t \in Tokens : session[t].user = request[q].user})
    /\ closed' = IF UnderWay(request[q].family) = {} THEN closed \cup {request[q].family} ELSE closed
    /\ request' = [request EXCEPT ![q].step = "refused"]
    /\ UNCHANGED <<held, waiting, requests, overlapped, patient, memberVars>>

\* One statement for the family, then the error.
RevokeFamily(q) ==
    /\ request[q].step = "reuse"
    /\ session' = Revoked(TokensOf(request[q].family))
    /\ closed' = IF UnderWay(request[q].family) = {} THEN closed \cup {request[q].family} ELSE closed
    /\ request' = [request EXCEPT ![q].step = "refused"]
    /\ UNCHANGED <<held, waiting, requests, overlapped, patient, memberVars>>

\* findDefaultMembership, for a refresh and for a sign-in.
FindMembership(q) ==
    /\ request[q].step = "member"
    /\ request' = [request EXCEPT ![q].step = IF ~IsActive(request[q].user) THEN "refused"
                                              ELSE IF request[q].token = 0 THEN "mint" ELSE "revoke"]
    /\ UNCHANGED <<session, held, waiting, requests, overlapped, closed, patient, memberVars>>

\* Mutant: the token presented stays as it is.
RevokePresentedNot(q) ==
    /\ request[q].step = "revoke"
    /\ request' = [request EXCEPT ![q].step = "mint"]
    /\ UNCHANGED <<session, held, waiting, requests, overlapped, closed, patient, memberVars>>

\* By id, whether or not the row is still live.
RevokePresented(q) ==
    LET t == request[q].token IN
    /\ request[q].step = "revoke"
    /\ session' = Revoked({t})
    /\ overlapped' = IF session[t].live THEN overlapped ELSE overlapped \cup {request[q].family}
    /\ request' = [request EXCEPT ![q].step = "mint"]
    /\ UNCHANGED <<held, waiting, requests, closed, patient, memberVars>>

\* A token of the same family, or the first of a new one.
Mint(q) ==
    LET t == Len(session) + 1
        f == IF request[q].family = 0 THEN t ELSE request[q].family
    IN  /\ request[q].step = "mint"
        /\ t <= MaxTokens
        /\ session' = Append(session, [family |-> f, user |-> request[q].user, live |-> TRUE,
                                       expired |-> FALSE])
        /\ request' = [request EXCEPT ![q] = [@ EXCEPT !.step = "minted", !.token = t,
                                                       !.family = f]]
        /\ UNCHANGED <<held, waiting, requests, overlapped, closed, patient, memberVars>>

\* TokenService.revoke: the session of this token, if it is live, and no other.
Logout(d) ==
    LET t == held[d] IN
    /\ t # 0
    /\ waiting[d] = NoRequest
    /\ session' = Revoked({t})
    /\ closed' = IF LiveOf(session[t].family) = {t} /\ UnderWay(session[t].family) = {}
                 THEN closed \cup {session[t].family} ELSE closed
    /\ held' = [held EXCEPT ![d] = 0]
    /\ patient' = patient \ {d}
    /\ UNCHANGED <<waiting, request, requests, overlapped, memberVars>>

\* The sixty days are over.
Expire(t) ==
    /\ session[t].live /\ ~session[t].expired
    /\ session' = [session EXCEPT ![t].expired = TRUE]
    /\ UNCHANGED <<held, waiting, request, requests, overlapped, closed, patient, memberVars>>

-----------------------------------------------------------------------------
Next ==
    \/ MembershipNext /\ UNCHANGED sessionVars
    \/ \E d \in Devices : GiveUp(d) \/ Logout(d)
    \/ \E d \in Devices, q \in Requests :
          \/ SendRefresh(d, q)
          \/ \E u \in Users : SendLogin(d, q, u) \/ SendRegister(d, q, u)
    \/ \E q \in Requests :
          \/ ReadToken(q) \/ RevokeFamily(q) \/ FindMembership(q)
          \/ RevokePresented(q) \/ Mint(q)
          \/ Answer(q) \/ Lose(q)
    \/ \E t \in Tokens : Expire(t)

Spec == Init /\ [][Next]_vars

-----------------------------------------------------------------------------
(* Properties.                                                             *)

\* The shape of the state.
TypeOK ==
    /\ account \subseteq Users
    /\ \A u \in Users : /\ member[u].status \in {"none", "ACTIVE", "SUSPENDED", "REMOVED"}
                        /\ member[u].role \in Roles
                        /\ member[u].status # "none" => u \in account
    /\ \A t \in Tokens : /\ session[t].family \in 1..t
                         /\ session[session[t].family].family = session[t].family
                         /\ session[t].user = session[session[t].family].user
                         /\ session[t].user \in account
    /\ held \in [Devices -> Tokens \cup {0}]
    /\ waiting \in [Devices -> Requests \cup {NoRequest}]
    /\ \A q \in Requests : request[q].step \in {"idle", "read", "reuse", "member", "revoke",
                                                "mint", "minted", "refused"}
    /\ patient \subseteq {d \in Devices : held[d] # 0}

\* At most one token of a family is live - what reuse detection rests on - unless two requests
\* used the same token at once, which the unconditional update of rotate lets both win.
OneLivePerFamily ==
    \A t, s \in Tokens :
        session[t].live /\ session[s].live /\ session[t].family = session[s].family =>
            t = s \/ session[t].family \in overlapped

\* A family that reuse detection or a logout closed has no live token ever after, unless a
\* refresh of it was under way at that moment: its insert comes after the update.
ClosedStaysClosed == \A f \in closed : LiveOf(f) = {}

\* A device that had every answer is never signed out by the protocol: whenever it waits for
\* nothing, the token it keeps is live.
PatientStaysSignedIn ==
    \A d \in patient : waiting[d] = NoRequest => session[held[d]].live
=============================================================================
