---------------------------- MODULE SessionsProofs ----------------------------
(***************************************************************************)
(* For any phones, people, requests and tokens:                            *)
(*                                                                         *)
(*   OneLiveToken    a family has one live token (unless two overlapped)   *)
(*   ClosedForGood   a closed family stays closed (unless one was under    *)
(*                   way)                                                  *)
(*   PatientStayIn   a device that had every answer stays signed in        *)
(*   OwnersRemain    no owner of the moment takes away the last one        *)
(*   TypeCorrect     the state keeps its shape                             *)
(*                                                                         *)
(* The first three are conjuncts of SInv, or follow from one.  The idea is *)
(* that a family is with one device (Apart): its token in `held` and the   *)
(* requests that work for it are of the same phone, although a phone that  *)
(* gave up has left requests behind.  So nothing but its own requests      *)
(* changes a family (OthersStay); a phone that never gave up has at most   *)
(* the request it waits for, whose steps PatientOK follows one by one, and *)
(* a phone signs in with a family nobody else works for (SignInOK).  A     *)
(* family that is to get a token has no live one (MintOK), which is what   *)
(* keeps it from forking.                                                  *)
(***************************************************************************)
EXTENDS Sessions, SequenceTheorems, TLAPS

\* A request that is not idle, and a session row.
Steps   == {"read", "reuse", "member", "revoke", "mint", "minted", "refused"}
Request == [step : Steps, device : Devices, token : Nat, user : Users, family : Nat]
Row     == [family : Nat, user : Users, live : BOOLEAN, expired : BOOLEAN]

\* Requests and devices by the family they are about.
Running(q)  == request[q].step # "idle"
Works(q, f) == Running(q) /\ request[q].family = f
Has(d, f)   == held[d] # 0 /\ session[held[d]].family = f

\* The types, without what is said of accounts.
ShapeOK ==
    /\ session \in Seq(Row)
    /\ \A t \in Tokens : session[t].family \in 1..t
    /\ held \in [Devices -> Tokens \cup {0}]
    /\ waiting \in [Devices -> Requests \cup {NoRequest}]
    /\ request \in [Requests -> Request \cup {Idle}]
    /\ closed \subseteq Tokens
    /\ patient \subseteq Devices

\* A request is about a token of its family, or opens a family.
RequestsOK ==
    \A q \in Requests : Running(q) =>
        \/ request[q].token \in Tokens /\ request[q].family = session[request[q].token].family
        \/ /\ request[q].token = 0 /\ request[q].family = 0
           /\ request[q].step \in {"member", "mint", "refused"}

\* The request a device waits for is running, and its own.
WaitingOK ==
    \A d \in Devices : waiting[d] # NoRequest =>
        Running(waiting[d]) /\ request[waiting[d]].device = d

\* While a family is to get its next token it has none that is live, and gets one.
MintOK ==
    \A q \in Requests :
        request[q].step = "mint" /\ request[q].family \in Tokens \ overlapped =>
            /\ \A t \in Tokens : session[t].family = request[q].family => ~session[t].live
            /\ \A p \in Requests :
                  request[p].step = "mint" /\ request[p].family = request[q].family => p = q

\* Nothing that is still to insert a token works for a closed family.
ClosedOK ==
    \A q \in Requests :
        request[q].step \in {"member", "revoke", "mint"} => request[q].family \notin closed

\* The devices a family is with.
Touches(d, f) == Has(d, f) \/ \E q \in Requests : Works(q, f) /\ request[q].device = d

\* And it is one.
Apart == \A f \in Tokens : \A d, e \in Devices : Touches(d, f) /\ Touches(e, f) => d = e

\* A device without a token waits for a sign-in.
SignInOK ==
    \A d \in Devices : waiting[d] # NoRequest /\ held[d] = 0 =>
        LET r == request[waiting[d]] IN
        \/ r.token = 0
        \/ /\ r.step = "minted" /\ session[r.token].live
           /\ \A q \in Requests : Works(q, r.family) => q = waiting[d]

\* A patient device's family has no request but the one it waits for, whose next token is live
\* when it comes.
PatientOK ==
    \A d \in patient :
        /\ held[d] # 0
        /\ \A q \in Requests : Works(q, session[held[d]].family) => q = waiting[d]
        /\ waiting[d] = NoRequest => session[held[d]].live
        /\ waiting[d] # NoRequest =>
              LET r == request[waiting[d]] IN
              /\ r.family = session[held[d]].family
              /\ r.step # "reuse"
              /\ r.step \in {"read", "member", "revoke"} => r.token = held[d] /\ session[held[d]].live
              /\ r.step = "minted" => session[r.token].live

RInv == ShapeOK /\ RequestsOK /\ WaitingOK
SInv == /\ RInv
        /\ OneLivePerFamily /\ MintOK
        /\ ClosedStaysClosed /\ ClosedOK
        /\ Apart /\ SignInOK /\ PatientOK

-----------------------------------------------------------------------------
(* What a step does to the tokens.                                         *)

\* An update that revokes changes no row but for its `live`.
LEMMA RevokedFacts ==
    ASSUME session \in Seq(Row), NEW S
    PROVE  /\ Revoked(S) \in Seq(Row)
           /\ DOMAIN Revoked(S) = Tokens
           /\ Len(Revoked(S)) = Len(session)
           /\ \A t \in Tokens : /\ Revoked(S)[t].family = session[t].family
                                /\ Revoked(S)[t].user = session[t].user
                                /\ Revoked(S)[t].live <=> session[t].live /\ t \notin S
<1>1. Tokens = 1..Len(session) /\ Len(session) \in Nat
    BY DEF Tokens
<1>2. \A t \in Tokens : session[t] \in Row
    BY <1>1
<1>3. \A t \in Tokens : Revoked(S)[t] = [session[t] EXCEPT !.live = session[t].live /\ t \notin S]
    BY DEF Revoked
<1>4. \A t \in Tokens : Revoked(S)[t] \in Row
    BY <1>2, <1>3, Zenon DEF Row
<1>5. Revoked(S) \in [1..Len(session) -> Row]
    BY <1>1, <1>4 DEF Revoked
<1>6. Revoked(S) \in Seq(Row) /\ Len(Revoked(S)) = Len(session) /\ DOMAIN Revoked(S) = Tokens
    BY <1>1, <1>5
<1>7. ASSUME NEW t \in Tokens
      PROVE  /\ Revoked(S)[t].family = session[t].family
             /\ Revoked(S)[t].user = session[t].user
             /\ Revoked(S)[t].live <=> session[t].live /\ t \notin S
    BY <1>2, <1>3 DEF Row
<1> QED
    BY <1>6, <1>7

-----------------------------------------------------------------------------
(* Shape.                                                                  *)

LEMMA IdleFacts == Idle.step = "idle" /\ Idle \notin Request
BY DEF Idle, Request, Steps

LEMMA RequestFacts ==
    ASSUME ShapeOK, NEW q \in Requests
    PROVE  /\ Running(q) <=> request[q] \in Request
           /\ ~Running(q) <=> request[q] = Idle
           /\ request[q] \in Request =>
                /\ request[q].step \in Steps /\ request[q].device \in Devices
                /\ request[q].token \in Nat /\ request[q].user \in Users
                /\ request[q].family \in Nat
BY IdleFacts DEF ShapeOK, Running, Request, Steps

LEMMA TokenFacts ==
    ASSUME ShapeOK
    PROVE  /\ Len(session) \in Nat /\ Tokens = 1..Len(session)
           /\ 0 \notin Tokens /\ Len(session) + 1 \notin Tokens
           /\ \A t \in Tokens : session[t] \in Row /\ session[t].family \in Tokens
BY DEF ShapeOK, Tokens

LEMMA SendKeeps ==
    ASSUME RInv, NEW d \in Devices, NEW q \in Requests, NEW token \in Nat, NEW user \in Users,
           NEW family \in Nat, NEW step \in Steps, Send(d, q, token, user, family, step),
           \/ token \in Tokens /\ family = session[token].family
           \/ token = 0 /\ family = 0 /\ step \in {"member", "mint", "refused"}
    PROVE  RInv'
<1> DEFINE new == [step |-> step, device |-> d, token |-> token, user |-> user, family |-> family]
<1>1. /\ request' = [request EXCEPT ![q] = new] /\ request[q] = Idle /\ new \in Request
      /\ waiting' = [waiting EXCEPT ![d] = q] /\ Tokens' = Tokens
    BY DEF Send, Request, Tokens
<1>2. ShapeOK'
    BY <1>1 DEF RInv, ShapeOK, Send
<1>3. RequestsOK'
    BY <1>1 DEF RInv, RequestsOK, Running, ShapeOK, Send
<1>4. WaitingOK'
    BY <1>1, IdleFacts, SessionsAssumption DEF RInv, WaitingOK, Running, ShapeOK, Steps
<1> QED
    BY <1>2, <1>3, <1>4 DEF RInv

\* A request that only moves on, or ends.
LEMMA MoveKeeps ==
    ASSUME RInv, NEW q \in Requests, NEW step \in Steps, request[q] \in Request,
           request' = [request EXCEPT ![q].step = step],
           request[q].token = 0 => step \in {"member", "mint", "refused"},
           UNCHANGED <<held, waiting, patient>>,
           Tokens' = Tokens, session' \in Seq(Row),
           \A t \in Tokens : session'[t].family = session[t].family,
           closed' \subseteq Tokens
    PROVE  RInv'
<1>1. /\ request'[q] \in Request /\ request'[q].step = step
      /\ request'[q].token = request[q].token /\ request'[q].family = request[q].family
      /\ request'[q].device = request[q].device
      /\ \A p \in Requests \ {q} : request'[p] = request[p]
      /\ request' \in [Requests -> Request \cup {Idle}]
    BY DEF RInv, ShapeOK, Request
<1>2. ShapeOK'
    BY <1>1 DEF RInv, ShapeOK
<1>3. Running(q) /\ Running(q)' /\ \A p \in Requests \ {q} : Running(p)' <=> Running(p)
    BY <1>1, RequestFacts DEF RInv, Running, Steps
<1>4. RequestsOK'
    BY <1>1, <1>3 DEF RInv, RequestsOK
<1>5. WaitingOK'
    BY <1>1, <1>3, SessionsAssumption DEF RInv, WaitingOK, ShapeOK
<1> QED
    BY <1>2, <1>4, <1>5 DEF RInv

\* A request that is over.
LEMMA EndKeeps ==
    ASSUME RInv, NEW q \in Requests, Running(q),
           request' = [request EXCEPT ![q] = Idle],
           \A d \in Devices : waiting'[d] = IF waiting[d] = q THEN NoRequest ELSE waiting[d],
           waiting' \in [Devices -> Requests \cup {NoRequest}],
           held' \in [Devices -> Tokens \cup {0}], patient' \subseteq Devices,
           UNCHANGED <<session, closed>>
    PROVE  RInv'
<1>1. /\ ~Running(q)' /\ Tokens' = Tokens
      /\ \A p \in Requests \ {q} : request'[p] = request[p]
      /\ request' \in [Requests -> Request \cup {Idle}]
    BY IdleFacts DEF RInv, ShapeOK, Running, Tokens
<1>2. ShapeOK'
    BY <1>1 DEF RInv, ShapeOK
<1>3. RequestsOK'
    BY <1>1 DEF RInv, RequestsOK, Running
<1>4. WaitingOK'
    BY <1>1, SessionsAssumption DEF RInv, WaitingOK, ShapeOK, Running
<1> QED
    BY <1>2, <1>3, <1>4 DEF RInv

\* Requests and what they wait for are as they were.
LEMMA DeviceKeeps ==
    ASSUME RInv, UNCHANGED request,
           \A d \in Devices : waiting'[d] \in {waiting[d], NoRequest},
           waiting' \in [Devices -> Requests \cup {NoRequest}],
           held' \in [Devices -> Tokens \cup {0}], patient' \subseteq Devices,
           Tokens' = Tokens, session' \in Seq(Row),
           \A t \in Tokens : session'[t].family = session[t].family,
           closed' \subseteq Tokens
    PROVE  RInv'
<1>1. ShapeOK'
    BY DEF RInv, ShapeOK
<1>2. RequestsOK'
    BY DEF RInv, RequestsOK, Running
<1>3. WaitingOK'
    BY SessionsAssumption DEF RInv, WaitingOK, ShapeOK, Running
<1> QED
    BY <1>1, <1>2, <1>3 DEF RInv

\* The token a request ends in: of its family, or the first of a new one.
LEMMA MintFacts ==
    ASSUME RInv, NEW q \in Requests, Mint(q)
    PROVE  LET t == Len(session) + 1
               f == IF request[q].family = 0 THEN t ELSE request[q].family
           IN  /\ request[q] \in Request /\ request[q].step = "mint"
               /\ t \in Nat /\ f \in 1..t /\ (f \in Tokens => f = request[q].family)
               /\ session' \in Seq(Row) /\ Tokens' = Tokens \cup {t}
               /\ \A s \in Tokens : session'[s] = session[s]
               /\ session'[t].family = f /\ session'[t].live
               /\ request' \in [Requests -> Request \cup {Idle}]
               /\ request'[q] \in Request /\ request'[q].step = "minted"
               /\ request'[q].token = t /\ request'[q].family = f
               /\ request'[q].device = request[q].device
               /\ \A p \in Requests \ {q} : request'[p] = request[p]
               /\ UNCHANGED <<held, waiting, overlapped, closed, patient>>
<1> DEFINE t   == Len(session) + 1
           f   == IF request[q].family = 0 THEN t ELSE request[q].family
           row == [family |-> f, user |-> request[q].user, live |-> TRUE, expired |-> FALSE]
<1>1. request[q].step = "mint" /\ Running(q)
    BY DEF Mint, Running
<1>2. request[q] \in Request
    BY <1>1, RequestFacts DEF RInv
<1>3. Len(session) \in Nat /\ Tokens = 1..Len(session) /\ t \notin Tokens
    BY TokenFacts DEF RInv
<1>4. request[q].family \in Tokens \cup {0}
    BY <1>1, TokenFacts DEF RInv, RequestsOK
<1>5. f \in 1..t /\ (f \in Tokens => f = request[q].family)
    BY <1>3, <1>4
<1>6. row \in Row
    BY <1>2, <1>3, <1>5, RequestFacts DEF RInv, Row
<1>7. session' = Append(session, row) /\ session \in Seq(Row)
    BY DEF Mint, RInv, ShapeOK
<1>8. /\ session' \in Seq(Row) /\ Len(session') = t
      /\ \A s \in Tokens : session'[s] = session[s]
      /\ session'[t] = row
    BY <1>3, <1>6, <1>7
<1>9. Tokens' = Tokens \cup {t}
    BY <1>3, <1>8 DEF Tokens
<1>10. /\ request' \in [Requests -> Request \cup {Idle}]
       /\ request'[q] \in Request /\ request'[q].step = "minted"
       /\ request'[q].token = t /\ request'[q].family = f
       /\ request'[q].device = request[q].device
       /\ \A p \in Requests \ {q} : request'[p] = request[p]
    <2> DEFINE new == [request[q] EXCEPT !.step = "minted", !.token = t, !.family = f]
    <2>1. request' = [request EXCEPT ![q] = new]
        BY DEF Mint
    <2>2. t \in Nat /\ f \in Nat
        BY <1>3, <1>5
    <2> HIDE DEF t, f
    <2>3. /\ new \in Request /\ new.step = "minted" /\ new.token = t /\ new.family = f
          /\ new.device = request[q].device
        BY <1>2, <2>2 DEF Request, Steps
    <2> HIDE DEF new
    <2> QED
        BY <2>1, <2>3 DEF RInv, ShapeOK
<1>11. UNCHANGED <<held, waiting, overlapped, closed, patient>>
    BY DEF Mint
<1> QED
    BY <1>1, <1>2, <1>3, <1>5, <1>8, <1>9, <1>10, <1>11

LEMMA MintKeepsShape ==
    ASSUME RInv, NEW q \in Requests, Mint(q)
    PROVE  RInv'
<1> DEFINE t == Len(session) + 1
           f == IF request[q].family = 0 THEN t ELSE request[q].family
<1>1. t \notin Tokens
    BY TokenFacts DEF RInv
<1>2. ShapeOK'
    BY <1>1, MintFacts DEF RInv, ShapeOK
<1>3. Running(q) /\ Running(q)' /\ \A p \in Requests \ {q} : Running(p)' <=> Running(p)
    BY MintFacts DEF RInv, Running
<1>4. RequestsOK'
    BY <1>1, <1>3, MintFacts DEF RInv, RequestsOK
<1>5. WaitingOK'
    BY <1>3, MintFacts, SessionsAssumption DEF RInv, WaitingOK, ShapeOK
<1> QED
    BY <1>2, <1>4, <1>5 DEF RInv

-----------------------------------------------------------------------------
(* Rows keep their family, and but for the one that is minted none is      *)
(* there that was not, nor alive that was not.                             *)

Frame ==
    /\ session' \in Seq(Row) /\ Tokens' = Tokens
    /\ \A t \in Tokens : /\ session'[t].family = session[t].family
                         /\ session'[t].live => session[t].live

LEMMA SameFrame ==
    ASSUME ShapeOK, UNCHANGED session
    PROVE  Frame
BY DEF Frame, ShapeOK, Tokens

LEMMA RevokedFrame ==
    ASSUME ShapeOK, NEW S, session' = Revoked(S)
    PROVE  Frame
BY RevokedFacts DEF Frame, ShapeOK, Tokens

LEMMA ExpireFrame ==
    ASSUME ShapeOK, NEW t \in Tokens, Expire(t)
    PROVE  Frame
<1>1. session[t] \in Row /\ session' = [session EXCEPT ![t].expired = TRUE]
    BY TokenFacts DEF Expire
<1> DEFINE row == [session[t] EXCEPT !.expired = TRUE]
<1>2. row \in Row /\ row.family = session[t].family /\ row.live = session[t].live
    BY <1>1 DEF Row
<1>3. session' = [session EXCEPT ![t] = row]
    BY <1>1
<1> HIDE DEF row
<1>4. session' \in Seq(Row) /\ Tokens' = Tokens
    BY <1>2, <1>3 DEF ShapeOK, Tokens
<1>5. \A s \in Tokens : session'[s] = IF s = t THEN row ELSE session[s]
    BY <1>3 DEF Tokens
<1> QED
    BY <1>2, <1>4, <1>5 DEF Frame

\* The steps of a request that only go on to another of its statements.
Going(q) == ReadToken(q) \/ RevokeFamily(q) \/ FindMembership(q) \/ RevokePresented(q)

LEMMA GoingFacts ==
    ASSUME RInv, NEW q \in Requests, Going(q)
    PROVE  /\ Running(q) /\ request[q] \in Request /\ Frame
           /\ request'[q].step \in Steps
           /\ request' = [request EXCEPT ![q].step = request'[q].step]
           /\ request'[q] \in Request /\ request'[q].device = request[q].device
           /\ request'[q].token = request[q].token /\ request'[q].family = request[q].family
           /\ \A p \in Requests \ {q} : request'[p] = request[p]
           /\ request[q].token = 0 => request'[q].step \in {"member", "mint", "refused"}
           /\ closed' \subseteq Tokens
           /\ UNCHANGED <<held, waiting, patient>>
<1>1. Running(q) /\ request[q] \in Request
    BY RequestFacts DEF RInv, Going, ReadToken, RevokeFamily, FindMembership, RevokePresented, Running
<1>2. request[q].token = 0 => request[q].step \in {"member", "mint", "refused"}
    BY <1>1, TokenFacts DEF RInv, RequestsOK
<1>3. UNCHANGED <<held, waiting, patient>>
    BY DEF Going, ReadToken, RevokeFamily, FindMembership, RevokePresented
<1>4. Frame
    BY SameFrame, RevokedFrame
       DEF RInv, Going, ReadToken, RevokeFamily, FindMembership, RevokePresented
<1>5. closed' \subseteq Tokens
    <2>1. CASE RevokeFamily(q)
        <3>1. request[q].family \in Tokens
            BY <2>1, <1>1, TokenFacts DEF RInv, RequestsOK, RevokeFamily
        <3> QED
            BY <2>1, <3>1 DEF RInv, ShapeOK, RevokeFamily
    <2> QED
        BY <2>1 DEF RInv, ShapeOK, Going, ReadToken, FindMembership, RevokePresented
<1>6. \E step \in Steps : /\ request' = [request EXCEPT ![q].step = step]
                          /\ request[q].token = 0 => step \in {"member", "mint", "refused"}
    <2>1. CASE ReadToken(q)
        BY <2>1, <1>2 DEF ReadToken, Steps
    <2>2. CASE RevokeFamily(q)
        BY <2>2, <1>2 DEF RevokeFamily, Steps
    <2>3. CASE FindMembership(q)
        BY <2>3, <1>2 DEF FindMembership, Steps
    <2>4. CASE RevokePresented(q)
        BY <2>4, <1>2 DEF RevokePresented, Steps
    <2> QED
        BY <2>1, <2>2, <2>3, <2>4 DEF Going
<1>7. PICK step \in Steps : /\ request' = [request EXCEPT ![q].step = step]
                            /\ request[q].token = 0 => step \in {"member", "mint", "refused"}
    BY <1>6
<1>8. /\ request'[q].step = step /\ request'[q] \in Request
      /\ request'[q].device = request[q].device /\ request'[q].token = request[q].token
      /\ request'[q].family = request[q].family
      /\ \A p \in Requests \ {q} : request'[p] = request[p]
    BY <1>1, <1>7 DEF RInv, ShapeOK, Request
<1> QED
    BY <1>1, <1>3, <1>4, <1>5, <1>7, <1>8

LEMMA GoingKeeps ==
    ASSUME RInv, NEW q \in Requests, Going(q)
    PROVE  RInv'
BY GoingFacts, MoveKeeps DEF Frame

LEMMA SendsKeep ==
    ASSUME RInv, NEW d \in Devices, NEW q \in Requests
    PROVE  /\ SendRefresh(d, q) => RInv'
           /\ \A u \in Users : SendLogin(d, q, u) \/ SendRegister(d, q, u) => RInv'
<1>1. ASSUME SendRefresh(d, q) PROVE RInv'
    <2>1. held[d] \in Tokens /\ held[d] \in Nat
        BY <1>1, TokenFacts DEF RInv, ShapeOK, SendRefresh
    <2>2. session[held[d]].user \in Users /\ session[held[d]].family \in Nat
        BY <2>1, TokenFacts DEF RInv, Row
    <2> QED
        BY <1>1, <2>1, <2>2, SendKeeps DEF SendRefresh, Steps
<1>2. ASSUME NEW u \in Users, SendLogin(d, q, u) PROVE RInv'
    BY <1>2, SendKeeps DEF SendLogin, Steps
<1>3. ASSUME NEW u \in Users, SendRegister(d, q, u) PROVE RInv'
    BY <1>3, SendKeeps DEF SendRegister, Steps
<1> QED
    BY <1>1, <1>2, <1>3

LEMMA AnswerKeeps ==
    ASSUME RInv, NEW q \in Requests, Answer(q)
    PROVE  RInv'
<1> DEFINE d == request[q].device
           t == IF request[q].step = "minted" THEN request[q].token ELSE 0
<1>1. Running(q) /\ request[q] \in Request /\ d \in Devices
    BY RequestFacts DEF RInv, Answer, Running
<1>2. t \in Tokens \cup {0}
    BY <1>1, TokenFacts DEF RInv, RequestsOK
<1>3. held' \in [Devices -> Tokens \cup {0}] /\ patient' \subseteq Devices
    BY <1>1, <1>2 DEF RInv, ShapeOK, Answer
<1>4. waiting' = [waiting EXCEPT ![d] = NoRequest] /\ waiting[d] = q
    BY DEF Answer
<1>5. \A e \in Devices : waiting'[e] = IF waiting[e] = q THEN NoRequest ELSE waiting[e]
    BY <1>1, <1>4, SessionsAssumption DEF RInv, ShapeOK, WaitingOK
<1>6. waiting' \in [Devices -> Requests \cup {NoRequest}]
    BY <1>1, <1>4 DEF RInv, ShapeOK
<1> QED
    BY <1>1, <1>3, <1>5, <1>6, EndKeeps DEF Answer

LEMMA LoseKeeps ==
    ASSUME RInv, NEW q \in Requests, Lose(q)
    PROVE  RInv'
<1> DEFINE d == request[q].device
<1>1. Running(q) /\ request[q] \in Request /\ d \in Devices
    BY RequestFacts DEF RInv, Lose
<1>2. waiting' \in [Devices -> Requests \cup {NoRequest}] /\ patient' \subseteq Devices
    BY <1>1 DEF RInv, ShapeOK, Lose
<1>3. \A e \in Devices : waiting'[e] = IF waiting[e] = q THEN NoRequest ELSE waiting[e]
    BY <1>1, SessionsAssumption DEF RInv, ShapeOK, WaitingOK, Lose
<1> QED
    BY <1>1, <1>2, <1>3, EndKeeps DEF Lose, RInv, ShapeOK

LEMMA GiveUpKeeps ==
    ASSUME RInv, NEW d \in Devices, GiveUp(d)
    PROVE  RInv'
BY DeviceKeeps DEF RInv, ShapeOK, GiveUp, Tokens

\* What a logout revokes is the one token the device keeps.
LEMMA LogoutFacts ==
    ASSUME RInv, NEW d \in Devices, Logout(d)
    PROVE  /\ held[d] \in Tokens /\ waiting[d] = NoRequest
           /\ Frame /\ ~session'[held[d]].live
           /\ held' = [held EXCEPT ![d] = 0] /\ patient' = patient \ {d}
           /\ closed' = closed \/ /\ closed' = closed \cup {session[held[d]].family}
                                  /\ LiveOf(session[held[d]].family) = {held[d]}
                                  /\ UnderWay(session[held[d]].family) = {}
           /\ UNCHANGED <<waiting, request, overlapped>>
<1>1. held[d] \in Tokens
    BY DEF RInv, ShapeOK, Logout
<1>2. session' = Revoked({held[d]})
    BY DEF Logout
<1>3. Frame
    BY <1>2, RevokedFrame DEF RInv
<1>4. ~session'[held[d]].live
    BY <1>1, <1>2, RevokedFacts DEF RInv, ShapeOK
<1>5. UNCHANGED <<waiting, request, overlapped>> /\ waiting[d] = NoRequest
    BY DEF Logout
<1>6. held' = [held EXCEPT ![d] = 0] /\ patient' = patient \ {d}
    BY DEF Logout
<1>7. \/ closed' = closed
      \/ /\ closed' = closed \cup {session[held[d]].family}
         /\ LiveOf(session[held[d]].family) = {held[d]}
         /\ UnderWay(session[held[d]].family) = {}
    BY DEF Logout
<1> QED
    BY <1>1, <1>3, <1>4, <1>5, <1>6, <1>7

LEMMA LogoutKeeps ==
    ASSUME RInv, NEW d \in Devices, Logout(d)
    PROVE  RInv'
<1>1. session[held[d]].family \in Tokens
    BY LogoutFacts, TokenFacts DEF RInv
<1>2. held' \in [Devices -> Tokens \cup {0}]
    BY LogoutFacts DEF RInv, ShapeOK
<1> QED
    BY <1>1, <1>2, LogoutFacts, DeviceKeeps DEF RInv, ShapeOK, Frame

LEMMA ExpireKeeps ==
    ASSUME RInv, NEW t \in Tokens, Expire(t)
    PROVE  RInv'
BY ExpireFrame, DeviceKeeps DEF RInv, ShapeOK, Frame, Expire

LEMMA RInit == Init => RInv
BY DEF Init, RInv, ShapeOK, RequestsOK, WaitingOK, Running, Tokens, Idle

\* What RInv says of a family a request works for.
LEMMA FamilyFacts ==
    ASSUME RInv, NEW q \in Requests, Running(q)
    PROVE  /\ request[q] \in Request
           /\ request[q].family \in Tokens \cup {0}
           /\ request[q].token \in Tokens <=> request[q].family \in Tokens
           /\ request[q].token \in Tokens => session[request[q].token].family = request[q].family
           /\ request[q].token \notin Tokens => request[q].token = 0 /\ request[q].family = 0
           /\ request[q].token = 0 => request[q].step \in {"member", "mint", "refused"}
BY RequestFacts, TokenFacts DEF RInv, RequestsOK

-----------------------------------------------------------------------------
(* One live token a family, and none of a closed one.                      *)

LiveInv  == OneLivePerFamily /\ MintOK
CloseInv == ClosedStaysClosed /\ ClosedOK

UnderWaySteps == {"member", "revoke", "mint"}

LEMMA LiveKept ==
    ASSUME LiveInv, Frame, overlapped \subseteq overlapped',
           \A q \in Requests : request'[q].step = "mint" =>
               \/ request'[q].family \notin Tokens
               \/ request[q].step = "mint" /\ request'[q].family = request[q].family
    PROVE  LiveInv'
<1>1. OneLivePerFamily'
    BY DEF LiveInv, OneLivePerFamily, Frame
<1>2. MintOK'
    BY DEF LiveInv, MintOK, Frame
<1> QED
    BY <1>1, <1>2 DEF LiveInv

LEMMA CloseKept ==
    ASSUME CloseInv, Frame, closed \subseteq Tokens, closed' = closed, 0 \notin Tokens,
           \A q \in Requests : request'[q].step \in UnderWaySteps =>
               \/ request'[q].family \notin Tokens
               \/ request[q].step \in UnderWaySteps /\ request'[q].family = request[q].family
    PROVE  CloseInv'
<1>1. ClosedStaysClosed'
    BY DEF CloseInv, ClosedStaysClosed, LiveOf, TokensOf, Frame
<1>2. ClosedOK'
    BY DEF CloseInv, ClosedOK, UnderWaySteps
<1> QED
    BY <1>1, <1>2 DEF CloseInv

\* The unconditional update leaves two live tokens only in a family it marks.
LEMMA RevokePresentedLive ==
    ASSUME RInv, LiveInv, NEW q \in Requests, RevokePresented(q)
    PROVE  LiveInv'
<1> DEFINE t == request[q].token
           f == request[q].family
<1>1. Running(q) /\ t \in Tokens /\ f \in Tokens /\ session[t].family = f
    BY FamilyFacts DEF RevokePresented, Running
<1>2. /\ Frame /\ request'[q].step = "mint" /\ request'[q].family = f
      /\ \A p \in Requests \ {q} : request'[p] = request[p]
    <2>1. Going(q)
        BY DEF Going
    <2>2. request'[q].step = "mint"
        BY <2>1, GoingFacts DEF RevokePresented, RInv, ShapeOK, Request
    <2> QED
        BY <2>1, <2>2, GoingFacts
<1>3. \A s \in Tokens : session'[s].live => session[s].live /\ s # t
    BY RevokedFacts DEF RevokePresented, RInv, ShapeOK
<1>4. OneLivePerFamily'
    <2>1. overlapped \subseteq overlapped'
        BY DEF RevokePresented
    <2> QED
        BY <1>2, <1>3, <2>1 DEF LiveInv, OneLivePerFamily, Frame
<1>5. MintOK'
    <2>1. SUFFICES ASSUME NEW p \in Requests, request'[p].step = "mint",
                          request'[p].family \in Tokens \ overlapped'
                   PROVE  /\ \A s \in Tokens : session'[s].family = request'[p].family => ~session'[s].live
                          /\ \A r \in Requests : request'[r].step = "mint"
                                /\ request'[r].family = request'[p].family => r = p
        BY <1>2 DEF MintOK, Frame
    <2>2. request'[p].family \notin overlapped
        BY <2>1 DEF RevokePresented
    <2>3. CASE request'[p].family = f
        <3>1. session[t].live /\ f \notin overlapped
            BY <2>1, <2>3 DEF RevokePresented
        <3>2. \A s \in Tokens : session[s].live /\ session[s].family = f => s = t
            BY <1>1, <3>1 DEF LiveInv, OneLivePerFamily
        <3>3. \A r \in Requests : request[r].step = "mint" => request[r].family # f
            BY <1>1, <3>1 DEF LiveInv, MintOK
        <3> QED
            BY <1>2, <1>3, <2>1, <2>3, <3>2, <3>3 DEF Frame
    <2>4. CASE request'[p].family # f
        <3>1. p # q /\ request[p] = request'[p]
            BY <1>2, <2>4
        <3> QED
            BY <1>2, <2>1, <2>2, <2>4, <3>1 DEF LiveInv, MintOK, Frame
    <2> QED
        BY <2>3, <2>4
<1> QED
    BY <1>4, <1>5 DEF LiveInv

LEMMA MintLive ==
    ASSUME RInv, LiveInv, CloseInv, NEW q \in Requests, Mint(q)
    PROVE  LiveInv' /\ CloseInv'
<1> DEFINE t == Len(session) + 1
           f == IF request[q].family = 0 THEN t ELSE request[q].family
<1>1. /\ request[q].step = "mint" /\ Tokens' = Tokens \cup {t} /\ t \notin Tokens
      /\ f \in Tokens => f = request[q].family
      /\ \A s \in Tokens : session'[s] = session[s] /\ session[s].family \in Tokens
      /\ session'[t].family = f
      /\ request'[q].step = "minted"
      /\ \A p \in Requests \ {q} : request'[p] = request[p]
      /\ overlapped' = overlapped /\ closed' = closed
    BY MintFacts, TokenFacts DEF RInv
<1>2. \A p \in Requests : Running(p) => request[p].family # t
    BY <1>1, FamilyFacts, TokenFacts DEF RInv
<1>3. f \in Tokens \/ f = t
    BY FamilyFacts, <1>1 DEF Running
<1> HIDE DEF t, f
<1>4. f \in Tokens \ overlapped => \A s \in Tokens : session[s].family = f => ~session[s].live
    BY <1>1 DEF LiveInv, MintOK
<1>5. OneLivePerFamily'
    BY <1>1, <1>3, <1>4 DEF LiveInv, OneLivePerFamily
<1>6. MintOK'
    <2>1. SUFFICES ASSUME NEW p \in Requests, request'[p].step = "mint",
                          request'[p].family \in Tokens' \ overlapped'
                   PROVE  /\ \A s \in Tokens' : session'[s].family = request'[p].family => ~session'[s].live
                          /\ \A r \in Requests : request'[r].step = "mint"
                                /\ request'[r].family = request'[p].family => r = p
        BY DEF MintOK
    <2>2. p # q /\ request'[p] = request[p]
        BY <1>1, <2>1
    <2>3. request[p].family \in Tokens \ overlapped
        BY <1>1, <1>2, <2>1, <2>2 DEF Running
    <2>4. request[p].family # f
        BY <1>1, <2>1, <2>2, <2>3 DEF LiveInv, MintOK
    <2> QED
        BY <1>1, <2>1, <2>2, <2>3, <2>4 DEF LiveInv, MintOK
<1>7. closed \subseteq Tokens /\ request[q].family \notin closed
    BY <1>1 DEF RInv, ShapeOK, CloseInv, ClosedOK
<1>8. f \notin closed
    BY <1>1, <1>3, <1>7
<1>9. ClosedStaysClosed'
    BY <1>1, <1>7, <1>8 DEF CloseInv, ClosedStaysClosed, LiveOf, TokensOf
<1>10. ClosedOK'
    BY <1>1 DEF CloseInv, ClosedOK
<1> QED
    BY <1>5, <1>6, <1>9, <1>10 DEF LiveInv, CloseInv

\* A token that is live is of a family that is not closed.
LEMMA ReadTokenClose ==
    ASSUME RInv, CloseInv, NEW q \in Requests, ReadToken(q)
    PROVE  CloseInv'
<1>1. /\ Running(q) /\ Frame /\ closed' = closed /\ session' = session
      /\ request'[q].family = request[q].family
      /\ \A p \in Requests \ {q} : request'[p] = request[p]
    BY GoingFacts DEF Going, ReadToken
<1>2. request[q].token \in Tokens /\ session[request[q].token].family = request[q].family
    BY <1>1, FamilyFacts, TokenFacts DEF ReadToken, RInv
<1>3. request'[q].step \in UnderWaySteps => session[request[q].token].live
    BY GoingFacts DEF Going, ReadToken, UnderWaySteps, RInv, ShapeOK, Request
<1>4. request'[q].step \in UnderWaySteps => request[q].family \notin closed
    BY <1>2, <1>3 DEF CloseInv, ClosedStaysClosed, LiveOf, TokensOf
<1>5. ClosedOK'
    BY <1>1, <1>4 DEF CloseInv, ClosedOK, UnderWaySteps
<1>6. ClosedStaysClosed'
    BY <1>1 DEF CloseInv, ClosedStaysClosed, LiveOf, TokensOf, Tokens
<1> QED
    BY <1>5, <1>6 DEF CloseInv

\* Closing a family with no refresh under way leaves nobody to open it again.
LEMMA ClosingKeeps ==
    ASSUME CloseInv, Frame, NEW f \in Tokens, closed' = closed \/ closed' = closed \cup {f},
           closed' # closed => /\ \A t \in Tokens : session[t].family = f => ~session'[t].live
                               /\ UnderWay(f) = {},
           \A q \in Requests : request'[q].step \in UnderWaySteps =>
               request[q].step \in UnderWaySteps /\ request'[q].family = request[q].family
    PROVE  CloseInv'
<1>1. ClosedStaysClosed'
    BY DEF CloseInv, ClosedStaysClosed, LiveOf, TokensOf, Frame
<1>2. ClosedOK'
    BY DEF CloseInv, ClosedOK, UnderWay, UnderWaySteps
<1> QED
    BY <1>1, <1>2 DEF CloseInv

LEMMA RevokeFamilyClose ==
    ASSUME RInv, CloseInv, NEW q \in Requests, RevokeFamily(q)
    PROVE  CloseInv'
<1> DEFINE f == request[q].family
<1>1. Going(q) /\ Frame /\ \A p \in Requests \ {q} : request'[p] = request[p]
    BY GoingFacts DEF Going
<1>2. f \in Tokens
    BY GoingFacts, FamilyFacts DEF Going, RevokeFamily
<1>3. \A t \in Tokens : session[t].family = f => ~session'[t].live
    BY RevokedFacts DEF RevokeFamily, RInv, ShapeOK, TokensOf
<1>4. closed' = closed \/ (closed' = closed \cup {f} /\ UnderWay(f) = {})
    BY DEF RevokeFamily
<1>5. request'[q].step = "refused"
    BY GoingFacts DEF Going, RevokeFamily, RInv, ShapeOK, Request
<1> QED
    BY <1>1, <1>2, <1>3, <1>4, <1>5, ClosingKeeps DEF UnderWaySteps

LEMMA LogoutClose ==
    ASSUME RInv, CloseInv, NEW d \in Devices, Logout(d)
    PROVE  CloseInv'
<1> DEFINE f == session[held[d]].family
<1>1. f \in Tokens
    BY LogoutFacts, TokenFacts DEF RInv
<1>2. closed' # closed => \A t \in Tokens : session[t].family = f => ~session'[t].live
    BY LogoutFacts DEF Frame, LiveOf, TokensOf
<1>3. UnderWay(f) = {} \/ closed' = closed
    BY LogoutFacts
<1> QED
    BY <1>1, <1>2, <1>3, LogoutFacts, ClosingKeeps

\* What a device sends.
LEMMA SendFacts ==
    ASSUME RInv, NEW d \in Devices, NEW q \in Requests, NEW token, NEW user, NEW family,
           NEW step \in Steps, Send(d, q, token, user, family, step)
    PROVE  /\ request[q] = Idle /\ ~Running(q) /\ Running(q)'
           /\ request'[q].step = step /\ request'[q].device = d
           /\ request'[q].token = token /\ request'[q].family = family
           /\ \A p \in Requests \ {q} : request'[p] = request[p]
           /\ waiting[d] = NoRequest /\ waiting' = [waiting EXCEPT ![d] = q]
           /\ UNCHANGED <<session, held, overlapped, closed, patient>> /\ Frame
BY SameFrame DEF Send, RInv, ShapeOK, Running, Idle, Steps

Sends(d, q) == SendRefresh(d, q) \/ \E u \in Users : SendLogin(d, q, u) \/ SendRegister(d, q, u)

LEMMA SendsFacts ==
    ASSUME RInv, NEW d \in Devices, NEW q \in Requests, Sends(d, q)
    PROVE  /\ request[q] = Idle /\ ~Running(q) /\ Running(q)'
           /\ request'[q].device = d
           /\ \/ /\ request'[q].step = "read"
                 /\ held[d] \in Tokens /\ request'[q].token = held[d]
                 /\ request'[q].family = session[held[d]].family
              \/ /\ request'[q].step \in {"member", "mint"} /\ held[d] = 0
                 /\ request'[q].token = 0 /\ request'[q].family = 0
           /\ \A p \in Requests \ {q} : request'[p] = request[p]
           /\ waiting[d] = NoRequest /\ waiting' = [waiting EXCEPT ![d] = q]
           /\ UNCHANGED <<session, held, overlapped, closed, patient>> /\ Frame
<1>1. CASE SendRefresh(d, q)
    <2>1. held[d] \in Tokens
        BY <1>1 DEF SendRefresh, RInv, ShapeOK
    <2> QED
        BY <1>1, <2>1, SendFacts DEF SendRefresh, Steps
<1>2. ASSUME NEW u \in Users, SendLogin(d, q, u) \/ SendRegister(d, q, u)
      PROVE  /\ \E step \in {"member", "mint"} : Send(d, q, 0, u, 0, step)
             /\ held[d] = 0
    BY <1>2 DEF SendLogin, SendRegister
<1>3. CASE \E u \in Users : SendLogin(d, q, u) \/ SendRegister(d, q, u)
    BY <1>2, <1>3, SendFacts DEF Steps
<1> QED
    BY <1>1, <1>3 DEF Sends

\* Every step but a Mint, which needs another argument throughout.
LEMMA StepCases ==
    ASSUME [Next]_vars
    PROVE  \/ UNCHANGED sessionVars
           \/ \E d \in Devices : GiveUp(d) \/ Logout(d)
           \/ \E d \in Devices, q \in Requests : Sends(d, q)
           \/ \E q \in Requests : Going(q) \/ Mint(q) \/ Answer(q) \/ Lose(q)
           \/ \E t \in Tokens : Expire(t)
BY DEF Next, vars, Sends, Going

LEMMA RNext ==
    ASSUME RInv, [Next]_vars
    PROVE  RInv'
<1>1. CASE UNCHANGED sessionVars
    BY <1>1, DeviceKeeps DEF sessionVars, RInv, ShapeOK, Tokens
<1>2. ASSUME NEW d \in Devices, NEW q \in Requests, Sends(d, q) PROVE RInv'
    BY <1>2, SendsKeep DEF Sends
<1> QED
    BY <1>1, <1>2, StepCases, GiveUpKeeps, LogoutKeeps, GoingKeeps, MintKeepsShape, AnswerKeeps,
       LoseKeeps, ExpireKeeps

LEMMA TokensNext ==
    ASSUME RInv, LiveInv, CloseInv, [Next]_vars
    PROVE  LiveInv' /\ CloseInv'
<1> USE DEF UnderWaySteps
<1>0. 0 \notin Tokens /\ closed \subseteq Tokens
    BY TokenFacts DEF RInv, ShapeOK
<1>1. ASSUME UNCHANGED <<session, request, overlapped, closed>> PROVE LiveInv' /\ CloseInv'
    BY <1>0, <1>1, LiveKept, CloseKept, SameFrame DEF RInv
<1>2. ASSUME NEW d \in Devices, NEW q \in Requests, Sends(d, q) PROVE LiveInv' /\ CloseInv'
    <2>1. /\ Frame /\ UNCHANGED <<overlapped, closed>>
          /\ request'[q].step \in UnderWaySteps => request'[q].family \notin Tokens
          /\ \A p \in Requests \ {q} : request'[p] = request[p]
        BY <1>0, <1>2, SendsFacts
    <2> QED
        BY <1>0, <2>1, LiveKept, CloseKept
<1>3. ASSUME NEW q \in Requests, Answer(q) \/ Lose(q) PROVE LiveInv' /\ CloseInv'
    <2>1. /\ Frame /\ UNCHANGED <<overlapped, closed>>
          /\ request'[q].step = "idle"
          /\ \A p \in Requests \ {q} : request'[p] = request[p]
        BY <1>3, SameFrame DEF Answer, Lose, RInv, ShapeOK, Idle
    <2> QED
        BY <1>0, <2>1, LiveKept, CloseKept
<1>4. ASSUME NEW t \in Tokens, Expire(t) PROVE LiveInv' /\ CloseInv'
    BY <1>0, <1>4, ExpireFrame, LiveKept, CloseKept DEF RInv, Expire
<1>5. ASSUME NEW d \in Devices, Logout(d) PROVE LiveInv' /\ CloseInv'
    BY <1>5, LogoutFacts, LogoutClose, LiveKept
<1>6. ASSUME NEW q \in Requests, FindMembership(q) PROVE LiveInv' /\ CloseInv'
    <2>1. /\ Frame /\ UNCHANGED <<overlapped, closed>>
          /\ request'[q].family = request[q].family
          /\ \A p \in Requests \ {q} : request'[p] = request[p]
        BY <1>6, GoingFacts DEF Going, FindMembership
    <2>2. request[q].step = "member" /\ (request'[q].step = "mint" => request[q].token = 0)
        BY <1>6, GoingFacts DEF Going, FindMembership, RInv, ShapeOK, Request
    <2>3. request[q].token = 0 => request[q].family = 0
        BY <1>0, <2>2, FamilyFacts DEF Running
    <2> QED
        BY <1>0, <2>1, <2>2, <2>3, LiveKept, CloseKept
<1>7. ASSUME NEW q \in Requests, ReadToken(q) \/ RevokeFamily(q) PROVE LiveInv' /\ CloseInv'
    <2>1. Frame /\ overlapped' = overlapped /\ \A p \in Requests \ {q} : request'[p] = request[p]
        BY <1>7, GoingFacts DEF Going, ReadToken, RevokeFamily
    <2>2. request'[q].step # "mint"
        <3>1. request[q] \in Request /\ request \in [Requests -> Request \cup {Idle}]
            BY <1>7, GoingFacts DEF Going, RInv, ShapeOK
        <3>2. CASE ReadToken(q)
            BY <3>1, <3>2 DEF ReadToken, Request
        <3>3. CASE RevokeFamily(q)
            BY <3>1, <3>3 DEF RevokeFamily, Request
        <3> QED
            BY <1>7, <3>2, <3>3
    <2> QED
        BY <1>7, <2>1, <2>2, LiveKept, ReadTokenClose, RevokeFamilyClose
<1>8. ASSUME NEW q \in Requests, RevokePresented(q) PROVE LiveInv' /\ CloseInv'
    <2>1. /\ Frame /\ closed' = closed /\ request[q].step = "revoke"
          /\ request'[q].family = request[q].family
          /\ \A p \in Requests \ {q} : request'[p] = request[p]
        BY <1>8, GoingFacts DEF Going, RevokePresented
    <2> QED
        BY <1>0, <1>8, <2>1, RevokePresentedLive, CloseKept
<1>9. ASSUME NEW d \in Devices, GiveUp(d) PROVE LiveInv' /\ CloseInv'
    BY <1>1, <1>9 DEF GiveUp
<1>10. CASE UNCHANGED sessionVars
    BY <1>1, <1>10 DEF sessionVars
<1> QED
    BY <1>2, <1>3, <1>4, <1>5, <1>6, <1>7, <1>8, <1>9, <1>10, MintLive, StepCases DEF Going

-----------------------------------------------------------------------------
(* A family is with one device.                                            *)

LEMMA ApartKept ==
    ASSUME Apart, Tokens' = Tokens,
           \A f \in Tokens : \A d \in Devices : Touches(d, f)' => Touches(d, f)
    PROVE  Apart'
BY DEF Apart

LEMMA ApartNext ==
    ASSUME RInv, Apart, [Next]_vars
    PROVE  Apart'
<1>0. 0 \notin Tokens
    BY TokenFacts DEF RInv
<1>1. ASSUME Frame, \A d \in Devices : held'[d] = held[d] \/ held'[d] = 0,
             held \in [Devices -> Tokens \cup {0}],
             \A q \in Requests : request'[q] = request[q] \/ ~Running(q)'
                 \/ (Running(q) /\ request'[q].family = request[q].family
                                /\ request'[q].device = request[q].device)
      PROVE  Apart'
    <2>1. ASSUME NEW f \in Tokens, NEW d \in Devices, Touches(d, f)' PROVE Touches(d, f)
        <3>1. Has(d, f)' => Has(d, f)
            BY <1>1 DEF Has, Frame
        <3>2. ASSUME NEW q \in Requests, Works(q, f)', request'[q].device = d
              PROVE  Works(q, f) /\ request[q].device = d
            BY <1>1, <3>2 DEF Works, Running
        <3> QED
            BY <2>1, <3>1, <3>2 DEF Touches
    <2> QED
        BY <1>1, <2>1, ApartKept DEF Frame
<1>2. ASSUME NEW d \in Devices, NEW q \in Requests, Sends(d, q) PROVE Apart'
    <2>1. ASSUME NEW f \in Tokens, NEW e \in Devices, Touches(e, f)' PROVE Touches(e, f)
        <3>1. Has(e, f)' => Has(e, f)
            BY <1>2, SendsFacts DEF Has
        <3>2. ASSUME NEW p \in Requests, Works(p, f)', request'[p].device = e
              PROVE  Touches(e, f)
            <4>1. CASE p = q
                BY <1>0, <1>2, <3>2, <4>1, SendsFacts DEF Works, Touches, Has
            <4>2. CASE p # q
                BY <1>2, <3>2, <4>2, SendsFacts DEF Works, Touches, Running
            <4> QED
                BY <4>1, <4>2
        <3> QED
            BY <2>1, <3>1, <3>2 DEF Touches
    <2> QED
        BY <1>2, <2>1, ApartKept, SendsFacts DEF Frame
<1>3. ASSUME NEW q \in Requests, Answer(q) PROVE Apart'
    <2> DEFINE c == request[q].device
               t == IF request[q].step = "minted" THEN request[q].token ELSE 0
    <2>1. /\ Running(q) /\ ~Running(q)' /\ c \in Devices
          /\ held' = [held EXCEPT ![c] = t] /\ session' = session /\ Tokens' = Tokens
          /\ \A p \in Requests \ {q} : request'[p] = request[p]
        BY <1>3, RequestFacts DEF Answer, Running, RInv, ShapeOK, Idle, Tokens
    <2>2. t # 0 => session[t].family = request[q].family
        BY <2>1, FamilyFacts
    <2> HIDE DEF t
    <2>3. ASSUME NEW f \in Tokens, NEW e \in Devices, Touches(e, f)' PROVE Touches(e, f)
        <3>1. ASSUME Has(e, f)' PROVE Touches(e, f)
            <4>1. CASE e = c
                BY <2>1, <2>2, <3>1, <4>1 DEF Has, Touches, Works, RInv, ShapeOK
            <4>2. CASE e # c
                BY <2>1, <3>1, <4>2 DEF Has, Touches, RInv, ShapeOK
            <4> QED
                BY <4>1, <4>2
        <3>2. ASSUME NEW p \in Requests, Works(p, f)', request'[p].device = e
              PROVE  Works(p, f) /\ request[p].device = e
            BY <2>1, <3>2 DEF Works, Running
        <3> QED
            BY <2>3, <3>1, <3>2 DEF Touches
    <2> QED
        BY <2>1, <2>3, ApartKept
<1>4. ASSUME NEW q \in Requests, Mint(q) PROVE Apart'
    <2>0. PICK t \in Nat : t = Len(session) + 1
        BY TokenFacts DEF RInv
    <2> DEFINE f == IF request[q].family = 0 THEN t ELSE request[q].family
    <2>1. /\ t \notin Tokens /\ Tokens' = Tokens \cup {t} /\ Running(q)
          /\ f \in Tokens => f = request[q].family
          /\ \A s \in Tokens : session'[s] = session[s] /\ session[s].family \in Tokens
          /\ request'[q].family = f /\ request'[q].device = request[q].device
          /\ \A p \in Requests \ {q} : request'[p] = request[p]
          /\ held' = held
        BY <1>4, <2>0, MintFacts, TokenFacts DEF RInv, Mint, Running
    <2>2. \A d \in Devices : held[d] \in Tokens \cup {0}
        BY DEF RInv, ShapeOK
    <2>3. \A p \in Requests : Running(p) => request[p].family \in Tokens \cup {0}
        BY FamilyFacts
    <2>4. t # 0
        BY <2>0, TokenFacts DEF RInv
    <2> HIDE DEF f
    <2>5. ASSUME NEW g \in Tokens, NEW e \in Devices, Touches(e, g)' PROVE Touches(e, g)
        <3>1. Has(e, g)' => Has(e, g)
            BY <2>1, <2>2 DEF Has
        <3>2. ASSUME NEW p \in Requests, Works(p, g)', request'[p].device = e
              PROVE  Works(p, g) /\ request[p].device = e
            BY <2>1, <3>2 DEF Works, Running
        <3> QED
            BY <2>5, <3>1, <3>2 DEF Touches
    <2>6. ASSUME NEW e \in Devices, Touches(e, t)' PROVE e = request[q].device
        <3>1. ~Has(e, t)'
            BY <2>1, <2>2 DEF Has
        <3>2. ASSUME NEW p \in Requests, Works(p, t)' PROVE p = q
            BY <2>1, <2>3, <2>4, <3>2 DEF Works, Running
        <3> QED
            BY <2>1, <2>6, <3>1, <3>2 DEF Touches
    <2> QED
        BY <2>1, <2>5, <2>6 DEF Apart
<1>5. ASSUME NEW q \in Requests, Going(q) PROVE Apart'
    BY <1>1, <1>5, GoingFacts DEF RInv, ShapeOK
<1>6. ASSUME NEW q \in Requests, Lose(q) PROVE Apart'
    <2>1. ~Running(q)' /\ \A p \in Requests \ {q} : request'[p] = request[p]
        BY <1>6 DEF Lose, RInv, ShapeOK, Running, Idle
    <2> QED
        BY <1>1, <1>6, <2>1, SameFrame DEF Lose, RInv, ShapeOK
<1>7. ASSUME NEW d \in Devices, GiveUp(d) \/ Logout(d) PROVE Apart'
    <2>1. Frame /\ request' = request /\ \A e \in Devices : held'[e] = held[e] \/ held'[e] = 0
        BY <1>7, LogoutFacts, SameFrame DEF GiveUp, RInv, ShapeOK
    <2> QED
        BY <1>1, <2>1 DEF RInv, ShapeOK
<1>8. ASSUME NEW t \in Tokens, Expire(t) PROVE Apart'
    BY <1>1, <1>8, ExpireFrame DEF Expire, RInv, ShapeOK
<1>9. CASE UNCHANGED sessionVars
    BY <1>1, <1>9, SameFrame DEF sessionVars, RInv, ShapeOK
<1> QED
    BY <1>2, <1>3, <1>4, <1>5, <1>6, <1>7, <1>8, <1>9, StepCases

-----------------------------------------------------------------------------
(* Signing in, and staying signed in.                                      *)

\* Nothing happens to family f but what its own devices do.
FamilyStays(f) ==
    /\ \A t \in Tokens : session[t].family = f =>
          t \in Tokens' /\ session'[t].family = f /\ session'[t].live = session[t].live
    /\ \A q \in Requests : Running(q)' /\ request'[q].family = f => Works(q, f)

\* What SignInOK and PatientOK say of one device.
SignInFine(d) ==
    waiting[d] # NoRequest /\ held[d] = 0 =>
        LET r == request[waiting[d]] IN
        \/ r.token = 0
        \/ /\ r.step = "minted" /\ session[r.token].live
           /\ \A q \in Requests : Works(q, r.family) => q = waiting[d]

PatientFine(d) ==
    /\ held[d] # 0
    /\ \A q \in Requests : Works(q, session[held[d]].family) => q = waiting[d]
    /\ waiting[d] = NoRequest => session[held[d]].live
    /\ waiting[d] # NoRequest =>
          LET r == request[waiting[d]] IN
          /\ r.family = session[held[d]].family
          /\ r.step # "reuse"
          /\ r.step \in {"read", "member", "revoke"} => r.token = held[d] /\ session[held[d]].live
          /\ r.step = "minted" => session[r.token].live

LEMMA DeviceByDevice ==
    /\ SignInOK <=> \A d \in Devices : SignInFine(d)
    /\ PatientOK <=> \A d \in patient : PatientFine(d)
BY DEF SignInOK, PatientOK, SignInFine, PatientFine

LEMMA SignInStays ==
    ASSUME RInv, NEW d \in Devices, SignInFine(d), held'[d] = held[d], waiting'[d] = waiting[d],
           waiting[d] # NoRequest =>
               /\ request'[waiting[d]] = request[waiting[d]]
               /\ request[waiting[d]].family \in Tokens => FamilyStays(request[waiting[d]].family)
    PROVE  SignInFine(d)'
<1> SUFFICES ASSUME waiting[d] # NoRequest, held[d] = 0, request[waiting[d]].token # 0
             PROVE  SignInFine(d)'
    BY DEF SignInFine
<1> DEFINE r == request[waiting[d]]
<1>1. waiting[d] \in Requests /\ Running(waiting[d])
    BY DEF RInv, ShapeOK, WaitingOK
<1>2. r.token \in Tokens /\ r.family \in Tokens /\ session[r.token].family = r.family
    BY <1>1, FamilyFacts
<1>3. r.step = "minted" /\ session[r.token].live /\ \A q \in Requests : Works(q, r.family) => q = waiting[d]
    BY DEF SignInFine
<1>4. session'[r.token].live
    BY <1>2, <1>3 DEF FamilyStays
<1>5. ASSUME NEW q \in Requests, request'[q].step # "idle", request'[q].family = r.family PROVE q = waiting[d]
    BY <1>2, <1>3, <1>5 DEF FamilyStays, Works, Running
<1> QED
    BY <1>3, <1>4, <1>5 DEF SignInFine, Works, Running

LEMMA PatientStays ==
    ASSUME RInv, NEW d \in Devices, PatientFine(d), held'[d] = held[d], waiting'[d] = waiting[d],
           waiting[d] # NoRequest => request'[waiting[d]] = request[waiting[d]],
           FamilyStays(session[held[d]].family)
    PROVE  PatientFine(d)'
<1> DEFINE f == session[held[d]].family
           r == request[waiting[d]]
<1>1. held[d] \in Tokens /\ f \in Tokens
    BY TokenFacts DEF RInv, ShapeOK, PatientFine
<1>2. session'[held[d]].family = f /\ session'[held[d]].live = session[held[d]].live
    BY <1>1 DEF FamilyStays
<1>3. ASSUME NEW q \in Requests, request'[q].step # "idle", request'[q].family = f
      PROVE  q = waiting[d]
    BY <1>3 DEF FamilyStays, Works, Running, PatientFine
<1>4. ASSUME waiting[d] # NoRequest, r.step = "minted" PROVE session'[r.token].live
    <2>1. waiting[d] \in Requests /\ Running(waiting[d]) /\ r.family = f
        BY <1>4 DEF RInv, ShapeOK, WaitingOK, PatientFine
    <2>2. r.token \in Tokens /\ session[r.token].family = f
        BY <1>1, <2>1, FamilyFacts
    <2> QED
        BY <1>4, <2>2 DEF FamilyStays, PatientFine
<1> QED
    BY <1>2, <1>3, <1>4 DEF PatientFine, Works, Running

\* A family that belongs to another device than the one that acts stays as it is.
LEMMA OthersStay ==
    ASSUME RInv, Apart, NEW f \in Tokens, NEW d \in Devices, Touches(d, f)
    PROVE  /\ \A e \in Devices, q \in Requests : e # d /\ Sends(e, q) => FamilyStays(f)
           /\ \A e \in Devices : e # d /\ Logout(e) => FamilyStays(f)
           /\ \A t \in Tokens : Expire(t) => FamilyStays(f)
           /\ \A e \in Devices : GiveUp(e) => FamilyStays(f)
           /\ \A q \in Requests : Answer(q) \/ Lose(q) => FamilyStays(f)
           /\ \A q \in Requests : (Going(q) \/ Mint(q)) /\ ~Works(q, f) => FamilyStays(f)
<1>0. /\ 0 \notin Tokens /\ \A e \in Devices : Touches(e, f) => e = d
    BY TokenFacts DEF RInv, Apart
<1>1. ASSUME NEW e \in Devices, NEW q \in Requests, e # d, Sends(e, q) PROVE FamilyStays(f)
    <2>1. request'[q].family # f
        BY <1>0, <1>1, SendsFacts DEF Touches, Has
    <2>2. session' = session /\ Tokens' = Tokens /\ \A p \in Requests \ {q} : request'[p] = request[p]
        BY <1>1, SendsFacts DEF Frame
    <2> QED
        BY <2>1, <2>2 DEF FamilyStays, Works, Running
<1>2. ASSUME NEW e \in Devices, e # d, Logout(e) PROVE FamilyStays(f)
    <2>1. held[e] \in Tokens /\ session[held[e]].family # f /\ request' = request /\ Frame
        BY <1>0, <1>2, LogoutFacts DEF Touches, Has
    <2>2. session' = Revoked({held[e]})
        BY <1>2 DEF Logout
    <2>3. \A t \in Tokens : session[t].family = f => session'[t].live = session[t].live
        <3> SUFFICES ASSUME NEW t \in Tokens, session[t].family = f
                     PROVE  session'[t] = session[t]
            OBVIOUS
        <3>1. session[t] \in Row /\ t # held[e]
            BY <2>1, TokenFacts DEF RInv
        <3>2. session'[t] = [session[t] EXCEPT !.live = session[t].live /\ t \notin {held[e]}]
            BY <2>2 DEF Revoked
        <3> QED
            BY <3>1, <3>2 DEF Row
    <2> QED
        BY <2>1, <2>3 DEF FamilyStays, Frame, Works, Running
<1>3. ASSUME NEW t \in Tokens, Expire(t) PROVE FamilyStays(f)
    <2>1. Frame /\ request' = request
        BY <1>3, ExpireFrame DEF RInv, Expire
    <2>2. \A s \in Tokens : session'[s].live = session[s].live
        <3> SUFFICES ASSUME NEW s \in Tokens PROVE session'[s].live = session[s].live
            OBVIOUS
        <3>1. session[s] \in Row /\ session' = [session EXCEPT ![t].expired = TRUE]
            BY <1>3, TokenFacts DEF RInv, Expire
        <3> QED
            BY <3>1 DEF Row, Tokens
    <2> QED
        BY <2>1, <2>2 DEF FamilyStays, Frame, Works, Running
<1>4. ASSUME NEW e \in Devices, GiveUp(e) PROVE FamilyStays(f)
    BY <1>4 DEF GiveUp, FamilyStays, Works, Running, Tokens
<1>5. ASSUME NEW q \in Requests, Answer(q) \/ Lose(q) PROVE FamilyStays(f)
    <2>1. /\ session' = session /\ request'[q].step = "idle"
          /\ \A p \in Requests \ {q} : request'[p] = request[p]
        BY <1>5 DEF Answer, Lose, RInv, ShapeOK, Idle
    <2> QED
        BY <2>1 DEF FamilyStays, Works, Running, Tokens
<1>6. ASSUME NEW q \in Requests, Going(q), ~Works(q, f) PROVE FamilyStays(f)
    <2>1. /\ Running(q) /\ Frame /\ request'[q].family = request[q].family
          /\ \A p \in Requests \ {q} : request'[p] = request[p]
        BY <1>6, GoingFacts
    <2>2. request[q].family # f
        BY <1>6, <2>1 DEF Works
    <2>3. ASSUME NEW t \in Tokens, session[t].family = f PROVE session'[t].live = session[t].live
        <3>1. session[t] \in Row
            BY TokenFacts DEF RInv
        <3>2. ASSUME NEW S, session' = Revoked(S), t \notin S PROVE session'[t].live = session[t].live
            <4>1. session'[t] = [session[t] EXCEPT !.live = session[t].live /\ t \notin S]
                BY <3>2 DEF Revoked
            <4> QED
                BY <3>1, <3>2, <4>1 DEF Row
        <3>3. CASE RevokeFamily(q)
            BY <2>2, <2>3, <3>2, <3>3 DEF RevokeFamily, TokensOf
        <3>4. CASE RevokePresented(q)
            <4>1. t # request[q].token
                BY <2>1, <2>2, <2>3, FamilyFacts
            <4> QED
                BY <3>2, <3>4, <4>1 DEF RevokePresented
        <3> QED
            BY <1>6, <3>3, <3>4 DEF Going, ReadToken, FindMembership
    <2> QED
        BY <2>1, <2>2, <2>3 DEF FamilyStays, Frame, Works, Running
<1>7. ASSUME NEW q \in Requests, Mint(q), ~Works(q, f) PROVE FamilyStays(f)
    <2> DEFINE n == Len(session) + 1
               g == IF request[q].family = 0 THEN n ELSE request[q].family
    <2>0. /\ Tokens' = Tokens \cup {n} /\ request'[q].family = g
          /\ g \in Tokens => g = request[q].family
        BY <1>7, MintFacts
    <2> HIDE DEF n, g
    <2>1. /\ Tokens \subseteq Tokens' /\ \A t \in Tokens : session'[t] = session[t]
          /\ request'[q].family \in Tokens => request'[q].family = request[q].family
          /\ Running(q) /\ \A p \in Requests \ {q} : request'[p] = request[p]
        BY <1>7, <2>0, MintFacts DEF Mint, Running
    <2> QED
        BY <1>7, <2>1 DEF FamilyStays, Works, Running
<1> QED
    BY <1>1, <1>2, <1>3, <1>4, <1>5, <1>6, <1>7

\* The family of the request a device waits for, and of the token it keeps, are its own.
LEMMA OwnFamilies ==
    ASSUME RInv, NEW d \in Devices
    PROVE  /\ held[d] # 0 => held[d] \in Tokens /\ session[held[d]].family \in Tokens
                             /\ Touches(d, session[held[d]].family)
           /\ waiting[d] # NoRequest => /\ waiting[d] \in Requests /\ Running(waiting[d])
                                        /\ request[waiting[d]].device = d
                                        /\ Touches(d, request[waiting[d]].family)
BY TokenFacts DEF RInv, ShapeOK, WaitingOK, Touches, Has, Works

LEMMA SignInNext ==
    ASSUME RInv, Apart, SignInOK, [Next]_vars, NEW d \in Devices
    PROVE  SignInFine(d)'
<1> DEFINE w == waiting[d]
           f == request[waiting[d]].family
<1>0. /\ SignInFine(d) /\ 0 \notin Tokens
      /\ w # NoRequest => w \in Requests /\ Running(w) /\ request[w].device = d /\ Touches(d, f)
    BY DeviceByDevice, OwnFamilies, TokenFacts DEF RInv
<1>1. ASSUME held'[d] = held[d], waiting'[d] = waiting[d],
             w # NoRequest => request'[w] = request[w] /\ (f \in Tokens => FamilyStays(f))
      PROVE  SignInFine(d)'
    BY <1>0, <1>1, SignInStays
<1>2. ASSUME waiting'[d] = NoRequest PROVE SignInFine(d)'
    BY <1>2 DEF SignInFine
<1>3. ASSUME NEW e \in Devices, NEW q \in Requests, Sends(e, q) PROVE SignInFine(d)'
    <2>1. CASE e = d
        BY <1>3, <2>1, SendsFacts DEF SignInFine, RInv, ShapeOK
    <2>2. CASE e # d
        <3>0. ~Running(q) /\ held' = held /\ waiting' = [waiting EXCEPT ![e] = q]
            BY <1>3, SendsFacts
        <3>1. held'[d] = held[d] /\ waiting'[d] = waiting[d] /\ (w # NoRequest => w # q)
            BY <1>0, <2>2, <3>0 DEF RInv, ShapeOK
        <3>2. w # NoRequest => request'[w] = request[w]
            BY <1>0, <1>3, <3>1, SendsFacts
        <3> QED
            BY <1>0, <1>1, <1>3, <2>2, <3>1, <3>2, OthersStay
    <2> QED
        BY <2>1, <2>2
<1>4. ASSUME NEW q \in Requests, Answer(q) \/ Lose(q) PROVE SignInFine(d)'
    <2>1. CASE w = q
        BY <1>0, <1>2, <1>4, <2>1 DEF Answer, Lose, RInv, ShapeOK
    <2>2. CASE w # q
        <3>1. held'[d] = held[d] /\ waiting'[d] = waiting[d]
            BY <1>0, <1>4, <2>2 DEF Answer, Lose, RInv, ShapeOK
        <3>2. w # NoRequest => request'[w] = request[w]
            BY <1>0, <1>4, <2>2 DEF Answer, Lose, RInv, ShapeOK
        <3> QED
            BY <1>0, <1>1, <1>4, <3>1, <3>2, OthersStay
    <2> QED
        BY <2>1, <2>2
<1>5. ASSUME NEW q \in Requests, Going(q) PROVE SignInFine(d)'
    <2>1. UNCHANGED <<held, waiting>> /\ request'[q].token = request[q].token
          /\ \A p \in Requests \ {q} : request'[p] = request[p]
        BY <1>5, GoingFacts
    <2>2. CASE w = q
        <3>1. request[q].step # "minted"
            BY <1>5 DEF Going, ReadToken, RevokeFamily, FindMembership, RevokePresented
        <3> QED
            BY <1>0, <2>1, <2>2, <3>1 DEF SignInFine
    <2>3. CASE w # q
        <3>1. ASSUME w # NoRequest, held[d] = 0, f \in Tokens PROVE FamilyStays(f)
            <4>1. ~Works(q, f)
                BY <1>0, <2>3, <3>1, FamilyFacts DEF SignInFine
            <4> QED
                BY <1>0, <1>5, <3>1, <4>1, OthersStay
        <3>2. w # NoRequest => request'[w] = request[w]
            BY <1>0, <2>1, <2>3
        <3>3. CASE held[d] # 0
            BY <2>1, <3>3 DEF SignInFine
        <3> QED
            BY <1>1, <2>1, <3>1, <3>2, <3>3
    <2> QED
        BY <2>2, <2>3
<1>6. ASSUME NEW q \in Requests, Mint(q) PROVE SignInFine(d)'
    <2>0. PICK t \in Nat : t = Len(session) + 1
        BY TokenFacts DEF RInv
    <2>1. /\ UNCHANGED <<held, waiting>> /\ t \notin Tokens /\ t # 0
          /\ \A p \in Requests \ {q} : request'[p] = request[p]
          /\ request[q].step = "mint" /\ request'[q].step = "minted" /\ request'[q].token = t
          /\ request'[q].family = IF request[q].family = 0 THEN t ELSE request[q].family
          /\ session'[t].live
        BY <1>6, <2>0, MintFacts, TokenFacts DEF RInv
    <2>2. CASE w = q /\ held[d] = 0
        <3>0. q # NoRequest /\ Running(q)
            BY <2>1, SessionsAssumption DEF Running
        <3>1. request[q].token = 0
            BY <1>0, <2>1, <2>2, <3>0 DEF SignInFine
        <3>2. request'[q].family = t
            BY <2>1, <3>0, <3>1, <1>0, FamilyFacts
        <3>3. ASSUME NEW p \in Requests, request'[p].step # "idle", request'[p].family = t PROVE p = q
            BY <2>1, <3>3, FamilyFacts DEF Running
        <3> QED
            BY <2>1, <2>2, <3>2, <3>3 DEF SignInFine, Works, Running
    <2>3. CASE w # q /\ held[d] = 0
        <3>1. ASSUME w # NoRequest, f \in Tokens PROVE FamilyStays(f)
            <4>1. ~Works(q, f)
                BY <1>0, <2>3, <3>1, FamilyFacts DEF SignInFine
            <4> QED
                BY <1>0, <1>6, <3>1, <4>1, OthersStay
        <3>2. w # NoRequest => request'[w] = request[w]
            BY <1>0, <2>1, <2>3
        <3> QED
            BY <1>1, <2>1, <3>1, <3>2
    <2>4. CASE held[d] # 0
        BY <2>1, <2>4 DEF SignInFine
    <2> QED
        BY <2>2, <2>3, <2>4
<1>7. ASSUME NEW e \in Devices, GiveUp(e) PROVE SignInFine(d)'
    <2>1. CASE e = d
        BY <1>2, <1>7, <2>1 DEF GiveUp, RInv, ShapeOK
    <2>2. CASE e # d
        BY <1>0, <1>1, <1>7, <2>2, OthersStay DEF GiveUp, RInv, ShapeOK
    <2> QED
        BY <2>1, <2>2
<1>8. ASSUME NEW e \in Devices, Logout(e) PROVE SignInFine(d)'
    <2>1. CASE e = d
        BY <1>2, <1>8, <2>1, LogoutFacts
    <2>2. CASE e # d
        BY <1>0, <1>1, <1>8, <2>2, OthersStay, LogoutFacts DEF RInv, ShapeOK
    <2> QED
        BY <2>1, <2>2
<1>9. ASSUME NEW t \in Tokens, Expire(t) PROVE SignInFine(d)'
    BY <1>0, <1>1, <1>9, OthersStay DEF Expire
<1>10. CASE UNCHANGED sessionVars
    BY <1>0, <1>10 DEF sessionVars, SignInFine, Works, Running
<1> QED
    BY <1>3, <1>4, <1>5, <1>6, <1>7, <1>8, <1>9, <1>10, StepCases

LEMMA PatientNext ==
    ASSUME RInv, Apart, SignInOK, PatientOK, [Next]_vars, NEW d \in Devices, d \in patient'
    PROVE  PatientFine(d)'
<1> DEFINE w == waiting[d]
           f == session[held[d]].family
<1>0. d \in patient => /\ PatientFine(d) /\ held[d] \in Tokens /\ held[d] # 0 /\ f \in Tokens
                       /\ Touches(d, f)
    BY DeviceByDevice, OwnFamilies DEF PatientFine
<1>w. w # NoRequest => w \in Requests /\ Running(w) /\ request[w].device = d
    BY OwnFamilies
<1>1. ASSUME d \in patient, held'[d] = held[d], waiting'[d] = waiting[d],
             w # NoRequest => request'[w] = request[w], FamilyStays(f)
      PROVE  PatientFine(d)'
    BY <1>0, <1>1, PatientStays
<1>2. NoRequest \notin Requests
    BY SessionsAssumption
<1>3. ASSUME NEW e \in Devices, NEW q \in Requests, Sends(e, q) PROVE PatientFine(d)'
    <2>1. /\ ~Running(q) /\ UNCHANGED <<held, session, patient>> /\ waiting' = [waiting EXCEPT ![e] = q]
          /\ \A p \in Requests \ {q} : request'[p] = request[p]
        BY <1>3, SendsFacts
    <2>2. CASE e = d
        <3>1. /\ w = NoRequest /\ request'[q].step = "read" /\ request'[q].token = held[d]
              /\ request'[q].family = f
            BY <1>0, <1>3, <2>1, <2>2, SendsFacts
        <3>2. session[held[d]].live /\ \A p \in Requests : ~Works(p, f)
            BY <1>0, <1>2, <2>1, <3>1 DEF PatientFine
        <3>3. waiting'[d] = q
            BY <2>1, <2>2 DEF RInv, ShapeOK
        <3>4. ASSUME NEW p \in Requests, request'[p].step # "idle", request'[p].family = f PROVE p = q
            BY <2>1, <3>2, <3>4 DEF Works, Running
        <3> QED
            BY <1>0, <2>1, <3>1, <3>2, <3>3, <3>4 DEF PatientFine, Works, Running
    <2>3. CASE e # d
        <3>1. held'[d] = held[d] /\ waiting'[d] = waiting[d] /\ (w # NoRequest => w # q)
            BY <1>w, <2>1, <2>3 DEF RInv, ShapeOK
        <3>2. w # NoRequest => request'[w] = request[w]
            BY <1>w, <2>1, <3>1
        <3>3. FamilyStays(f)
            BY <1>0, <1>3, <2>1, <2>3, OthersStay
        <3> QED
            BY <1>1, <2>1, <3>1, <3>2, <3>3
    <2> QED
        BY <2>2, <2>3
<1>4. ASSUME NEW q \in Requests, Answer(q) PROVE PatientFine(d)'
    <2>1. CASE w = q
        <3>1. q # NoRequest /\ Running(q) /\ request[q].device = d
            BY <1>2, <1>w, <2>1
        <3>2. /\ request[q].step = "minted" /\ request[q].token # 0
              /\ held' = [held EXCEPT ![d] = request[q].token]
              /\ waiting' = [waiting EXCEPT ![d] = NoRequest]
              /\ session' = session /\ request' = [request EXCEPT ![q] = Idle]
              /\ held[d] = 0 \/ d \in patient
            BY <1>4, <3>1 DEF Answer
        <3>3. /\ session[request[q].token].live
              /\ \A p \in Requests : Works(p, request[q].family) => p = q
            <4>1. CASE held[d] = 0
                BY <2>1, <3>1, <3>2, <4>1, DeviceByDevice DEF SignInFine
            <4>2. CASE held[d] # 0
                BY <1>0, <2>1, <3>1, <3>2, <4>2 DEF PatientFine
            <4> QED
                BY <4>1, <4>2
        <3>4. session[request[q].token].family = request[q].family
            BY <3>1, <3>2, FamilyFacts
        <3>5. /\ held'[d] = request[q].token /\ waiting'[d] = NoRequest /\ request'[q].step = "idle"
              /\ \A p \in Requests \ {q} : request'[p] = request[p]
            BY <3>2 DEF RInv, ShapeOK, Idle
        <3>6. ASSUME NEW p \in Requests, request'[p].step # "idle", request'[p].family = request[q].family
              PROVE  FALSE
            BY <3>3, <3>5, <3>6 DEF Works, Running
        <3> QED
            BY <3>2, <3>3, <3>4, <3>5, <3>6 DEF PatientFine, Works, Running
    <2>2. CASE w # q
        <3>1. request[q].device # d
            BY <1>4, <2>2 DEF Answer
        <3>2. held'[d] = held[d] /\ waiting'[d] = waiting[d] /\ d \in patient
            BY <1>4, <3>1 DEF Answer, RInv, ShapeOK
        <3>3. w # NoRequest => request'[w] = request[w]
            BY <1>w, <1>4, <2>2 DEF Answer, RInv, ShapeOK
        <3>4. FamilyStays(f)
            BY <1>0, <1>4, <3>2, OthersStay
        <3> QED
            BY <1>1, <3>2, <3>3, <3>4
    <2> QED
        BY <2>1, <2>2
<1>5. ASSUME NEW q \in Requests, Lose(q) PROVE PatientFine(d)'
    <2>1. d \in patient /\ held' = held
        BY <1>5 DEF Lose
    <2>2. w # q
        BY <1>2, <1>w, <1>5 DEF Lose
    <2>3. waiting'[d] = waiting[d]
        BY <1>5, <2>2 DEF Lose, RInv, ShapeOK
    <2>4. w # NoRequest => request'[w] = request[w]
        BY <1>w, <1>5, <2>2 DEF Lose, RInv, ShapeOK
    <2>5. FamilyStays(f)
        BY <1>0, <1>5, <2>1, OthersStay
    <2> QED
        BY <1>1, <2>1, <2>3, <2>4, <2>5
<1>6. ASSUME NEW q \in Requests, Going(q) PROVE PatientFine(d)'
    <2>1. /\ Running(q) /\ Frame /\ UNCHANGED <<held, waiting, patient>>
          /\ request'[q].token = request[q].token /\ request'[q].family = request[q].family
          /\ \A p \in Requests \ {q} : request'[p] = request[p]
          /\ request \in [Requests -> Request \cup {Idle}]
        BY <1>6, GoingFacts DEF RInv, ShapeOK
    <2>2. d \in patient
        BY <2>1
    <2>3. CASE Works(q, f)
        <3>1. w = q /\ w # NoRequest
            BY <1>0, <1>2, <2>2, <2>3 DEF PatientFine
        <3>2. session'[held[d]].family = f
            BY <1>0, <2>1, <2>2 DEF Frame
        <3>3. ASSUME NEW p \in Requests, request'[p].step # "idle", request'[p].family = f PROVE p = q
            BY <1>0, <2>1, <2>2, <3>1, <3>3 DEF PatientFine, Works, Running
        <3>4. /\ request[q].step # "reuse"
              /\ request[q].step \in {"read", "member"} =>
                    request[q].token = held[d] /\ session[held[d]].live
            BY <1>0, <2>2, <3>1 DEF PatientFine
        <3>5. /\ request'[q].step \notin {"reuse", "minted"}
              /\ request'[q].step \in {"read", "member", "revoke"} =>
                    request[q].token = held[d] /\ session'[held[d]].live
            <4>1. CASE ReadToken(q)
                BY <2>1, <3>4, <4>1 DEF ReadToken
            <4>2. CASE FindMembership(q)
                BY <2>1, <3>4, <4>2 DEF FindMembership
            <4>3. CASE RevokePresented(q)
                BY <2>1, <4>3 DEF RevokePresented
            <4> QED
                BY <1>6, <3>4, <4>1, <4>2, <4>3 DEF Going, RevokeFamily
        <3> QED
            BY <1>0, <2>1, <2>2, <2>3, <3>1, <3>2, <3>3, <3>5 DEF PatientFine, Works, Running
    <2>4. CASE ~Works(q, f)
        <3>1. w # NoRequest => request[w].family = f
            BY <1>0, <2>2 DEF PatientFine
        <3>2. w # NoRequest => request'[w] = request[w]
            BY <1>w, <2>1, <2>4, <3>1 DEF Works
        <3>3. FamilyStays(f)
            BY <1>0, <1>6, <2>2, <2>4, OthersStay
        <3> QED
            BY <1>1, <2>1, <2>2, <3>2, <3>3
    <2> QED
        BY <2>3, <2>4
<1>7. ASSUME NEW q \in Requests, Mint(q) PROVE PatientFine(d)'
    <2>0. PICK t \in Nat : t = Len(session) + 1
        BY TokenFacts DEF RInv
    <2>1. /\ Running(q) /\ UNCHANGED <<held, waiting, patient>>
          /\ request'[q].step = "minted" /\ request'[q].token = t
          /\ request[q].family # 0 => request'[q].family = request[q].family
          /\ session'[t].live /\ \A s \in Tokens : session'[s] = session[s]
          /\ \A p \in Requests \ {q} : request'[p] = request[p]
        BY <1>7, <2>0, MintFacts DEF Running
    <2>2. d \in patient /\ f # 0
        BY <1>0, <2>1, TokenFacts DEF RInv
    <2>3. CASE Works(q, f)
        <3>1. w = q /\ w # NoRequest /\ request'[q].family = f
            BY <1>0, <1>2, <2>1, <2>2, <2>3 DEF PatientFine, Works
        <3>2. session'[held[d]] = session[held[d]]
            BY <1>0, <2>1, <2>2
        <3>3. ASSUME NEW p \in Requests, request'[p].step # "idle", request'[p].family = f PROVE p = q
            BY <1>0, <2>1, <2>2, <3>1, <3>3 DEF PatientFine, Works, Running
        <3> QED
            BY <1>0, <2>1, <2>2, <3>1, <3>2, <3>3 DEF PatientFine, Works, Running
    <2>4. CASE ~Works(q, f)
        <3>1. w # NoRequest => request[w].family = f
            BY <1>0, <2>2 DEF PatientFine
        <3>2. w # NoRequest => request'[w] = request[w]
            BY <1>w, <2>1, <2>4, <3>1 DEF Works
        <3>3. FamilyStays(f)
            BY <1>0, <1>7, <2>2, <2>4, OthersStay
        <3> QED
            BY <1>1, <2>1, <2>2, <3>2, <3>3
    <2> QED
        BY <2>3, <2>4
<1>8. ASSUME NEW e \in Devices, GiveUp(e) PROVE PatientFine(d)'
    <2>1. d \in patient /\ d # e /\ held' = held /\ waiting'[d] = waiting[d] /\ request' = request
        BY <1>8 DEF GiveUp, RInv, ShapeOK
    <2>2. FamilyStays(f)
        BY <1>0, <1>8, <2>1, OthersStay
    <2> QED
        BY <1>1, <2>1, <2>2
<1>9. ASSUME NEW e \in Devices, Logout(e) PROVE PatientFine(d)'
    <2>1. d \in patient /\ d # e /\ held'[d] = held[d] /\ waiting' = waiting /\ request' = request
        BY <1>9, LogoutFacts DEF RInv, ShapeOK
    <2>2. FamilyStays(f)
        BY <1>0, <1>9, <2>1, OthersStay
    <2> QED
        BY <1>1, <2>1, <2>2
<1>10. ASSUME NEW t \in Tokens, Expire(t) PROVE PatientFine(d)'
    <2>1. d \in patient /\ UNCHANGED <<held, waiting, request>>
        BY <1>10 DEF Expire
    <2>2. FamilyStays(f)
        BY <1>0, <1>10, <2>1, OthersStay
    <2> QED
        BY <1>1, <2>1, <2>2
<1>11. CASE UNCHANGED sessionVars
    <2>1. d \in patient
        BY <1>11 DEF sessionVars
    <2> QED
        BY <1>0, <1>11, <2>1 DEF sessionVars, PatientFine, Works, Running
<1> QED
    BY <1>3, <1>4, <1>5, <1>6, <1>7, <1>8, <1>9, <1>10, <1>11, StepCases

-----------------------------------------------------------------------------
(* The invariant.                                                          *)

LEMMA SInit == Init => SInv
BY RInit DEF Init, SInv, OneLivePerFamily, MintOK, ClosedStaysClosed, ClosedOK, Apart, SignInOK,
             PatientOK, Tokens, Idle

LEMMA SNext == SInv /\ [Next]_vars => SInv'
<1> SUFFICES ASSUME SInv, [Next]_vars PROVE SInv'
    OBVIOUS
<1>1. RInv'
    BY RNext DEF SInv
<1>2. LiveInv' /\ CloseInv'
    BY TokensNext DEF SInv, LiveInv, CloseInv
<1>3. Apart'
    BY ApartNext DEF SInv
<1>4. \A d \in Devices : SignInFine(d)'
    BY SignInNext DEF SInv
<1>5. \A d \in patient' : PatientFine(d)'
    BY <1>1, PatientNext DEF SInv, RInv, ShapeOK
<1>6. SignInOK' /\ PatientOK'
    BY <1>4, <1>5 DEF SignInOK, PatientOK, SignInFine, PatientFine
<1> QED
    BY <1>1, <1>2, <1>3, <1>6 DEF SInv, LiveInv, CloseInv

LEMMA SInvAlways == Spec => []SInv
BY SInit, SNext, PTL DEF Spec

\* Reuse detection has one token to go by: at most one of a family is live, unless two requests
\* used one token at once (rotate revokes by id, whatever the row says).
THEOREM OneLiveToken == Spec => []OneLivePerFamily
BY SInvAlways, PTL DEF SInv

\* Closing a family by reuse detection or logout is for good, but for a refresh already past the
\* read of its token.
THEOREM ClosedForGood == Spec => []ClosedStaysClosed
BY SInvAlways, PTL DEF SInv

\* A device that gets every answer is never signed out by the rotation itself, whatever the other
\* devices do and however many requests run.
THEOREM PatientStayIn == Spec => []PatientStaysSignedIn
<1>1. SInv => PatientStaysSignedIn
    BY DEF SInv, PatientOK, PatientStaysSignedIn
<1> QED
    BY <1>1, SInvAlways, PTL

-----------------------------------------------------------------------------
(* The last owner.                                                         *)

\* A change people make of themselves leaves their role and their status.
OwnChanges ==
    \A c \in Changes : change[c].kind = "update" /\ change[c].actor = change[c].target =>
        change[c].sent.role = "same" /\ change[c].sent.status = "same"

\* The memberships and the changes are functions, on the people and on the requests.
MInv ==
    /\ member = [u \in Users |-> member[u]]
    /\ change = [c \in Changes |-> change[c]]
    /\ OwnChanges

LEMMA MInit == Init => MInv
BY DEF Init, MembershipInit, MInv, OwnChanges, NoChange

\* What a step is to the memberships.
LEMMA MemberSteps ==
    ASSUME [Next]_vars
    PROVE  \/ UNCHANGED memberVars
           \/ \E u \in Users : Register(u)
           \/ \E w \in Changes :
                 \/ \E actor, u \in Users, role \in InvitedAs : BeginInvite(w, actor, u, role)
                 \/ CommitInvite(w)
                 \/ \E actor, u \in Users, sent \in Sent : BeginUpdate(w, actor, u, sent)
                 \/ CommitUpdate(w)
                 \/ Drop(w)
<1>1. CASE MembershipNext
    BY <1>1 DEF MembershipNext
<1>2. CASE \E d \in Devices : GiveUp(d) \/ Logout(d)
    BY <1>2 DEF GiveUp, Logout, memberVars
<1>3. CASE \E d \in Devices, q \in Requests :
              SendRefresh(d, q) \/ \E u \in Users : SendLogin(d, q, u) \/ SendRegister(d, q, u)
    BY <1>3 DEF SendRefresh, SendLogin, SendRegister
<1>4. CASE \E q \in Requests : ReadToken(q) \/ RevokeFamily(q) \/ FindMembership(q)
                               \/ RevokePresented(q) \/ Mint(q) \/ Answer(q) \/ Lose(q)
    BY <1>4 DEF ReadToken, RevokeFamily, FindMembership, RevokePresented, Mint, Answer, Lose, memberVars
<1>5. CASE \E t \in Tokens : Expire(t)
    BY <1>5 DEF Expire, memberVars
<1>6. CASE UNCHANGED vars
    BY <1>6 DEF vars
<1> QED
    BY <1>1, <1>2, <1>3, <1>4, <1>5, <1>6 DEF Next

LEMMA MNext == MInv /\ [Next]_vars => MInv'
<1> SUFFICES ASSUME MInv, [Next]_vars PROVE MInv'
    OBVIOUS
<1>1. ASSUME NEW w \in Changes, Finish(w), member' = [u \in Users |-> member'[u]] PROVE MInv'
    BY <1>1 DEF Finish, MInv, OwnChanges, NoChange
<1>2. ASSUME NEW w \in Changes, NEW job, Begin(w, job), UNCHANGED member,
             job.kind = "update" /\ job.actor = job.target =>
                 job.sent.role = "same" /\ job.sent.status = "same"
      PROVE  MInv'
    BY <1>2 DEF Begin, MInv, OwnChanges
<1>3. CASE UNCHANGED memberVars
    BY <1>3 DEF memberVars, MInv, OwnChanges
<1>4. ASSUME NEW u \in Users, Register(u) PROVE MInv'
    BY <1>4 DEF Register, MInv, OwnChanges
<1>5. ASSUME NEW w \in Changes, NEW actor \in Users, NEW u \in Users, NEW role \in InvitedAs,
             BeginInvite(w, actor, u, role)
      PROVE  MInv'
    BY <1>2, <1>5 DEF BeginInvite
<1>6. ASSUME NEW w \in Changes, NEW actor \in Users, NEW u \in Users, NEW sent \in Sent,
             BeginUpdate(w, actor, u, sent)
      PROVE  MInv'
    BY <1>2, <1>6 DEF BeginUpdate, MayChange
<1>7. ASSUME NEW w \in Changes, CommitInvite(w) \/ CommitUpdate(w) \/ Drop(w) PROVE MInv'
    <2>1. Finish(w)
        BY <1>7 DEF CommitInvite, CommitUpdate, Drop
    <2>2. member' = [u \in Users |-> member'[u]]
        BY <1>7 DEF CommitInvite, CommitUpdate, Drop, MInv
    <2> QED
        BY <1>1, <2>1, <2>2
<1> QED
    BY <1>3, <1>4, <1>5, <1>6, <1>7, MemberSteps

\* A change by an owner of this moment leaves the shop an owner.
LEMMA OwnerStays ==
    ASSUME MInv, [Next]_vars, Owners # {}, Owners' = {}
    PROVE  \E w \in Changes : /\ change[w].kind = "update" /\ change'[w] = NoChange
                              /\ change[w].actor \notin Owners
<1>1. PICK o \in Users : member[o].status = "ACTIVE" /\ member[o].role = "OWNER"
    BY DEF Owners, IsActive
<1>2. \A u \in Users : ~(member'[u].status = "ACTIVE" /\ member'[u].role = "OWNER")
    BY DEF Owners, IsActive
<1>3. CASE member' = member
    BY <1>1, <1>2, <1>3
<1>4. ASSUME NEW u \in Users, Register(u) PROVE FALSE
    BY <1>2, <1>4 DEF Register, NewMember, MInv
<1>5. ASSUME NEW w \in Changes, CommitInvite(w) PROVE FALSE
    <2>1. change[w].target # o
        BY <1>1, <1>5 DEF CommitInvite
    <2>2. member'[o] = member[o]
        BY <1>5, <2>1 DEF CommitInvite, MInv
    <2> QED
        BY <1>1, <1>2, <2>2
<1>6. ASSUME NEW w \in Changes, CommitUpdate(w)
      PROVE  /\ change[w].kind = "update" /\ change'[w] = NoChange
             /\ change[w].actor \notin Owners
    <2> DEFINE c == change[w]
    <2>1. c.kind = "update" /\ change'[w] = NoChange
        BY <1>6 DEF CommitUpdate, Finish, MInv
    <2>2. SUFFICES ASSUME c.actor \in Owners PROVE FALSE
        BY <2>1
    <2>3. /\ c.actor \in Users
          /\ member[c.actor].status = "ACTIVE" /\ member[c.actor].role = "OWNER"
        BY <2>2 DEF Owners, IsActive
    <2>4. c.actor = c.target
        <3>1. c.actor # c.target => member'[c.actor] = member[c.actor]
            BY <1>6, <2>3 DEF CommitUpdate, MInv
        <3> QED
            BY <1>2, <2>3, <3>1
    <2>5. c.sent.role = "same" /\ c.sent.status = "same"
        BY <2>1, <2>4 DEF MInv, OwnChanges
    <2>6. member'[c.actor].status = "ACTIVE" /\ member'[c.actor].role = "OWNER"
        BY <1>6, <2>3, <2>4, <2>5 DEF CommitUpdate, MInv
    <2> QED
        BY <1>2, <2>3, <2>6
<1>7. ASSUME NEW w \in Changes, ~CommitInvite(w), ~CommitUpdate(w),
             \/ \E actor, u \in Users, role \in InvitedAs : BeginInvite(w, actor, u, role)
             \/ \E actor, u \in Users, sent \in Sent : BeginUpdate(w, actor, u, sent)
             \/ Drop(w)
      PROVE  member' = member
    BY <1>7 DEF BeginInvite, BeginUpdate, Drop
<1>8. CASE UNCHANGED memberVars
    BY <1>3, <1>8 DEF memberVars
<1> QED
    BY <1>3, <1>4, <1>5, <1>6, <1>7, <1>8, MemberSteps

\* A shop never loses its last owner by a change whose author is an owner when it is written.
THEOREM OwnersRemain == Spec => ShopKeepsAnOwner
<1>1. MInv /\ [Next]_vars =>
          [Owners # {} /\ Owners' = {} =>
              \E w \in Changes : /\ change[w].kind = "update"
                                 /\ change'[w] = NoChange
                                 /\ change[w].actor \notin Owners]_memberVars
    BY OwnerStays
<1> QED
    BY <1>1, MInit, MNext, PTL DEF Spec, ShopKeepsAnOwner

-----------------------------------------------------------------------------
(* Types.                                                                  *)

\* An invitation has made its account, and an update is of somebody who is on the list.
MembersOK ==
    /\ account \subseteq Users
    /\ \A u \in Users : /\ member[u].status \in {"none", "ACTIVE", "SUSPENDED", "REMOVED"}
                        /\ member[u].role \in Roles
                        /\ member[u].status # "none" => u \in account
    /\ \A c \in Changes :
          /\ change[c].kind = "invite" => change[c].role \in Roles /\ change[c].target \in account
          /\ change[c].kind = "update" => /\ change[c].sent \in Sent /\ change[c].target \in Users
                                          /\ member[change[c].target].status # "none"

LEMMA MembersInit == Init => MembersOK
BY DEF Init, MembershipInit, MembersOK, NoMember, NoChange, Roles

LEMMA MembersNext == MInv /\ MembersOK /\ [Next]_vars => MembersOK' /\ account \subseteq account'
<1> SUFFICES ASSUME MInv, MembersOK, [Next]_vars PROVE MembersOK' /\ account \subseteq account'
    OBVIOUS
<1>1. CASE UNCHANGED memberVars
    BY <1>1 DEF memberVars, MembersOK
<1>2. ASSUME NEW u \in Users, Register(u) PROVE MembersOK' /\ account \subseteq account'
    <2>1. /\ account' = account \cup {u} /\ change' = change
          /\ member' = [member EXCEPT ![u] = NewMember("OWNER")] /\ member[u] = NoMember
        BY <1>2 DEF Register
    <2>2. member'[u].status = "ACTIVE" /\ member'[u].role = "OWNER"
        BY <2>1 DEF MInv, NewMember
    <2>3. \A v \in Users \ {u} : member'[v] = member[v]
        BY <2>1 DEF MInv
    <2> QED
        BY <2>1, <2>2, <2>3 DEF MembersOK, Roles
<1>3. ASSUME NEW w \in Changes, NEW job, Begin(w, job), UNCHANGED member, account \subseteq account',
             account' \subseteq Users,
             job.kind = "invite" => job.role \in Roles /\ job.target \in account',
             job.kind = "update" => /\ job.sent \in Sent /\ job.target \in Users
                                    /\ member[job.target].status # "none"
      PROVE  MembersOK' /\ account \subseteq account'
    <2>1. \A c \in Changes : change'[c] = IF c = w THEN job ELSE change[c]
        BY <1>3 DEF Begin, MInv
    <2> QED
        BY <1>3, <2>1 DEF MembersOK
<1>4. ASSUME NEW w \in Changes, NEW actor \in Users, NEW u \in Users, NEW role \in InvitedAs,
             BeginInvite(w, actor, u, role)
      PROVE  MembersOK' /\ account \subseteq account'
    <2> DEFINE job == [kind |-> "invite", actor |-> actor, target |-> u, role |-> role]
    <2>1. /\ Begin(w, job) /\ UNCHANGED member /\ account' = account \cup {u}
          /\ job.kind = "invite" /\ job.role \in Roles /\ job.target = u
        BY <1>4, MembershipsAssumption DEF BeginInvite
    <2> HIDE DEF job
    <2>2. account \subseteq account' /\ account' \subseteq Users /\ u \in account'
        BY <2>1 DEF MembersOK
    <2>3. /\ job.kind = "invite" => job.role \in Roles /\ job.target \in account'
          /\ job.kind # "update"
        BY <2>1, <2>2
    <2> QED
        BY <1>3, <2>1, <2>2, <2>3
<1>5. ASSUME NEW w \in Changes, NEW actor \in Users, NEW u \in Users, NEW sent \in Sent,
             BeginUpdate(w, actor, u, sent)
      PROVE  MembersOK' /\ account \subseteq account'
    <2> DEFINE job == [kind |-> "update", actor |-> actor, target |-> u, sent |-> sent]
    <2>1. /\ Begin(w, job) /\ UNCHANGED member /\ UNCHANGED account /\ member[u].status # "none"
          /\ job.kind = "update" /\ job.sent = sent /\ job.target = u
        BY <1>5 DEF BeginUpdate
    <2> HIDE DEF job
    <2>2. account \subseteq account' /\ account' \subseteq Users
        BY <2>1 DEF MembersOK
    <2>3. /\ job.kind = "invite" => job.role \in Roles /\ job.target \in account'
          /\ job.kind = "update" => /\ job.sent \in Sent /\ job.target \in Users
                                    /\ member[job.target].status # "none"
        BY <2>1
    <2> QED
        BY <1>3, <2>1, <2>2, <2>3
<1>6. ASSUME NEW w \in Changes, Finish(w), UNCHANGED account,
             \A u \in Users : /\ member'[u].status \in {"none", "ACTIVE", "SUSPENDED", "REMOVED"}
                              /\ member'[u].role \in Roles
                              /\ member'[u].status # "none" => u \in account
                              /\ member[u].status # "none" => member'[u].status # "none"
      PROVE  MembersOK' /\ account \subseteq account'
    <2>1. \A c \in Changes : change'[c] = IF c = w THEN NoChange ELSE change[c]
        BY <1>6 DEF Finish, MInv
    <2> QED
        BY <1>6, <2>1 DEF MembersOK, NoChange
<1>7. ASSUME NEW w \in Changes, CommitInvite(w) PROVE MembersOK' /\ account \subseteq account'
    <2> DEFINE c == change[w]
    <2>1. /\ Finish(w) /\ UNCHANGED account /\ c.role \in Roles /\ c.target \in account
          /\ member' = [member EXCEPT ![c.target] = NewMember(c.role)]
        BY <1>7 DEF CommitInvite, MembersOK
    <2>2. \A u \in Users : member'[u] = IF u = c.target THEN NewMember(c.role) ELSE member[u]
        BY <2>1 DEF MInv
    <2>3. NewMember(c.role).status = "ACTIVE" /\ NewMember(c.role).role = c.role
        BY DEF NewMember
    <2> QED
        BY <1>6, <2>1, <2>2, <2>3 DEF MembersOK
<1>8. ASSUME NEW w \in Changes, CommitUpdate(w) PROVE MembersOK' /\ account \subseteq account'
    <2> DEFINE c == change[w]
    <2>1. /\ Finish(w) /\ UNCHANGED account /\ c.sent \in Sent /\ c.target \in Users
          /\ member[c.target].status # "none"
        BY <1>8 DEF CommitUpdate, MembersOK
    <2>2. /\ c.sent.role \in Roles \cup {"same"}
          /\ c.sent.status \in {"same", "ACTIVE", "SUSPENDED", "REMOVED"}
        BY <2>1, MembershipsAssumption
    <2>3. /\ member'[c.target].status = IF c.sent.status = "same" THEN member[c.target].status
                                        ELSE c.sent.status
          /\ member'[c.target].role = IF c.sent.role = "same" THEN member[c.target].role
                                      ELSE c.sent.role
        BY <1>8, <2>1 DEF CommitUpdate, MInv
    <2>4. \A u \in Users \ {c.target} : member'[u] = member[u]
        BY <1>8, <2>1 DEF CommitUpdate, MInv
    <2> QED
        BY <1>6, <2>1, <2>2, <2>3, <2>4 DEF MembersOK
<1>9. ASSUME NEW w \in Changes, Drop(w) PROVE MembersOK' /\ account \subseteq account'
    BY <1>6, <1>9 DEF Drop, MembersOK
<1> QED
    BY <1>1, <1>2, <1>4, <1>5, <1>7, <1>8, <1>9, MemberSteps

\* A family has one user, with an account, and a request works for the user of its token.
UsersOK ==
    /\ \A t \in Tokens : /\ session[session[t].family].family = session[t].family
                         /\ session[t].user = session[session[t].family].user
                         /\ session[t].user \in account
    /\ \A q \in Requests : Running(q) =>
          /\ request[q].user \in account
          /\ request[q].token \in Tokens => request[q].user = session[request[q].token].user


SameUsers == \A t \in Tokens : session'[t].user = session[t].user

LEMMA UsersNext ==
    ASSUME RInv, UsersOK, account \subseteq account', [Next]_vars
    PROVE  UsersOK'
<1>1. ASSUME Frame, SameUsers,
             \A q \in Requests : Running(q)' =>
                 \/ Running(q) /\ request'[q].user = request[q].user
                               /\ request'[q].token = request[q].token
                 \/ /\ request'[q].user \in account'
                    /\ request'[q].token \in Tokens => request'[q].user = session[request'[q].token].user
      PROVE  UsersOK'
    <2>1. \A t \in Tokens : session[t].family \in Tokens
        BY TokenFacts DEF RInv
    <2> QED
        BY <1>1, <2>1 DEF UsersOK, Frame, SameUsers, Running
<1>2. ASSUME NEW S, session' = Revoked(S) PROVE SameUsers
    BY <1>2, RevokedFacts DEF RInv, ShapeOK, SameUsers
<1>3. ASSUME UNCHANGED session PROVE Frame /\ SameUsers
    BY <1>3, SameFrame DEF RInv, SameUsers
<1>4. ASSUME NEW d \in Devices, NEW q \in Requests, Sends(d, q) PROVE UsersOK'
    <2>1. UNCHANGED session /\ \A p \in Requests \ {q} : request'[p] = request[p]
        BY <1>4, SendsFacts
    <2>2. ASSUME NEW token, NEW user, NEW family, NEW step, Send(d, q, token, user, family, step)
          PROVE  request'[q].user = user /\ request'[q].token = token
        BY <2>2 DEF Send, RInv, ShapeOK
    <2>3. /\ request'[q].user \in account'
          /\ request'[q].token \in Tokens => request'[q].user = session[request'[q].token].user
        <3>1. CASE SendRefresh(d, q)
            <4>1. held[d] \in Tokens
                BY <3>1 DEF SendRefresh, RInv, ShapeOK
            <4>2. request'[q].token = held[d] /\ request'[q].user = session[held[d]].user
                BY <2>2, <3>1 DEF SendRefresh
            <4> QED
                BY <4>1, <4>2 DEF UsersOK
        <3>2. ASSUME NEW u \in Users, SendLogin(d, q, u) \/ SendRegister(d, q, u)
              PROVE  request'[q].token = 0 /\ request'[q].user = u /\ u \in account'
            BY <2>2, <3>2 DEF SendLogin, SendRegister, Register
        <3> QED
            BY <1>4, <3>1, <3>2, TokenFacts DEF Sends, RInv
    <2> QED
        BY <1>1, <1>3, <2>1, <2>3 DEF Running
<1>5. ASSUME NEW q \in Requests, Answer(q) \/ Lose(q) PROVE UsersOK'
    <2>1. /\ UNCHANGED session /\ request'[q].step = "idle"
          /\ \A p \in Requests \ {q} : request'[p] = request[p]
        BY <1>5 DEF Answer, Lose, RInv, ShapeOK, Idle
    <2> QED
        BY <1>1, <1>3, <2>1 DEF Running
<1>6. ASSUME NEW q \in Requests, Going(q) PROVE UsersOK'
    <2>1. /\ Running(q) /\ request[q] \in Request /\ Frame
          /\ request' = [request EXCEPT ![q].step = request'[q].step]
          /\ request'[q].token = request[q].token
          /\ \A p \in Requests \ {q} : request'[p] = request[p]
        BY <1>6, GoingFacts
    <2>2. request'[q].user = request[q].user
        BY <2>1 DEF RInv, ShapeOK, Request
    <2>3. SameUsers
        BY <1>2, <1>3, <1>6 DEF Going, ReadToken, RevokeFamily, FindMembership, RevokePresented
    <2> QED
        BY <1>1, <2>1, <2>2, <2>3 DEF Running
<1>7. ASSUME NEW q \in Requests, Mint(q) PROVE UsersOK'
    <2>0. PICK t \in Nat : t = Len(session) + 1
        BY TokenFacts DEF RInv
    <2> DEFINE f == IF request[q].family = 0 THEN t ELSE request[q].family
    <2>1. /\ request[q] \in Request /\ Running(q) /\ Tokens' = Tokens \cup {t} /\ t \notin Tokens
          /\ \A s \in Tokens : session'[s] = session[s] /\ session[s].family \in Tokens
          /\ session'[t].family = f /\ request'[q].token = t
          /\ \A p \in Requests \ {q} : request'[p] = request[p]
        BY <1>7, <2>0, MintFacts, TokenFacts DEF RInv, Running
    <2>2. session'[t].user = request[q].user
        BY <1>7, <2>0, TokenFacts DEF Mint, RInv, ShapeOK, Row, Request, Tokens
    <2>3. request'[q].user = request[q].user
        BY <1>7, <2>1 DEF Mint, RInv, ShapeOK, Request
    <2>4. f # t => /\ f = request[q].family /\ f \in Tokens /\ request[q].token \in Tokens
                   /\ session[request[q].token].family = f
        BY <2>1, FamilyFacts
    <2>5. request[q].user \in account
        BY <2>1 DEF UsersOK
    <2>6. session'[f].family = f /\ session'[f].user = request[q].user
        <3>1. CASE f = t
            BY <2>1, <2>2, <3>1
        <3>2. CASE f # t
            <4>1. session[f].family = f /\ session[f].user = request[q].user
                BY <2>1, <2>4, <3>2 DEF UsersOK
            <4> QED
                BY <2>1, <2>4, <3>2, <4>1
        <3> QED
            BY <3>1, <3>2
    <2> HIDE DEF f
    <2>7. ASSUME NEW s \in Tokens'
          PROVE  /\ session'[session'[s].family].family = session'[s].family
                 /\ session'[s].user = session'[session'[s].family].user
                 /\ session'[s].user \in account'
        <3>1. CASE s = t
            BY <2>1, <2>2, <2>5, <2>6, <3>1
        <3>2. CASE s # t
            BY <2>1, <2>7, <3>2 DEF UsersOK
        <3> QED
            BY <3>1, <3>2
    <2>8. ASSUME NEW p \in Requests, request'[p].step # "idle"
          PROVE  /\ request'[p].user \in account'
                 /\ request'[p].token \in Tokens' => request'[p].user = session'[request'[p].token].user
        <3>1. CASE p = q
            BY <2>1, <2>2, <2>3, <2>5, <3>1
        <3>2. CASE p # q
            <4>1. request'[p] = request[p] /\ Running(p)
                BY <2>1, <2>8, <3>2 DEF Running
            <4>2. request[p].token \in Nat /\ request[p].token # t
                BY <2>0, <4>1, FamilyFacts, TokenFacts DEF RInv
            <4> QED
                BY <2>1, <4>1, <4>2 DEF UsersOK
        <3> QED
            BY <3>1, <3>2
    <2> QED
        BY <2>7, <2>8 DEF UsersOK, Running
<1>8. ASSUME NEW d \in Devices, GiveUp(d) PROVE UsersOK'
    <2>1. UNCHANGED <<session, request>>
        BY <1>8 DEF GiveUp
    <2> QED
        BY <1>1, <1>3, <2>1 DEF Running
<1>9. ASSUME NEW d \in Devices, Logout(d) PROVE UsersOK'
    <2>1. Frame /\ request' = request /\ session' = Revoked({held[d]})
        BY <1>9, LogoutFacts DEF Logout
    <2> QED
        BY <1>1, <1>2, <2>1 DEF Running
<1>10. ASSUME NEW t \in Tokens, Expire(t) PROVE UsersOK'
    <2>1. Frame /\ request' = request
        BY <1>10, ExpireFrame DEF RInv, Expire
    <2>2. SameUsers
        <3> SUFFICES ASSUME NEW s \in Tokens PROVE session'[s].user = session[s].user
            BY DEF SameUsers
        <3>1. session[s] \in Row /\ session' = [session EXCEPT ![t].expired = TRUE]
            BY <1>10, TokenFacts DEF RInv, Expire
        <3> QED
            BY <3>1 DEF Row, Tokens
    <2> QED
        BY <1>1, <2>1, <2>2 DEF Running
<1>11. CASE UNCHANGED sessionVars
    BY <1>1, <1>3, <1>11 DEF sessionVars, Running
<1> QED
    BY <1>4, <1>5, <1>6, <1>7, <1>8, <1>9, <1>10, <1>11, StepCases

\* The state keeps its shape: every token is of an account, a family has one user, and who is on
\* the shop's list has an account, although an invitation makes it before it makes the membership.
THEOREM TypeCorrect == Spec => []TypeOK
<1>1. Init => UsersOK
    BY DEF Init, UsersOK, Tokens, Running, Idle
<1>2. MInv /\ MembersOK /\ SInv /\ UsersOK /\ [Next]_vars => UsersOK'
    BY MembersNext, UsersNext DEF SInv
<1>3. MembersOK /\ SInv /\ UsersOK => TypeOK
    <2> SUFFICES ASSUME MembersOK, SInv, UsersOK PROVE TypeOK
        OBVIOUS
    <2>1. /\ held \in [Devices -> Tokens \cup {0}]
          /\ waiting \in [Devices -> Requests \cup {NoRequest}]
          /\ \A t \in Tokens : session[t].family \in 1..t
          /\ patient \subseteq {d \in Devices : held[d] # 0}
        BY DEF SInv, RInv, ShapeOK, PatientOK
    <2>2. \A q \in Requests : request[q].step \in {"idle", "read", "reuse", "member", "revoke",
                                                  "mint", "minted", "refused"}
        BY RequestFacts, IdleFacts DEF SInv, RInv, Steps
    <2> QED
        BY <2>1, <2>2 DEF MembersOK, UsersOK, TypeOK
<1> QED
    BY <1>1, <1>2, <1>3, SInvAlways, MInit, MNext, MembersInit, MembersNext, PTL DEF Spec

=============================================================================
