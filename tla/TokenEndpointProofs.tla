-------------------------- MODULE TokenEndpointProofs --------------------------
(***************************************************************************)
(* Proofs about TokenEndpoint, for every number of users, clients, tokens, *)
(* sessions, codes and concurrent requests: first what is answered, and to *)
(* whom; then what a refresh and a revocation end.                         *)
(***************************************************************************)
EXTENDS TokenEndpoint, RefreshTokenServiceProofs

\* A request that holds a session, or a refresh token it will answer with, holds
\* one of its user's, and the refresh token is of its client.
Bound(c) ==
  /\ reqs[c].pc \in {"park", "issueCode", "issueRefresh"} =>
       /\ sessions[reqs[c].session] # None
       /\ sessions[reqs[c].session].user = reqs[c].user
  /\ reqs[c].pc \in {"sweep", "issueSession"} =>
       /\ rows[reqs[c].refresh] # None
       /\ rows[reqs[c].refresh].client = reqs[c].client
       /\ rows[reqs[c].refresh].user = reqs[c].user
  /\ reqs[c].pc = "rotating" => calls[c].token = reqs[c].from

\* A code in the table carries a session of its user.
CodeBound ==
  \A k \in Codes : HasRow(k) =>
    /\ sessions[codes[k].session] # None
    /\ sessions[codes[k].session].user = codes[k].user

\* Request c has consumed x and may yet answer with tokens for it.
Holds(c, x) ==
  /\ reqs[c].from = x
  /\ \/ reqs[c].pc \in {"issueRefresh", "sweep", "issueSession"}
     \/ reqs[c].pc = "rotating" /\ calls[c].pc \in {"mint", "rotated"}

\* x can no longer be consumed: a deleted code, or a revoked refresh token.
Gone(x) ==
  \/ x \in Codes /\ codes[x] = Deleted
  \/ x \in Tokens /\ rows[x] # None /\ rows[x].revoked

\* What was consumed is gone, is held by one request, and by none once answered.
HeldOnce ==
  /\ \A c \in Calls, x \in Tokens \cup Codes : Holds(c, x) => Gone(x)
  /\ \A c, d \in Calls, x \in Tokens \cup Codes : Holds(c, x) /\ Holds(d, x) => c = d
  /\ \A g \in granted : Gone(g.from) /\ \A c \in Calls : ~Holds(c, g.from)

\* The part of the invariant that is about the endpoints.
EndpointInv ==
  /\ EndpointTypeOK
  /\ \A c \in Calls : Bound(c)
  /\ CodeBound /\ GrantBinding
  /\ HeldOnce /\ SingleUse

\* No step undoes what a request relies on: rows and sessions stay, with their
\* users and clients, what is revoked or deleted stays so.
Grows ==
  /\ \A t \in Tokens : rows[t] # None =>
       /\ rows'[t] # None
       /\ rows'[t].user = rows[t].user
       /\ rows'[t].client = rows[t].client
       /\ rows[t].revoked => rows'[t].revoked
  /\ \A s \in SessionTokens : sessions[s] # None =>
       sessions'[s] # None /\ sessions'[s].user = sessions[s].user
  /\ \A k \in Codes : codes[k] = Deleted => codes'[k] = Deleted

-----------------------------------------------------------------------------
(* Frames: what an assignment of the model changes.                        *)

\* A request is given a new record; the others stand still.
LEMMA ReqFrame ==
  ASSUME reqs \in [Calls -> Req], NEW c \in Calls, NEW r \in Req,
         reqs' = [reqs EXCEPT ![c] = r]
  PROVE  /\ reqs' \in [Calls -> Req]
         /\ reqs'[c] = r
         /\ \A d \in Calls : d # c => reqs'[d] = reqs[d]
  OBVIOUS

\* A record that is idle but for what it is given is a request's.
LEMMA IdleReqType == IdleReq \in Req
  BY DEF IdleReq, Req

\* To moves a request and changes nothing else of it.
LEMMA ToFrame ==
  ASSUME reqs \in [Calls -> Req], NEW c \in Calls,
         NEW pc \in Pending \cup Replies, To(c, pc)
  PROVE  /\ reqs' \in [Calls -> Req]
         /\ reqs'[c].pc = pc
         /\ reqs'[c].client = reqs[c].client
         /\ reqs'[c].user = reqs[c].user
         /\ reqs'[c].session = reqs[c].session
         /\ reqs'[c].refresh = reqs[c].refresh
         /\ reqs'[c].from = reqs[c].from
         /\ reqs'[c].todo = reqs[c].todo
         /\ \A d \in Calls : d # c => reqs'[d] = reqs[d]
  BY ZenonT(40) DEF To, Req

\* sessions.issue adds a row and leaves the others alone.
LEMMA NewSessionFrame ==
  ASSUME TypeOK, sessions \in [SessionTokens -> SessionRow \cup {None}],
         NEW s \in SessionTokens, NEW u \in Users,
         sessions' = [sessions EXCEPT ![s] = NewSession(u)]
  PROVE  /\ sessions' \in [SessionTokens -> SessionRow \cup {None}]
         /\ sessions'[s] # None /\ sessions'[s].user = u
         /\ \A x \in SessionTokens : x # s => sessions'[x] = sessions[x]
  <1>1. NewSession(u) \in SessionRow /\ NewSession(u).user = u
    BY EndpointAssumption DEF NewSession, SessionRow, TypeOK
  <1>2. QED
    BY <1>1, EndpointAssumption

\* Revoking sessions keeps every row and its user.
LEMMA RevokedSessionsFrame ==
  ASSUME sessions \in [SessionTokens -> SessionRow \cup {None}],
         NEW S, sessions' = RevokedSessions(S)
  PROVE  /\ sessions' \in [SessionTokens -> SessionRow \cup {None}]
         /\ \A x \in SessionTokens :
              /\ sessions'[x] = None <=> sessions[x] = None
              /\ sessions[x] # None => sessions'[x].user = sessions[x].user
  <1>1. ASSUME NEW x \in SessionTokens
        PROVE  /\ sessions'[x] \in SessionRow \cup {None}
               /\ sessions'[x] = None <=> sessions[x] = None
               /\ sessions[x] # None => sessions'[x].user = sessions[x].user
    <2>1. CASE x \in S /\ sessions[x] # None
      <3>1. sessions'[x] = [sessions[x] EXCEPT !.revoked = TRUE] /\ sessions[x] \in SessionRow
        BY <2>1 DEF RevokedSessions
      <3>2. sessions'[x] \in SessionRow /\ sessions'[x].user = sessions[x].user
        BY <3>1 DEF SessionRow
      <3>3. QED
        BY <2>1, <3>2, EndpointAssumption
    <2>2. CASE ~(x \in S /\ sessions[x] # None)
      BY <2>2 DEF RevokedSessions
    <2>3. QED
      BY <2>1, <2>2
  <1>2. sessions' \in [SessionTokens -> SessionRow \cup {None}]
    BY <1>1 DEF RevokedSessions
  <1>3. QED
    BY <1>1, <1>2

\* No operation of the service takes a row, its identity or its revocation away.
LEMMA RowsGrow ==
  ASSUME Inv, [Next]_vars
  PROVE  \A t \in Tokens : rows[t] # None =>
           /\ rows'[t] # None
           /\ rows'[t].user = rows[t].user
           /\ rows'[t].client = rows[t].client
           /\ rows'[t].family = rows[t].family
           /\ rows[t].revoked => rows'[t].revoked
  <1>1. ASSUME NEW T, rows' = Revoked(T), NEW t \in Tokens, rows[t] # None
        PROVE  /\ rows'[t] # None
               /\ rows'[t].user = rows[t].user
               /\ rows'[t].client = rows[t].client
               /\ rows'[t].family = rows[t].family
               /\ rows[t].revoked => rows'[t].revoked
    BY <1>1, RevokedFrame DEF Inv, TypeOK
  <1>2. ASSUME NEW s \in Tokens, FreshToken(s), NEW r, rows' = [rows EXCEPT ![s] = r],
               NEW t \in Tokens, rows[t] # None
        PROVE  rows'[t] = rows[t]
    BY <1>2 DEF FreshToken, Inv, TypeOK
  <1>3. CASE \E u \in Users, cl \in Clients, f \in Families, t \in Tokens : Issue(u, cl, f, t)
    BY <1>2, <1>3 DEF Issue
  <1>4. CASE \E t \in Tokens : Revoke(t)
    BY <1>1, <1>4 DEF Revoke
  <1>5. CASE \E u \in Users : RevokeAllForUser(u)
    BY <1>1, <1>5 DEF RevokeAllForUser
  <1>6. CASE \E c \in Calls, t \in Tokens : RotateFind(c, t) \/ RotateMint(c, t)
    BY <1>2, <1>6 DEF RotateFind, RotateMint
  <1>7. CASE \E c \in Calls : RotateConsume(c) \/ RotateKill(c)
    BY <1>1, <1>7 DEF RotateConsume, RotateKill
  <1>8. CASE UNCHANGED rows
    BY <1>8
  <1>9. QED
    BY <1>3, <1>4, <1>5, <1>6, <1>7, <1>8 DEF Next, vars, Tick, RotateFail, Return

-----------------------------------------------------------------------------
(* Steps of one request.                                                   *)

\* A step that answers nothing keeps the invariant when its request C (or none)
\* keeps its own part of it and holds, from then on, only what is gone and what no
\* one else holds or was answered for.
LEMMA Proceeds ==
  ASSUME Inv, EndpointInv, NEW C \in SUBSET Calls,
         sessions' \in [SessionTokens -> SessionRow \cup {None}],
         codes' \in [Codes -> CodeRow \cup {None, Deleted}],
         reqs' \in [Calls -> Req],
         seen' \in [Calls -> [tokens : SUBSET Tokens, sessions : SUBSET SessionTokens]],
         granted' = granted,
         Grows, CodeBound',
         \A d \in Calls \ C : reqs'[d] = reqs[d] /\ calls'[d] = calls[d],
         \A c \in C : Carries(c)' /\ Bound(c)',
         \A c \in C, x \in Tokens \cup Codes : Holds(c, x)' =>
           /\ Gone(x)'
           /\ \A d \in Calls : Holds(d, x)' => d = c
           /\ \A g \in granted : g.from # x
  PROVE  EndpointInv'
  <1>1. EndpointTypeOK'
    <2>1. \A d \in Calls \ C : Carries(d)'
      BY SMTT(30) DEF EndpointInv, EndpointTypeOK, Carries
    <2>2. QED
      BY <2>1 DEF EndpointInv, EndpointTypeOK
  <1>2. \A d \in Calls : Bound(d)'
    <2>1. \A d \in Calls \ C : Bound(d)'
      BY SMTT(30) DEF EndpointInv, EndpointTypeOK, Carries, Pending, Bound, Grows
    <2>2. QED
      BY <2>1
  <1>3. GrantBinding'
    <2>1. \A g \in granted : g.refresh \in Tokens /\ g.access \in SessionTokens
      BY DEF EndpointInv, EndpointTypeOK
    <2>2. QED
      BY <2>1 DEF EndpointInv, GrantBinding, Grows
  <1>4. \A x : Gone(x) => Gone(x)'
    BY DEF Gone, Grows
  <1>5. \A d \in Calls \ C, x \in Tokens \cup Codes : Holds(d, x)' <=> Holds(d, x)
    BY DEF Holds
  <1>6. HeldOnce'
    <2>1. \A d \in Calls, x \in Tokens \cup Codes : Holds(d, x)' => Gone(x)'
      BY <1>4, <1>5 DEF EndpointInv, HeldOnce
    <2>2. \A c, d \in Calls, x \in Tokens \cup Codes : Holds(c, x)' /\ Holds(d, x)' => c = d
      BY <1>5 DEF EndpointInv, HeldOnce
    <2>3. ASSUME NEW g \in granted
          PROVE  Gone(g.from)' /\ \A d \in Calls : ~Holds(d, g.from)'
      <3>1. g.from \in Tokens \cup Codes
        BY DEF EndpointInv, EndpointTypeOK
      <3>2. QED
        BY <1>4, <1>5, <3>1 DEF EndpointInv, HeldOnce
    <2>4. QED
      BY <2>1, <2>2, <2>3 DEF HeldOnce
  <1>7. SingleUse'
    BY DEF EndpointInv, SingleUse
  <1>8. QED
    BY <1>1, <1>2, <1>3, <1>6, <1>7 DEF EndpointInv

\* The same, for a step of one request.
LEMMA OneProceeds ==
  ASSUME Inv, EndpointInv, NEW c \in Calls,
         sessions' \in [SessionTokens -> SessionRow \cup {None}],
         codes' \in [Codes -> CodeRow \cup {None, Deleted}],
         reqs' \in [Calls -> Req],
         seen' \in [Calls -> [tokens : SUBSET Tokens, sessions : SUBSET SessionTokens]],
         granted' = granted,
         Grows, CodeBound',
         \A d \in Calls : d # c => reqs'[d] = reqs[d] /\ calls'[d] = calls[d],
         Carries(c)', Bound(c)',
         \A x \in Tokens \cup Codes : Holds(c, x)' =>
           /\ Gone(x)'
           /\ \A d \in Calls : Holds(d, x)' => d = c
           /\ \A g \in granted : g.from # x
  PROVE  EndpointInv'
  <1>1. \A d \in Calls \ {c} : reqs'[d] = reqs[d] /\ calls'[d] = calls[d]
    OBVIOUS
  <1>2. \A e \in {c} : Carries(e)' /\ Bound(e)'
    OBVIOUS
  <1>3. \A e \in {c}, x \in Tokens \cup Codes : Holds(e, x)' =>
          /\ Gone(x)'
          /\ \A d \in Calls : Holds(d, x)' => d = e
          /\ \A g \in granted : g.from # x
    OBVIOUS
  <1>4. {c} \in SUBSET Calls
    OBVIOUS
  <1>5. QED
    BY <1>1, <1>2, <1>3, <1>4, Proceeds

\* A step that answers a request with tokens keeps the invariant: the request held
\* what it answers for, and no longer does.
LEMMA Answers ==
  ASSUME Inv, EndpointInv, NEW c \in Calls, NEW access \in SessionTokens,
         NEW refresh \in Tokens, Grant(c, access, refresh),
         sessions' \in [SessionTokens -> SessionRow \cup {None}],
         reqs' \in [Calls -> Req], reqs'[c].pc = "granted",
         UNCHANGED <<codes, seen, calls>>, Grows,
         \A d \in Calls : d # c => reqs'[d] = reqs[d],
         reqs[c].pc \in {"issueRefresh", "issueSession"},
         reqs[c].from \in Tokens \cup Codes, reqs[c].client \in Clients,
         rows'[refresh] # None, sessions'[access] # None,
         rows'[refresh].client = reqs[c].client,
         rows'[refresh].user = sessions'[access].user
  PROVE  EndpointInv'
  <1> DEFINE new == [from |-> reqs[c].from, client |-> reqs[c].client,
                     access |-> access, refresh |-> refresh]
  <1>1. granted' = granted \cup {new}
    BY DEF Grant
  <1>2. Holds(c, reqs[c].from)
    BY DEF Holds
  <1>3. EndpointTypeOK'
    <2>1. \A d \in Calls : d # c => Carries(d)'
      BY DEF EndpointInv, EndpointTypeOK, Carries
    <2>2. calls[c].pc = "idle"
      BY DEF EndpointInv, EndpointTypeOK, Carries
    <2>3. Carries(c)'
      BY <2>2 DEF Carries, Pending
    <2>4. new \in [from : Tokens \cup Codes, client : Clients,
                   access : SessionTokens, refresh : Tokens]
      OBVIOUS
    <2>5. QED
      BY <1>1, <2>1, <2>3, <2>4 DEF EndpointInv, EndpointTypeOK
  <1>4. \A d \in Calls : Bound(d)'
    <2>1. \A d \in Calls : d # c => Bound(d)'
      BY DEF EndpointInv, EndpointTypeOK, Carries, Pending, Bound, Grows
    <2>2. Bound(c)'
      BY DEF Bound
    <2>3. QED
      BY <2>1, <2>2
  <1>5. CodeBound'
    BY DEF EndpointInv, EndpointTypeOK, CodeBound, CodeRow, HasRow, Grows
  <1>6. GrantBinding'
    <2>1. \A g \in granted : g.refresh \in Tokens /\ g.access \in SessionTokens
      BY DEF EndpointInv, EndpointTypeOK
    <2>2. ASSUME NEW g \in granted
          PROVE  /\ rows'[g.refresh] # None /\ sessions'[g.access] # None
                 /\ rows'[g.refresh].client = g.client
                 /\ rows'[g.refresh].user = sessions'[g.access].user
      BY <2>1 DEF EndpointInv, GrantBinding, Grows
    <2>3. QED
      BY <1>1, <2>2 DEF GrantBinding
  <1>7. \A x : Gone(x) => Gone(x)'
    BY DEF Gone, Grows
  <1>8. /\ \A d \in Calls : \A x : d # c => (Holds(d, x)' <=> Holds(d, x))
        /\ \A x : ~Holds(c, x)'
    BY DEF Holds
  <1>9. HeldOnce'
    <2>1. \A d \in Calls, x \in Tokens \cup Codes : Holds(d, x)' => Gone(x)'
      BY <1>7, <1>8 DEF EndpointInv, HeldOnce
    <2>2. \A d, e \in Calls, x \in Tokens \cup Codes : Holds(d, x)' /\ Holds(e, x)' => d = e
      BY <1>8 DEF EndpointInv, HeldOnce
    <2>3. ASSUME NEW g \in granted'
          PROVE  Gone(g.from)' /\ \A d \in Calls : ~Holds(d, g.from)'
      <3>1. CASE g \in granted
        <4>1. g.from \in Tokens \cup Codes
          BY <3>1 DEF EndpointInv, EndpointTypeOK
        <4>2. QED
          BY <1>7, <1>8, <3>1, <4>1 DEF EndpointInv, HeldOnce
      <3>2. CASE g = new
        BY <1>2, <1>7, <1>8, <3>2 DEF EndpointInv, HeldOnce
      <3>3. QED
        BY <1>1, <3>1, <3>2
    <2>4. QED
      BY <2>1, <2>2, <2>3 DEF HeldOnce
  <1>10. SingleUse'
    <2>1. \A g \in granted : g.from # new.from
      BY <1>2 DEF EndpointInv, HeldOnce
    <2>2. QED
      BY <1>1, <2>1 DEF EndpointInv, SingleUse
  <1>11. QED
    BY <1>3, <1>4, <1>5, <1>6, <1>9, <1>10 DEF EndpointInv

-----------------------------------------------------------------------------
(* The endpoints drive the service through its operations only.            *)

\* Every action of an endpoint is an operation of the service, or leaves the
\* refresh-token table, the rotate() calls and the clock alone.
LEMMA EndpointStep ==
  ASSUME EndpointTypeOK, [EndpointNext]_<<vars, epVars>>
  PROVE  [Next]_vars
  <1>1. ASSUME NEW c \in Calls, NEW f \in Families, NEW t \in Tokens, GrantCode(c, f, t)
        PROVE  Next
    <2>1. reqs[c].user \in Users /\ reqs[c].client \in Clients
      BY <1>1 DEF GrantCode, EndpointTypeOK, Carries, Pending
    <2>2. QED
      BY <1>1, <2>1 DEF GrantCode, Next
  <1>2. ASSUME NEW c \in Calls, NEW ok, Cascade(c, ok)
        PROVE  [Next]_vars
    <2>1. reqs[c].user \in Users
      BY <1>2 DEF Cascade, EndpointTypeOK, Carries, Pending
    <2>2. QED
      BY <1>2, <2>1 DEF Cascade, RevokeRefresh, Next
  <1>3. ASSUME NEW c \in Calls, Rotate(c) \/ SettleRefresh(c)
        PROVE  Next
    BY <1>3 DEF Rotate, SettleRefresh, Next
  <1>4. ASSUME NEW c \in Calls, NEW cl \in Clients, NEW t \in Tokens, StartRefresh(c, cl, t)
        PROVE  Next
    BY <1>4 DEF StartRefresh, Next
  <1>5. CASE EndpointNext
    BY <1>1, <1>2, <1>3, <1>4, <1>5, ZenonT(30)
       DEF EndpointNext, Login, TakeParked, IssueCode, TakeCode, SweepSessions,
           GrantRefresh, StartRevoke, RevokeLookup, Logout, Drop, Finish, SweepCodes,
           ClockTick, Next
  <1>6. QED
    BY <1>5 DEF vars

-----------------------------------------------------------------------------
(* The actions, one lemma each.                                            *)

\* A request that arrives finds its record idle, and what it sees is well typed.
LEMMA ArriveFrame ==
  ASSUME EndpointTypeOK, NEW c \in Calls, Arrive(c)
  PROVE  /\ reqs[c].pc = "idle" /\ calls[c].pc = "idle"
         /\ seen' \in [Calls -> [tokens : SUBSET Tokens, sessions : SUBSET SessionTokens]]
  <1>1. [tokens |-> {t \in Tokens : rows[t] # None},
         sessions |-> {s \in SessionTokens : LiveSession(s)}]
          \in [tokens : SUBSET Tokens, sessions : SUBSET SessionTokens]
    OBVIOUS
  <1>2. QED
    BY <1>1 DEF Arrive, EndpointTypeOK, Carries

\* Both revocation and issue keep the sessions that are there.
SessionsGrow ==
  \A s \in SessionTokens : sessions[s] # None =>
    sessions'[s] # None /\ sessions'[s].user = sessions[s].user

\* A step of one request that consumes and answers nothing, and changes no table but
\* the sessions', keeps the invariant.
LEMMA Quiet ==
  ASSUME Inv, EndpointInv, NEW c \in Calls, NEW r \in Req,
         reqs' = [reqs EXCEPT ![c] = r],
         UNCHANGED <<rows, calls, codes, granted>>,
         sessions' \in [SessionTokens -> SessionRow \cup {None}], SessionsGrow,
         seen' \in [Calls -> [tokens : SUBSET Tokens, sessions : SUBSET SessionTokens]],
         Carries(c)', Bound(c)',
         \A x : Holds(c, x)' => Holds(c, x)
  PROVE  EndpointInv'
  <1>1. /\ reqs' \in [Calls -> Req]
        /\ \A d \in Calls : d # c => reqs'[d] = reqs[d]
    BY ReqFrame DEF EndpointInv, EndpointTypeOK
  <1>2. Grows
    BY DEF Grows, SessionsGrow
  <1>3. CodeBound'
    BY DEF EndpointInv, EndpointTypeOK, CodeBound, CodeRow, HasRow, SessionsGrow
  <1>4. \A d \in Calls : \A x : Holds(d, x)' => Holds(d, x)
    BY <1>1 DEF Holds
  <1>5. \A x \in Tokens \cup Codes : Holds(c, x)' =>
          /\ Gone(x)'
          /\ \A d \in Calls : Holds(d, x)' => d = c
          /\ \A g \in granted : g.from # x
    BY <1>4 DEF EndpointInv, HeldOnce, Gone
  <1>6. codes' \in [Codes -> CodeRow \cup {None, Deleted}]
    BY DEF EndpointInv, EndpointTypeOK
  <1>7. QED
    BY <1>1, <1>2, <1>3, <1>5, <1>6, OneProceeds

\* The callback's session is its user's.
LEMMA LoginPreserves ==
  ASSUME Inv, EndpointInv, NEW c \in Calls, NEW u \in Users, NEW s \in SessionTokens,
         Login(c, u, s)
  PROVE  EndpointInv'
  <1> DEFINE r == [IdleReq EXCEPT !.pc = "park", !.user = u, !.session = s]
  <1>1. r \in Req /\ r.pc = "park" /\ r.user = u /\ r.session = s
    BY IdleReqType DEF IdleReq, Req, Pending
  <1>2. /\ reqs' = [reqs EXCEPT ![c] = r]
        /\ sessions[s] = None
        /\ UNCHANGED <<rows, calls, codes, granted>>
    BY DEF Login, vars
  <1> HIDE DEF r
  <1>3. reqs'[c] = r
    BY <1>1, <1>2, ReqFrame DEF EndpointInv, EndpointTypeOK
  <1>4. /\ calls[c].pc = "idle"
        /\ seen' \in [Calls -> [tokens : SUBSET Tokens, sessions : SUBSET SessionTokens]]
    BY ArriveFrame DEF Login, EndpointInv
  <1>5. /\ sessions' \in [SessionTokens -> SessionRow \cup {None}]
        /\ sessions'[s] # None /\ sessions'[s].user = u
        /\ \A x \in SessionTokens : x # s => sessions'[x] = sessions[x]
    BY NewSessionFrame DEF Login, Inv, EndpointInv, EndpointTypeOK
  <1>6. SessionsGrow
    BY <1>2, <1>5 DEF SessionsGrow
  <1>7. Carries(c)' /\ Bound(c)'
    BY <1>1, <1>2, <1>3, <1>4, <1>5 DEF Carries, Bound, Pending
  <1>8. \A x : ~Holds(c, x)'
    BY <1>1, <1>3 DEF Holds
  <1>9. QED
    BY <1>1, <1>2, <1>4, <1>5, <1>6, <1>7, <1>8, Quiet

\* Taking the parked request gives the login a client.
LEMMA TakeParkedPreserves ==
  ASSUME Inv, EndpointInv, NEW c \in Calls, NEW cl \in Clients \cup {None},
         TakeParked(c, cl)
  PROVE  EndpointInv'
  <1> DEFINE next == IF cl = None THEN "loggedIn" ELSE "issueCode"
             r == [reqs[c] EXCEPT !.client = cl, !.pc = next]
  <1>1. /\ reqs[c] \in Req /\ reqs[c].pc = "park"
        /\ reqs[c].user \in Users /\ reqs[c].session \in SessionTokens
        /\ calls[c].pc = "idle"
        /\ sessions[reqs[c].session] # None
        /\ sessions[reqs[c].session].user = reqs[c].user
    BY DEF TakeParked, EndpointInv, EndpointTypeOK, Carries, Bound, Pending
  <1>2. /\ r \in Req /\ r.pc = next /\ r.client = cl
        /\ r.user = reqs[c].user /\ r.session = reqs[c].session
    BY <1>1 DEF Req, Pending, Replies
  <1>3. reqs' = [reqs EXCEPT ![c] = r]
    BY <1>1 DEF TakeParked, EndpointInv, EndpointTypeOK
  <1> HIDE DEF r
  <1>4. reqs'[c] = r
    BY <1>2, <1>3, ReqFrame DEF EndpointInv, EndpointTypeOK
  <1>5. UNCHANGED <<rows, calls, sessions, codes, seen, granted>>
    BY DEF TakeParked, vars
  <1>6. Carries(c)' /\ Bound(c)'
    BY <1>1, <1>2, <1>4, <1>5 DEF Carries, Bound, Pending
  <1>7. \A x : ~Holds(c, x)'
    BY <1>2, <1>4 DEF Holds
  <1>8. SessionsGrow
    BY <1>5 DEF SessionsGrow
  <1>9. QED
    BY <1>2, <1>3, <1>5, <1>6, <1>7, <1>8, Quiet DEF EndpointInv, EndpointTypeOK

\* The sweep of sessions touches no row's user.
LEMMA SweepSessionsPreserves ==
  ASSUME Inv, EndpointInv, NEW c \in Calls, NEW ok \in BOOLEAN, SweepSessions(c, ok)
  PROVE  EndpointInv'
  <1> DEFINE r == [reqs[c] EXCEPT !.pc = "issueSession",
                             !.failed = IF ok THEN {} ELSE {"sessions"}]
  <1>1. reqs[c] \in Req /\ reqs[c].pc = "sweep"
    BY DEF SweepSessions, EndpointInv, EndpointTypeOK
  <1>2. /\ r \in Req /\ r.pc = "issueSession" /\ r.client = reqs[c].client
        /\ r.user = reqs[c].user /\ r.refresh = reqs[c].refresh /\ r.from = reqs[c].from
    BY <1>1, ZenonT(30) DEF Req, Pending
  <1>3. reqs' = [reqs EXCEPT ![c] = r]
    BY <1>1 DEF SweepSessions, EndpointInv, EndpointTypeOK
  <1> HIDE DEF r
  <1>4. reqs'[c] = r
    BY <1>2, <1>3, ReqFrame DEF EndpointInv, EndpointTypeOK
  <1>5. UNCHANGED <<rows, calls, codes, seen, granted>>
    BY DEF SweepSessions, vars
  <1>6. sessions' \in [SessionTokens -> SessionRow \cup {None}] /\ SessionsGrow
    BY RevokedSessionsFrame DEF SweepSessions, SessionsGrow, EndpointInv, EndpointTypeOK
  <1>7. Carries(c)' /\ Bound(c)'
    BY <1>1, <1>2, <1>4, <1>5 DEF Carries, Bound, Pending, EndpointInv, EndpointTypeOK
  <1>8. \A x : Holds(c, x)' => Holds(c, x)
    BY <1>1, <1>2, <1>4 DEF Holds
  <1>9. QED
    BY <1>2, <1>3, <1>5, <1>6, <1>7, <1>8, Quiet DEF EndpointInv, EndpointTypeOK

\* A revocation that looks its token up holds nothing.
LEMMA StartRevokePreserves ==
  ASSUME Inv, EndpointInv, NEW c \in Calls, NEW token \in Tokens \cup SessionTokens,
         NEW ok \in BOOLEAN, StartRevoke(c, token, ok)
  PROVE  EndpointInv'
  <1> DEFINE hit == ok /\ token \in Tokens /\ Valid(token)
             r == IF hit
                  THEN [IdleReq EXCEPT !.pc = "cascade", !.from = token,
                                       !.user = rows[token].user,
                                       !.todo = <<"refresh", "sessions">>]
                  ELSE [IdleReq EXCEPT !.pc = "lookup", !.from = token]
  <1>1. hit => rows[token].user \in Users
    BY DEF Valid, Inv, TypeOK, Row
  <1>2. /\ r \in Req /\ r.pc \in {"cascade", "lookup"}
        /\ r.pc = "cascade" => r.user \in Users /\ r.todo # <<>>
    <2>1. /\ <<"refresh", "sessions">> \in Seq({"refresh", "sessions"})
          /\ <<"refresh", "sessions">> # <<>>
      OBVIOUS
    <2>2. CASE hit
      BY <1>1, <2>1, <2>2 DEF IdleReq, Req, Pending
    <2>3. CASE ~hit
      <3>1. r = [IdleReq EXCEPT !.pc = "lookup", !.from = token]
        BY <2>3
      <3>2. QED
        BY <3>1, IdleReqType DEF IdleReq, Req, Pending
    <2>4. QED
      BY <2>2, <2>3
  <1>3. /\ reqs' = [reqs EXCEPT ![c] = r]
        /\ UNCHANGED <<rows, calls, sessions, codes, granted>>
    BY DEF StartRevoke, vars
  <1> HIDE DEF r
  <1>4. reqs'[c] = r
    BY <1>2, <1>3, ReqFrame DEF EndpointInv, EndpointTypeOK
  <1>5. /\ calls[c].pc = "idle"
        /\ seen' \in [Calls -> [tokens : SUBSET Tokens, sessions : SUBSET SessionTokens]]
    BY ArriveFrame DEF StartRevoke, EndpointInv
  <1>6. Carries(c)' /\ Bound(c)'
    BY <1>2, <1>3, <1>4, <1>5 DEF Carries, Bound, Pending
  <1>7. \A x : ~Holds(c, x)'
    BY <1>2, <1>4 DEF Holds
  <1>8. SessionsGrow
    BY <1>3 DEF SessionsGrow
  <1>9. QED
    BY <1>2, <1>3, <1>5, <1>6, <1>7, <1>8, Quiet DEF EndpointInv, EndpointTypeOK

\* Nor does one that looks a session up.
LEMMA RevokeLookupPreserves ==
  ASSUME Inv, EndpointInv, NEW c \in Calls, NEW ok \in BOOLEAN, RevokeLookup(c, ok)
  PROVE  EndpointInv'
  <1> DEFINE s == reqs[c].from
             hit == ok /\ s \in SessionTokens /\ ValidSession(s)
             r == IF hit
                  THEN [reqs[c] EXCEPT !.pc = "cascade", !.user = sessions[s].user,
                                       !.todo = SessionCascade]
                  ELSE [reqs[c] EXCEPT !.pc = "ignored"]
  <1>1. hit => sessions[s].user \in Users
    BY DEF ValidSession, LiveSession, EndpointInv, EndpointTypeOK, SessionRow
  <1>2. reqs[c] \in Req /\ calls[c].pc = "idle"
    BY DEF RevokeLookup, EndpointInv, EndpointTypeOK, Carries
  <1>3. SessionCascade \in Seq({"refresh", "sessions"}) /\ SessionCascade # <<>>
    BY DEF SessionCascade
  <1>4. /\ r \in Req /\ r.pc \in {"cascade", "ignored"}
        /\ r.pc = "cascade" => r.user \in Users /\ r.todo # <<>>
    BY <1>1, <1>2, <1>3 DEF Req, Pending, Replies
  <1>5. /\ reqs' = [reqs EXCEPT ![c] = r]
        /\ UNCHANGED <<rows, calls, sessions, codes, seen, granted>>
    BY DEF RevokeLookup, vars, EndpointInv, EndpointTypeOK
  <1> HIDE DEF r
  <1>6. reqs'[c] = r
    BY <1>4, <1>5, ReqFrame DEF EndpointInv, EndpointTypeOK
  <1>7. Carries(c)' /\ Bound(c)'
    BY <1>2, <1>4, <1>5, <1>6 DEF Carries, Bound, Pending
  <1>8. \A x : ~Holds(c, x)'
    BY <1>4, <1>6 DEF Holds
  <1>9. SessionsGrow
    BY <1>5 DEF SessionsGrow
  <1>10. QED
    BY <1>4, <1>5, <1>7, <1>8, <1>9, Quiet DEF EndpointInv, EndpointTypeOK

\* /auth/logout touches no row's user.
LEMMA LogoutPreserves ==
  ASSUME Inv, EndpointInv, NEW c \in Calls, NEW s \in SessionTokens, Logout(c, s)
  PROVE  EndpointInv'
  <1> DEFINE r == [IdleReq EXCEPT !.pc = "loggedOut", !.session = s,
                     !.user = IF sessions[s] = None THEN None ELSE sessions[s].user]
  <1>1. (IF sessions[s] = None THEN None ELSE sessions[s].user) \in Users \cup {None}
    BY DEF EndpointInv, EndpointTypeOK, SessionRow
  <1>2. r \in Req /\ r.pc = "loggedOut"
    BY <1>1, IdleReqType, ZenonT(30) DEF IdleReq, Req, Replies
  <1>3. /\ reqs' = [reqs EXCEPT ![c] = r]
        /\ UNCHANGED <<rows, calls, codes, granted>>
    BY DEF Logout, vars
  <1> HIDE DEF r
  <1>4. reqs'[c] = r
    BY <1>2, <1>3, ReqFrame DEF EndpointInv, EndpointTypeOK
  <1>5. /\ calls[c].pc = "idle"
        /\ seen' \in [Calls -> [tokens : SUBSET Tokens, sessions : SUBSET SessionTokens]]
    BY ArriveFrame DEF Logout, EndpointInv
  <1>6. sessions' \in [SessionTokens -> SessionRow \cup {None}] /\ SessionsGrow
    BY RevokedSessionsFrame DEF Logout, SessionsGrow, EndpointInv, EndpointTypeOK
  <1>7. Carries(c)' /\ Bound(c)'
    BY <1>2, <1>3, <1>4, <1>5 DEF Carries, Bound, Pending
  <1>8. \A x : ~Holds(c, x)'
    BY <1>2, <1>4 DEF Holds
  <1>9. QED
    BY <1>2, <1>3, <1>5, <1>6, <1>7, <1>8, Quiet

\* A request that is dropped holds nothing any more.
LEMMA DropPreserves ==
  ASSUME Inv, EndpointInv, NEW c \in Calls, Drop(c)
  PROVE  EndpointInv'
  <1> DEFINE r == [reqs[c] EXCEPT !.pc = "error"]
  <1>1. reqs[c] \in Req /\ calls[c].pc = "idle"
    BY DEF Drop, EndpointInv, EndpointTypeOK, Carries
  <1>2. r \in Req /\ r.pc = "error"
    BY <1>1 DEF Req, Replies
  <1>3. /\ reqs' = [reqs EXCEPT ![c] = r]
        /\ UNCHANGED <<rows, calls, sessions, codes, seen, granted>>
    BY <1>1 DEF Drop, To, vars, EndpointInv, EndpointTypeOK
  <1> HIDE DEF r
  <1>4. reqs'[c] = r
    BY <1>2, <1>3, ReqFrame DEF EndpointInv, EndpointTypeOK
  <1>5. Carries(c)' /\ Bound(c)'
    BY <1>1, <1>2, <1>3, <1>4 DEF Carries, Bound, Pending
  <1>6. \A x : ~Holds(c, x)'
    BY <1>2, <1>4 DEF Holds
  <1>7. SessionsGrow
    BY <1>3 DEF SessionsGrow
  <1>8. QED
    BY <1>2, <1>3, <1>5, <1>6, <1>7, Quiet DEF EndpointInv, EndpointTypeOK

\* Nor does one that has been answered.
LEMMA FinishPreserves ==
  ASSUME Inv, EndpointInv, NEW c \in Calls, Finish(c)
  PROVE  EndpointInv'
  <1>1. reqs[c].pc \in Replies /\ calls[c].pc = "idle"
    BY DEF Finish, Replies, EndpointInv, EndpointTypeOK, Carries
  <1>2. IdleReq \in Req /\ IdleReq.pc = "idle"
    BY IdleReqType DEF IdleReq
  <1>3. /\ reqs' = [reqs EXCEPT ![c] = IdleReq]
        /\ UNCHANGED <<rows, calls, sessions, codes, granted>>
    BY DEF Finish, vars
  <1>4. reqs'[c] = IdleReq
    BY <1>2, <1>3, ReqFrame DEF EndpointInv, EndpointTypeOK
  <1>5. seen' \in [Calls -> [tokens : SUBSET Tokens, sessions : SUBSET SessionTokens]]
    <2>1. Unseen \in [tokens : SUBSET Tokens, sessions : SUBSET SessionTokens]
      BY DEF Unseen
    <2>2. QED
      BY <2>1 DEF Finish, EndpointInv, EndpointTypeOK
  <1>6. Carries(c)' /\ Bound(c)'
    BY <1>1, <1>2, <1>3, <1>4 DEF Carries, Bound, Pending
  <1>7. \A x : ~Holds(c, x)'
    BY <1>2, <1>4 DEF Holds
  <1>8. SessionsGrow
    BY <1>3 DEF SessionsGrow
  <1>9. QED
    BY <1>2, <1>3, <1>5, <1>6, <1>7, <1>8, Quiet DEF EndpointInv, EndpointTypeOK

\* The code a callback issues carries the session of its user.
LEMMA IssueCodePreserves ==
  ASSUME Inv, EndpointInv, NEW c \in Calls, NEW k \in Codes, IssueCode(c, k)
  PROVE  EndpointInv'
  <1> DEFINE row == [client |-> reqs[c].client, user |-> reqs[c].user,
                     session |-> reqs[c].session, expiresAt |-> now + CodeTTL]
  <1>1. /\ reqs[c].client \in Clients /\ reqs[c].user \in Users
        /\ reqs[c].session \in SessionTokens /\ calls[c].pc = "idle"
        /\ sessions[reqs[c].session] # None
        /\ sessions[reqs[c].session].user = reqs[c].user
    BY DEF IssueCode, EndpointInv, EndpointTypeOK, Carries, Bound, Pending
  <1>2. row \in CodeRow /\ row.session = reqs[c].session /\ row.user = reqs[c].user
    BY <1>1, EndpointAssumption DEF CodeRow, Inv, TypeOK
  <1>3. codes[k] = None /\ codes' = [codes EXCEPT ![k] = row]
        /\ UNCHANGED <<rows, calls, sessions, seen, granted>>
    BY DEF IssueCode, vars
  <1> HIDE DEF row
  <1>4. /\ codes' \in [Codes -> CodeRow \cup {None, Deleted}]
        /\ codes'[k] = row
        /\ \A x \in Codes : x # k => codes'[x] = codes[x]
    BY <1>2, <1>3 DEF EndpointInv, EndpointTypeOK
  <1>5. /\ reqs' \in [Calls -> Req] /\ reqs'[c].pc = "loggedIn"
        /\ \A d \in Calls : d # c => reqs'[d] = reqs[d]
    BY ToFrame DEF IssueCode, Replies, EndpointInv, EndpointTypeOK
  <1>6. Grows
    BY <1>3, <1>4, EndpointAssumption DEF Grows
  <1>7. CodeBound'
    BY <1>1, <1>2, <1>3, <1>4 DEF EndpointInv, CodeBound, HasRow
  <1>8. Carries(c)' /\ Bound(c)'
    BY <1>1, <1>3, <1>5 DEF Carries, Bound, Pending
  <1>9. \A x : ~Holds(c, x)'
    BY <1>5 DEF Holds
  <1>10. /\ sessions' \in [SessionTokens -> SessionRow \cup {None}]
         /\ seen' \in [Calls -> [tokens : SUBSET Tokens, sessions : SUBSET SessionTokens]]
    BY <1>3 DEF EndpointInv, EndpointTypeOK
  <1>11. QED
    BY <1>3, <1>4, <1>5, <1>6, <1>7, <1>8, <1>9, <1>10, OneProceeds

\* A code is deleted by the request that takes it, so no other holds it.
LEMMA TakeCodePreserves ==
  ASSUME Inv, EndpointInv, NEW c \in Calls, NEW cl \in Clients, NEW k \in Codes,
         NEW proofs \in BOOLEAN, TakeCode(c, cl, k, proofs)
  PROVE  EndpointInv'
  <1> DEFINE hit == HasRow(k) /\ codes[k].expiresAt > now /\ codes[k].client = cl /\ proofs
             r == IF hit
                  THEN [IdleReq EXCEPT !.pc = "issueRefresh", !.client = cl, !.from = k,
                                       !.user = codes[k].user,
                                       !.session = codes[k].session]
                  ELSE [IdleReq EXCEPT !.pc = "rejected"]
  <1>1. HasRow(k) => /\ codes[k].user \in Users /\ codes[k].session \in SessionTokens
                     /\ sessions[codes[k].session] # None
                     /\ sessions[codes[k].session].user = codes[k].user
    BY DEF HasRow, EndpointInv, EndpointTypeOK, CodeRow, CodeBound
  <1>2. /\ r \in Req /\ r.pc \in {"issueRefresh", "rejected"}
        /\ r.pc = "issueRefresh" =>
             /\ HasRow(k) /\ r.client = cl /\ r.from = k
             /\ r.user = codes[k].user /\ r.session = codes[k].session
    BY <1>1, IdleReqType DEF IdleReq, Req, Pending, Replies
  <1>3. /\ reqs' = [reqs EXCEPT ![c] = r]
        /\ codes' = [codes EXCEPT ![k] = Taken(k)]
        /\ UNCHANGED <<rows, calls, sessions, granted>>
    BY DEF TakeCode, vars
  <1> HIDE DEF r, hit
  <1>4. /\ reqs' \in [Calls -> Req] /\ reqs'[c] = r
        /\ \A d \in Calls : d # c => reqs'[d] = reqs[d]
    BY <1>2, <1>3, ReqFrame DEF EndpointInv, EndpointTypeOK
  <1>5. /\ calls[c].pc = "idle"
        /\ seen' \in [Calls -> [tokens : SUBSET Tokens, sessions : SUBSET SessionTokens]]
    BY ArriveFrame DEF TakeCode, EndpointInv
  <1>6. /\ codes' \in [Codes -> CodeRow \cup {None, Deleted}]
        /\ HasRow(k) => codes'[k] = Deleted
        /\ codes[k] = Deleted => codes'[k] = Deleted
        /\ \A x \in Codes : codes'[x] = codes[x] \/ codes'[x] = Deleted
    BY <1>3 DEF Taken, HasRow, EndpointInv, EndpointTypeOK
  <1>7. Grows
    BY <1>3, <1>6 DEF Grows
  <1>8. CodeBound'
    BY <1>3, <1>6 DEF EndpointInv, CodeBound, HasRow
  <1>9. Carries(c)' /\ Bound(c)'
    BY <1>1, <1>2, <1>3, <1>4, <1>5 DEF Carries, Bound, Pending
  <1>10. ASSUME NEW x \in Tokens \cup Codes, Holds(c, x)'
         PROVE  /\ Gone(x)'
                /\ \A d \in Calls : Holds(d, x)' => d = c
                /\ \A g \in granted : g.from # x
    <2>1. x = k /\ HasRow(k)
      BY <1>2, <1>4, <1>10 DEF Holds
    <2>2. ~Gone(k)
      BY <2>1, EndpointAssumption DEF Gone, HasRow
    <2>3. Gone(x)'
      BY <1>6, <2>1 DEF Gone
    <2>4. \A d \in Calls : d # c => ~Holds(d, x)'
      <3>1. \A d \in Calls : ~Holds(d, k)
        BY <2>2 DEF EndpointInv, HeldOnce
      <3>2. QED
        BY <1>3, <1>4, <2>1, <3>1 DEF Holds
    <2>5. \A g \in granted : g.from # x
      BY <2>1, <2>2 DEF EndpointInv, HeldOnce
    <2>6. QED
      BY <2>3, <2>4, <2>5
  <1>11. sessions' \in [SessionTokens -> SessionRow \cup {None}]
    BY <1>3 DEF EndpointInv, EndpointTypeOK
  <1>12. QED
    BY <1>3, <1>4, <1>5, <1>6, <1>7, <1>8, <1>9, <1>10, <1>11, OneProceeds

\* The sweep deletes codes, which no request relies on.
LEMMA SweepCodesPreserves ==
  ASSUME Inv, EndpointInv, SweepCodes
  PROVE  EndpointInv'
  <1>1. UNCHANGED <<rows, calls, sessions, reqs, seen, granted>>
    BY DEF SweepCodes, vars
  <1>2. /\ codes' \in [Codes -> CodeRow \cup {None, Deleted}]
        /\ \A x \in Codes : codes'[x] = codes[x] \/ codes'[x] = Deleted
    BY DEF SweepCodes, EndpointInv, EndpointTypeOK
  <1>3. Grows
    BY <1>1, <1>2 DEF Grows
  <1>4. CodeBound'
    BY <1>1, <1>2 DEF EndpointInv, CodeBound, HasRow
  <1>5. /\ sessions' \in [SessionTokens -> SessionRow \cup {None}]
        /\ reqs' \in [Calls -> Req]
        /\ seen' \in [Calls -> [tokens : SUBSET Tokens, sessions : SUBSET SessionTokens]]
    BY <1>1 DEF EndpointInv, EndpointTypeOK
  <1>6. QED
    BY <1>1, <1>2, <1>3, <1>4, <1>5, Proceeds, {} \in SUBSET Calls

\* A refresh that begins has consumed nothing yet.
LEMMA StartRefreshPreserves ==
  ASSUME Inv, EndpointInv, NEW c \in Calls, NEW cl \in Clients, NEW t \in Tokens,
         StartRefresh(c, cl, t)
  PROVE  EndpointInv'
  <1> DEFINE r == [IdleReq EXCEPT !.pc = "rotating", !.client = cl, !.from = t]
  <1>1. r \in Req /\ r.pc = "rotating" /\ r.client = cl /\ r.from = t
    BY IdleReqType DEF IdleReq, Req, Pending
  <1>2. /\ reqs' = [reqs EXCEPT ![c] = r]
        /\ UNCHANGED <<rows, sessions, codes, granted>>
    BY DEF StartRefresh, RotateFind
  <1> HIDE DEF r
  <1>3. /\ reqs' \in [Calls -> Req] /\ reqs'[c] = r
        /\ \A d \in Calls : d # c => reqs'[d] = reqs[d]
    BY <1>1, <1>2, ReqFrame DEF EndpointInv, EndpointTypeOK
  <1>4. /\ calls'[c].pc \in {"unknown", "kill", "consume"} /\ calls'[c].token = t
        /\ \A d \in Calls : d # c => calls'[d] = calls[d]
    BY DEF StartRefresh, RotateFind, Branch, Inv, TypeOK
  <1>5. seen' \in [Calls -> [tokens : SUBSET Tokens, sessions : SUBSET SessionTokens]]
    BY ArriveFrame DEF StartRefresh, EndpointInv
  <1>6. Carries(c)' /\ Bound(c)'
    BY <1>1, <1>3, <1>4 DEF Carries, Bound, Pending
  <1>7. \A x : ~Holds(c, x)'
    BY <1>1, <1>3, <1>4 DEF Holds
  <1>8. Grows /\ CodeBound'
    BY <1>2 DEF Grows, EndpointInv, CodeBound, HasRow
  <1>9. /\ sessions' \in [SessionTokens -> SessionRow \cup {None}]
        /\ codes' \in [Codes -> CodeRow \cup {None, Deleted}]
    BY <1>2 DEF EndpointInv, EndpointTypeOK
  <1>10. QED
    BY <1>2, <1>3, <1>4, <1>5, <1>6, <1>7, <1>8, <1>9, OneProceeds

\* A rotation that wins the consume found its token unrevoked: nobody holds it, and
\* nobody was answered for it.
LEMMA RotatePreserves ==
  ASSUME Inv, EndpointInv, NEW c \in Calls, Rotate(c)
  PROVE  EndpointInv'
  <1> DEFINE tok == calls[c].token
  <1>1. calls[c].pc \in Working /\ UNCHANGED <<sessions, codes, reqs, seen, granted>>
    BY DEF Rotate, RotateConsume, RotateKill, RotateFail, RotateMint, Working, epVars
  <1>2. /\ reqs[c].pc = "rotating" /\ reqs[c].client \in Clients
        /\ reqs[c].from \in Tokens /\ tok = reqs[c].from
    BY <1>1 DEF EndpointInv, EndpointTypeOK, Carries, Bound, Working
  <1>3. [Next]_vars
    BY DEF Rotate, Next
  <1>4. Grows
    BY <1>1, <1>3, RowsGrow DEF Grows
  <1>5. /\ calls'[c].pc \in {"mint", "kill", "reuse", "failed", "rotated"}
        /\ calls'[c].token = tok
        /\ \A d \in Calls : d # c => calls'[d] = calls[d]
        /\ calls'[c].pc \in {"mint", "rotated"} =>
             \/ calls[c].pc = "mint"
             \/ calls[c].pc = "consume" /\ Won(c) /\ rows' = Revoked({tok})
    <2>1. calls \in [Calls -> Call] /\ TypeOK
      BY DEF Inv, TypeOK
    <2>2. CASE RotateConsume(c)
      <3>1. calls' = Goto(c, IF Won(c) THEN "mint" ELSE "kill")
        BY <2>2 DEF RotateConsume
      <3>2. (IF Won(c) THEN "mint" ELSE "kill") \in Working \cup Results
        BY DEF Working
      <3>3. /\ calls'[c].pc = (IF Won(c) THEN "mint" ELSE "kill") /\ calls'[c].token = tok
            /\ \A d \in Calls : d # c => calls'[d] = calls[d]
        BY <2>1, <3>1, <3>2, GotoFrame
      <3>4. QED
        BY <2>2, <3>3 DEF RotateConsume
    <2>3. CASE RotateKill(c)
      BY <2>1, <2>3, GotoFrame DEF RotateKill, Results
    <2>4. CASE RotateFail(c)
      BY <2>1, <2>4, GotoFrame DEF RotateFail, Results
    <2>5. CASE \E t \in Tokens : RotateMint(c, t)
      <3>1. PICK t \in Tokens : RotateMint(c, t)
        BY <2>5
      <3>2. calls'[c] = [calls[c] EXCEPT !.pc = "rotated", !.next = t]
        BY <2>1, <3>1 DEF RotateMint
      <3>3. calls'[c].pc = "rotated" /\ calls'[c].token = tok
        BY <2>1, <3>2 DEF Call
      <3>4. \A d \in Calls : d # c => calls'[d] = calls[d]
        BY <2>1, <3>1 DEF RotateMint
      <3>5. calls[c].pc = "mint"
        BY <3>1 DEF RotateMint
      <3>6. QED
        BY <3>3, <3>4, <3>5
    <2>6. QED
      BY <2>2, <2>3, <2>4, <2>5 DEF Rotate
  <1>6. Carries(c)' /\ Bound(c)'
    BY <1>1, <1>2, <1>5 DEF Carries, Bound, Pending
  <1>7. ASSUME NEW x \in Tokens \cup Codes, Holds(c, x)'
        PROVE  /\ Gone(x)'
               /\ \A d \in Calls : Holds(d, x)' => d = c
               /\ \A g \in granted : g.from # x
    <2>1. x = tok /\ x \in Tokens /\ x \notin Codes /\ calls'[c].pc \in {"mint", "rotated"}
      BY <1>1, <1>2, <1>7, EndpointAssumption DEF Holds
    <2>2. \A d \in Calls : d # c => (Holds(d, x)' <=> Holds(d, x))
      BY <1>1, <1>5 DEF Holds
    <2>3. CASE calls[c].pc = "mint"
      <3>1. Holds(c, x)
        BY <1>2, <2>1, <2>3 DEF Holds
      <3>2. Gone(x)'
        BY <1>4, <3>1 DEF EndpointInv, HeldOnce, Gone, Grows
      <3>3. QED
        BY <2>2, <3>1, <3>2 DEF EndpointInv, HeldOnce
    <2>4. CASE calls[c].pc = "consume" /\ Won(c) /\ rows' = Revoked({tok})
      <3>1. rows[x] # None /\ ~rows[x].revoked
        BY <2>1, <2>4 DEF Won, Inv, CallRow, Started, Working
      <3>2. ~Gone(x)
        BY <2>1, <3>1 DEF Gone
      <3>3. rows'[x] # None /\ rows'[x].revoked
        BY <2>1, <2>4, <3>1, RevokedFrame DEF Inv, TypeOK
      <3>4. QED
        BY <2>1, <2>2, <3>2, <3>3 DEF EndpointInv, HeldOnce, Gone
    <2>5. QED
      BY <1>5, <2>1, <2>3, <2>4
  <1>8. CodeBound'
    BY <1>1 DEF EndpointInv, CodeBound, HasRow
  <1>9. /\ sessions' \in [SessionTokens -> SessionRow \cup {None}]
        /\ codes' \in [Codes -> CodeRow \cup {None, Deleted}]
        /\ reqs' \in [Calls -> Req]
        /\ seen' \in [Calls -> [tokens : SUBSET Tokens, sessions : SUBSET SessionTokens]]
    BY <1>1 DEF EndpointInv, EndpointTypeOK
  <1>10. QED
    BY <1>1, <1>4, <1>5, <1>6, <1>7, <1>8, <1>9, OneProceeds

\* What a rotation hands over is of the client and the user of the token it was
\* given: the chain's identity, through FamilyBinding.
LEMMA SettlePreserves ==
  ASSUME Inv, EndpointInv, NEW c \in Calls, SettleRefresh(c)
  PROVE  EndpointInv'
  <1> DEFINE r == [reqs[c] EXCEPT !.pc = Outcome(c),
                     !.user = IF calls[c].pc = "rotated" THEN calls[c].row.user ELSE None,
                     !.refresh = calls[c].next]
  <1>1. /\ reqs[c] \in Req /\ reqs[c].pc = "rotating" /\ calls[c].pc \in Results
        /\ reqs[c].client \in Clients /\ reqs[c].from \in Tokens
        /\ calls[c] \in Call /\ calls[c].token = reqs[c].from
    BY DEF SettleRefresh, Return, EndpointInv, EndpointTypeOK, Carries, Bound, Inv, TypeOK
  <1>2. calls[c].pc = "rotated" =>
          /\ calls[c].row \in Row /\ calls[c].next \in Tokens /\ rows[calls[c].next] # None
          /\ rows[calls[c].next].user = calls[c].row.user
          /\ rows[calls[c].next].client = calls[c].row.client
    BY <1>1 DEF Inv, TypeOK, CallRow, Started, FamilyBinding
  <1>3. /\ Outcome(c) \in {"reuse", "error", "sweep", "rejected"}
        /\ Outcome(c) = "sweep" =>
             calls[c].pc = "rotated" /\ calls[c].row.client = reqs[c].client
    BY DEF Outcome, SameClient
  <1>4. (IF calls[c].pc = "rotated" THEN calls[c].row.user ELSE None) \in Users \cup {None}
    BY <1>2 DEF Row
  <1>5. /\ r \in Req /\ r.pc = Outcome(c) /\ r.from = reqs[c].from
        /\ r.client = reqs[c].client /\ r.refresh = calls[c].next
        /\ calls[c].pc = "rotated" => r.user = calls[c].row.user
    <2>1. Outcome(c) \in Pending \cup Replies /\ calls[c].next \in Tokens \cup {None}
      BY <1>1, <1>3 DEF Pending, Replies, Call
    <2>2. QED
      BY <1>1, <1>4, <2>1, ZenonT(30) DEF Req
  <1>6. /\ reqs' = [reqs EXCEPT ![c] = r]
        /\ UNCHANGED <<rows, sessions, codes, seen, granted>>
    BY <1>1 DEF SettleRefresh, Return, EndpointInv, EndpointTypeOK
  <1> HIDE DEF r
  <1>7. /\ reqs' \in [Calls -> Req] /\ reqs'[c] = r
        /\ \A d \in Calls : d # c => reqs'[d] = reqs[d]
    BY <1>5, <1>6, ReqFrame DEF EndpointInv, EndpointTypeOK
  <1>8. /\ calls'[c].pc = "idle"
        /\ \A d \in Calls : d # c => calls'[d] = calls[d]
    BY DEF SettleRefresh, Return, IdleCall, Inv, TypeOK
  <1>9. Carries(c)' /\ Bound(c)'
    BY <1>1, <1>2, <1>3, <1>5, <1>6, <1>7, <1>8 DEF Carries, Bound, Pending, Row
  <1>10. \A x : Holds(c, x)' => Holds(c, x)
    BY <1>1, <1>3, <1>5, <1>7, <1>8 DEF Holds
  <1>11. \A x \in Tokens \cup Codes : Holds(c, x)' =>
          /\ Gone(x)'
          /\ \A d \in Calls : Holds(d, x)' => d = c
          /\ \A g \in granted : g.from # x
    <2>1. \A d \in Calls : \A x : Holds(d, x)' => Holds(d, x)
      BY <1>7, <1>8, <1>10 DEF Holds
    <2>2. QED
      BY <1>6, <2>1 DEF EndpointInv, HeldOnce, Gone
  <1>12. Grows /\ CodeBound'
    BY <1>6 DEF Grows, EndpointInv, CodeBound, HasRow
  <1>13. /\ sessions' \in [SessionTokens -> SessionRow \cup {None}]
         /\ codes' \in [Codes -> CodeRow \cup {None, Deleted}]
         /\ seen' \in [Calls -> [tokens : SUBSET Tokens, sessions : SUBSET SessionTokens]]
    BY <1>6 DEF EndpointInv, EndpointTypeOK
  <1>14. QED
    BY <1>6, <1>7, <1>8, <1>9, <1>11, <1>12, <1>13, OneProceeds

\* A revocation's next statement revokes rows and keeps them all.
LEMMA CascadePreserves ==
  ASSUME Inv, EndpointInv, [Next]_vars, NEW c \in Calls, NEW ok \in BOOLEAN, Cascade(c, ok)
  PROVE  EndpointInv'
  <1> DEFINE rest == Tail(reqs[c].todo)
             next == IF rest = <<>> THEN "revoked" ELSE "cascade"
             failed == IF ok THEN reqs[c].failed ELSE reqs[c].failed \cup {Head(reqs[c].todo)}
             r == [reqs[c] EXCEPT !.todo = rest, !.failed = failed, !.pc = next]
  <1>1. /\ reqs[c] \in Req /\ calls[c].pc = "idle" /\ reqs[c].user \in Users
        /\ reqs[c].todo # <<>>
    BY DEF Cascade, EndpointInv, EndpointTypeOK, Carries, Pending
  <1>2. rest \in Seq({"refresh", "sessions"})
    BY <1>1 DEF Req
  <1>3. next \in {"revoked", "cascade"} /\ (next = "cascade" => rest # <<>>)
    OBVIOUS
  <1>4. failed \in SUBSET {"refresh", "sessions"}
    <2>1. reqs[c].todo \in Seq({"refresh", "sessions"}) /\ reqs[c].failed \in SUBSET {"refresh", "sessions"}
      BY <1>1 DEF Req
    <2>2. Head(reqs[c].todo) \in {"refresh", "sessions"}
      BY <1>1, <2>1
    <2> QED  BY <2>1, <2>2
  <1>5. reqs' = [reqs EXCEPT ![c] = r]
    BY <1>1 DEF Cascade, GoOn, EndpointInv, EndpointTypeOK
  <1> HIDE DEF rest, next, failed
  <1>6. r \in Req /\ r.pc = next /\ r.todo = rest /\ r.user = reqs[c].user
    <2>1. next \in Pending \cup Replies
      BY <1>3 DEF Pending, Replies
    <2>2. QED
      BY <1>1, <1>2, <1>4, <2>1, ZenonT(30) DEF Req
  <1> HIDE DEF r
  <1>7. /\ reqs' \in [Calls -> Req] /\ reqs'[c] = r
        /\ \A d \in Calls : d # c => reqs'[d] = reqs[d]
    BY <1>5, <1>6, ReqFrame DEF EndpointInv, EndpointTypeOK
  <1>8. UNCHANGED <<calls, codes, seen, granted>>
    BY DEF Cascade, RevokeRefresh, RevokeAllForUser, vars
  <1>9. sessions' \in [SessionTokens -> SessionRow \cup {None}] /\ SessionsGrow
    BY RevokedSessionsFrame DEF Cascade, SessionsGrow, EndpointInv, EndpointTypeOK
  <1>10. Grows
    BY <1>8, <1>9, RowsGrow DEF Grows, SessionsGrow
  <1>11. CodeBound'
    BY <1>8, <1>9 DEF EndpointInv, EndpointTypeOK, CodeBound, CodeRow, HasRow, SessionsGrow
  <1>12. Carries(c)' /\ Bound(c)'
    BY <1>1, <1>3, <1>6, <1>7, <1>8 DEF Carries, Bound, Pending
  <1>13. \A x : ~Holds(c, x)'
    BY <1>3, <1>6, <1>7 DEF Holds
  <1>14. /\ codes' \in [Codes -> CodeRow \cup {None, Deleted}]
         /\ seen' \in [Calls -> [tokens : SUBSET Tokens, sessions : SUBSET SessionTokens]]
    BY <1>8 DEF EndpointInv, EndpointTypeOK
  <1>15. QED
    BY <1>7, <1>8, <1>9, <1>10, <1>11, <1>12, <1>13, <1>14, OneProceeds

\* A code is answered with its own session and a refresh token minted for its
\* client and its user.
LEMMA GrantCodePreserves ==
  ASSUME Inv, EndpointInv, [Next]_vars,
         NEW c \in Calls, NEW f \in Families, NEW t \in Tokens, GrantCode(c, f, t)
  PROVE  EndpointInv'
  <1> DEFINE access == reqs[c].session
             row == NewRow(reqs[c].user, reqs[c].client, f)
  <1>1. /\ reqs[c].pc = "issueRefresh"
        /\ reqs[c].user \in Users /\ reqs[c].client \in Clients
        /\ reqs[c].from \in Tokens \cup Codes /\ access \in SessionTokens
        /\ sessions[access] # None /\ sessions[access].user = reqs[c].user
    BY DEF GrantCode, EndpointInv, EndpointTypeOK, Carries, Bound, Pending
  <1>2. TypeOK
    BY DEF Inv
  <1>3. row \in Row /\ row.user = reqs[c].user /\ row.client = reqs[c].client
    BY <1>1, <1>2, NewRowType
  <1>4. rows' = [rows EXCEPT ![t] = row] /\ UNCHANGED <<calls, sessions, codes, seen>>
    BY DEF GrantCode, Issue
  <1> HIDE DEF row
  <1>5. rows'[t] = row /\ row # None
    BY <1>2, <1>3, <1>4, NewRowFrame
  <1>6. /\ reqs' \in [Calls -> Req] /\ reqs'[c].pc = "granted"
        /\ \A d \in Calls : d # c => reqs'[d] = reqs[d]
    BY ToFrame DEF GrantCode, Replies, EndpointInv, EndpointTypeOK
  <1>7. Grows
    BY <1>4, RowsGrow DEF Grows
  <1>8. sessions' \in [SessionTokens -> SessionRow \cup {None}]
    BY <1>4 DEF EndpointInv, EndpointTypeOK
  <1>9. Grant(c, access, t)
    BY DEF GrantCode
  <1> HIDE DEF access
  <1>10. QED
    BY <1>1, <1>3, <1>4, <1>5, <1>6, <1>7, <1>8, <1>9, Answers

\* A rotation is answered with a new session of the user of the rotated token.
LEMMA GrantRefreshPreserves ==
  ASSUME Inv, EndpointInv, NEW c \in Calls, NEW s \in SessionTokens, GrantRefresh(c, s)
  PROVE  EndpointInv'
  <1> DEFINE refresh == reqs[c].refresh
  <1>1. /\ reqs[c].pc = "issueSession"
        /\ reqs[c].user \in Users /\ reqs[c].client \in Clients
        /\ reqs[c].from \in Tokens \cup Codes /\ refresh \in Tokens
        /\ rows[refresh] # None
        /\ rows[refresh].client = reqs[c].client
        /\ rows[refresh].user = reqs[c].user
    BY DEF GrantRefresh, EndpointInv, EndpointTypeOK, Carries, Bound, Pending
  <1>2. sessions[s] = None /\ UNCHANGED <<rows, calls, codes, seen>>
    BY DEF GrantRefresh, vars
  <1>3. /\ sessions' \in [SessionTokens -> SessionRow \cup {None}]
        /\ sessions'[s] # None /\ sessions'[s].user = reqs[c].user
        /\ \A x \in SessionTokens : x # s => sessions'[x] = sessions[x]
    BY <1>1, NewSessionFrame DEF GrantRefresh, Inv, EndpointInv, EndpointTypeOK
  <1>4. /\ reqs' \in [Calls -> Req] /\ reqs'[c].pc = "granted"
        /\ \A d \in Calls : d # c => reqs'[d] = reqs[d]
    BY ToFrame DEF GrantRefresh, Replies, EndpointInv, EndpointTypeOK
  <1>5. Grows
    BY <1>2, <1>3 DEF Grows
  <1>6. Grant(c, s, refresh)
    BY DEF GrantRefresh
  <1> HIDE DEF refresh
  <1>7. QED
    BY <1>1, <1>2, <1>3, <1>4, <1>5, <1>6, Answers

\* The clock, and stuttering, change nothing the endpoints' invariant is about.
LEMMA ClockPreserves ==
  ASSUME Inv, EndpointInv, UNCHANGED <<rows, calls, sessions, codes, reqs, seen, granted>>
  PROVE  EndpointInv'
  <1>1. Grows /\ CodeBound'
    BY DEF Grows, EndpointInv, CodeBound, HasRow
  <1>2. /\ sessions' \in [SessionTokens -> SessionRow \cup {None}]
        /\ codes' \in [Codes -> CodeRow \cup {None, Deleted}]
        /\ reqs' \in [Calls -> Req]
        /\ seen' \in [Calls -> [tokens : SUBSET Tokens, sessions : SUBSET SessionTokens]]
    BY DEF EndpointInv, EndpointTypeOK
  <1>3. QED
    BY <1>1, <1>2, Proceeds, {} \in SUBSET Calls

-----------------------------------------------------------------------------
(* The invariant, and the properties it implies.                           *)

\* With the service's, the endpoints' invariant is inductive.
LEMMA EndpointInvInductive ==
  /\ EndpointInit => Inv /\ EndpointInv
  /\ Inv /\ EndpointInv /\ [EndpointNext]_<<vars, epVars>> => (Inv /\ EndpointInv)'
  <1>1. ASSUME EndpointInit PROVE Inv /\ EndpointInv
    <2>1. Inv
      BY <1>1, InvInductive DEF EndpointInit
    <2>2. Unseen \in [tokens : SUBSET Tokens, sessions : SUBSET SessionTokens]
      BY DEF Unseen
    <2>3. \A c \in Calls : reqs[c] = IdleReq /\ reqs[c].pc = "idle" /\ calls[c].pc = "idle"
      BY <1>1 DEF EndpointInit, Init, IdleReq, IdleCall
    <2>4. \A c \in Calls : Carries(c) /\ Bound(c) /\ \A x : ~Holds(c, x)
      BY <2>3 DEF Carries, Bound, Holds, Pending
    <2>5. EndpointTypeOK
      BY <1>1, <2>2, <2>4, IdleReqType DEF EndpointInit, EndpointTypeOK
    <2>6. CodeBound /\ GrantBinding /\ HeldOnce /\ SingleUse
      BY <1>1, <2>4
         DEF EndpointInit, CodeBound, HasRow, GrantBinding, HeldOnce, SingleUse
    <2>7. QED
      BY <2>1, <2>4, <2>5, <2>6 DEF EndpointInv
  <1>2. ASSUME Inv, EndpointInv, [EndpointNext]_<<vars, epVars>>
        PROVE  (Inv /\ EndpointInv)'
    <2>1. [Next]_vars
      BY <1>2, EndpointStep DEF EndpointInv
    <2>2. Inv'
      BY <1>2, <2>1, InvInductive
    <2>3. ASSUME NEW c \in Calls, NEW cl \in Clients,
                 \/ \E k \in Codes, proofs \in BOOLEAN : TakeCode(c, cl, k, proofs)
                 \/ \E t \in Tokens : StartRefresh(c, cl, t)
          PROVE  EndpointInv'
      BY <1>2, <2>3, TakeCodePreserves, StartRefreshPreserves
    <2>4. ASSUME NEW c \in Calls, NEW ok \in BOOLEAN,
                 \/ SweepSessions(c, ok) \/ RevokeLookup(c, ok) \/ Cascade(c, ok)
                 \/ \E token \in Tokens \cup SessionTokens : StartRevoke(c, token, ok)
          PROVE  EndpointInv'
      BY <1>2, <2>1, <2>4, SweepSessionsPreserves, RevokeLookupPreserves, CascadePreserves,
         StartRevokePreserves
    <2>5. ASSUME NEW c \in Calls, NEW s \in SessionTokens,
                 \/ GrantRefresh(c, s) \/ Logout(c, s)
                 \/ \E u \in Users : Login(c, u, s)
          PROVE  EndpointInv'
      BY <1>2, <2>5, GrantRefreshPreserves, LogoutPreserves, LoginPreserves
    <2>6. ASSUME NEW c \in Calls,
                 \/ \E cl \in Clients \cup {None} : TakeParked(c, cl)
                 \/ \E k \in Codes : IssueCode(c, k)
                 \/ \E f \in Families, t \in Tokens : GrantCode(c, f, t)
          PROVE  EndpointInv'
      BY <1>2, <2>1, <2>6, TakeParkedPreserves, IssueCodePreserves, GrantCodePreserves
    <2>7. ASSUME NEW c \in Calls, Rotate(c) \/ SettleRefresh(c) \/ Drop(c) \/ Finish(c)
          PROVE  EndpointInv'
      BY <1>2, <2>7, RotatePreserves, SettlePreserves, DropPreserves, FinishPreserves
    <2>8. ASSUME SweepCodes PROVE EndpointInv'
      BY <1>2, <2>8, SweepCodesPreserves
    <2>9. ASSUME ClockTick \/ UNCHANGED <<vars, epVars>> PROVE EndpointInv'
      BY <1>2, <2>9, ClockPreserves DEF ClockTick, Tick, vars, epVars
    <2>10. EndpointInv'
      BY <1>2, <2>3, <2>4, <2>5, <2>6, <2>7, <2>8, <2>9 DEF EndpointNext
    <2>11. QED
      BY <2>2, <2>10
  <1>3. QED
    BY <1>1, <1>2

\* A request begins to rotate by StartRefresh.
LEMMA OnlyStartRefreshRotates ==
  ASSUME EndpointTypeOK, EndpointNext, NEW c \in Calls,
         reqs[c].pc = "idle", reqs'[c].pc = "rotating"
  PROVE  \E cl \in Clients, t \in Tokens : StartRefresh(c, cl, t)
  <1>1. reqs \in [Calls -> Req]
    BY DEF EndpointTypeOK
  <1>2. ASSUME NEW d \in Calls,
               \/ \E u \in Users, s \in SessionTokens : Login(d, u, s)
               \/ \E cl \in Clients, k \in Codes, proofs \in BOOLEAN : TakeCode(d, cl, k, proofs)
               \/ \E token \in Tokens \cup SessionTokens, ok \in BOOLEAN : StartRevoke(d, token, ok)
               \/ \E s \in SessionTokens : Logout(d, s)
        PROVE  FALSE
    <2>1. ASSUME NEW u \in Users, NEW s \in SessionTokens, Login(d, u, s) PROVE FALSE
      BY <1>1, <2>1 DEF Login, IdleReq
    <2>2. ASSUME NEW cl \in Clients, NEW k \in Codes, NEW proofs \in BOOLEAN,
                 TakeCode(d, cl, k, proofs)
          PROVE  FALSE
      BY <1>1, <2>2 DEF TakeCode, IdleReq
    <2>3. ASSUME NEW token \in Tokens \cup SessionTokens, NEW ok \in BOOLEAN,
                 StartRevoke(d, token, ok)
          PROVE  FALSE
      BY <1>1, <2>3 DEF StartRevoke, IdleReq
    <2>4. ASSUME NEW s \in SessionTokens, Logout(d, s) PROVE FALSE
      BY <1>1, <2>4 DEF Logout, IdleReq
    <2>5. QED
      BY <1>2, <2>1, <2>2, <2>3, <2>4
  <1>3. ASSUME NEW d \in Calls,
               \/ \E cl \in Clients \cup {None} : TakeParked(d, cl)
               \/ \E k \in Codes : IssueCode(d, k)
               \/ \E f \in Families, t \in Tokens : GrantCode(d, f, t)
               \/ SettleRefresh(d)
        PROVE  FALSE
    BY <1>1, <1>3 DEF TakeParked, IssueCode, GrantCode, SettleRefresh, Outcome, To
  <1>4. ASSUME NEW d \in Calls,
               \/ \E ok \in BOOLEAN : SweepSessions(d, ok)
               \/ \E s \in SessionTokens : GrantRefresh(d, s)
               \/ \E ok \in BOOLEAN : RevokeLookup(d, ok)
               \/ \E ok \in BOOLEAN : Cascade(d, ok)
               \/ Drop(d) \/ Finish(d)
        PROVE  FALSE
    <2>1. ASSUME NEW ok \in BOOLEAN, SweepSessions(d, ok) PROVE FALSE
      BY <1>1, <2>1 DEF SweepSessions
    <2>2. ASSUME NEW ok \in BOOLEAN, RevokeLookup(d, ok) PROVE FALSE
      <3>1. reqs[d].pc = "lookup" /\ (d # c => reqs'[c] = reqs[c])
        BY <1>1, <2>2 DEF RevokeLookup
      <3>2. QED
        BY <1>1, <2>2, <3>1 DEF RevokeLookup
    <2>3. ASSUME NEW ok \in BOOLEAN, Cascade(d, ok) PROVE FALSE
      <3> DEFINE rest == Tail(reqs[d].todo)
                 failed == IF ok THEN reqs[d].failed ELSE reqs[d].failed \cup {Head(reqs[d].todo)}
                 next == IF rest = <<>> THEN "revoked" ELSE "cascade"
                 r == [reqs[d] EXCEPT !.todo = rest, !.failed = failed, !.pc = next]
      <3>1. reqs[d].pc = "cascade" /\ reqs' = [reqs EXCEPT ![d] = r]
        BY <1>1, <2>3 DEF Cascade, GoOn
      <3> HIDE DEF r
      <3>2. d # c => reqs'[c] = reqs[c]
        BY <1>1, <3>1
      <3>3. QED
        BY <1>1, <3>1, <3>2
    <2>4. ASSUME NEW s \in SessionTokens, GrantRefresh(d, s) PROVE FALSE
      BY <1>1, <2>4 DEF GrantRefresh, To
    <2>5. ASSUME Drop(d) PROVE FALSE
      BY <1>1, <2>5 DEF Drop, To
    <2>6. ASSUME Finish(d) PROVE FALSE
      BY <1>1, <2>6 DEF Finish, IdleReq
    <2>7. QED
      BY <1>4, <2>1, <2>2, <2>3, <2>4, <2>5, <2>6
  <1>5. ASSUME NEW d \in Calls, Rotate(d) PROVE FALSE
    BY <1>5 DEF Rotate, epVars
  <1>6. ASSUME SweepCodes \/ ClockTick PROVE FALSE
    BY <1>6 DEF SweepCodes, ClockTick, epVars
  <1>7. PICK d \in Calls, cl \in Clients, t \in Tokens : StartRefresh(d, cl, t)
    BY <1>2, <1>3, <1>4, <1>5, <1>6 DEF EndpointNext
  <1>8. d = c
    BY <1>1, <1>7 DEF StartRefresh
  <1>9. QED
    BY <1>7, <1>8

\* The inductive invariant holds in every behaviour of the endpoints.
THEOREM EndpointInvariance == EndpointSpec => [](Inv /\ EndpointInv)
  BY EndpointInvInductive, PTL DEF EndpointSpec

\* At each of its statements a request has the user, client, session and token
\* that the statement needs.
THEOREM EndpointTypes == EndpointSpec => []EndpointTypeOK
  <1>1. EndpointInv => EndpointTypeOK
    BY DEF EndpointInv
  <1>2. QED
    BY <1>1, EndpointInvariance, PTL

\* The endpoints, whatever their schedule, are clients of the refresh-token
\* service: what is proved of Spec holds under them.
THEOREM EndpointsImplementService == EndpointSpec => ImplementsService
  <1>1. EndpointInit => Init
    BY DEF EndpointInit
  <1>2. Inv /\ EndpointInv /\ [EndpointNext]_<<vars, epVars>> => [Next]_vars
    BY EndpointStep DEF EndpointInv
  <1>3. QED
    BY <1>1, <1>2, EndpointInvariance, PTL DEF EndpointSpec, ImplementsService, Spec

\* So under the endpoints, too, a chain never forks, has one winner per token and one
\* owner, is dead for good once it is, and goes on as the rotation promise says.
THEOREM ServiceUnderEndpoints ==
  EndpointSpec => /\ [](AtMostOneActive /\ SingleWinner /\ FamilyBinding)
                  /\ DeadStaysDead /\ ImplementsRotation
  BY EndpointsImplementService, NoFork, OneWinner, ChainIdentity, DeadForever,
     Implementation, PTL DEF ImplementsService

\* No token response ever mixes users or clients: what is answered for one
\* client's code or token is never another's.
THEOREM GrantsBound == EndpointSpec => []GrantBinding
  <1>1. EndpointInv => GrantBinding
    BY DEF EndpointInv
  <1>2. QED
    BY <1>1, EndpointInvariance, PTL

\* A code or a refresh token is answered with tokens at most once, whatever
\* requests race for it.
THEOREM GrantedOnce == EndpointSpec => []SingleUse
  <1>1. EndpointInv => SingleUse
    BY DEF EndpointInv
  <1>2. QED
    BY <1>1, EndpointInvariance, PTL

\* A replay of a refresh token that was answered is always recognised: its row is
\* there, and revoked, for good.
THEOREM ReplaysCaught == EndpointSpec => ReplaysRecognised
  <1>1. ASSUME Inv, EndpointInv, EndpointNext, NEW c \in Calls,
               reqs[c].pc = "idle", reqs'[c].pc = "rotating",
               NEW g \in granted, g.from = reqs'[c].from
        PROVE  calls'[c].pc = "kill"
    <2>1. PICK cl \in Clients, t \in Tokens : StartRefresh(c, cl, t)
      BY <1>1, OnlyStartRefreshRotates DEF EndpointInv
    <2>2. reqs'[c].from = t
      BY <1>1, <2>1 DEF StartRefresh, IdleReq, EndpointInv, EndpointTypeOK
    <2>3. calls'[c].pc = Branch(t)
      BY <1>1, <2>1 DEF StartRefresh, RotateFind, Inv, TypeOK
    <2>4. t \notin Codes
      BY EndpointAssumption
    <2>5. rows[t] # None /\ rows[t].revoked
      BY <1>1, <2>2, <2>4 DEF EndpointInv, HeldOnce, Gone
    <2>6. QED
      BY <2>3, <2>5 DEF Branch
  <1>2. Inv /\ EndpointInv /\ [EndpointNext]_<<vars, epVars>> =>
          [\A c \in Calls :
             /\ reqs[c].pc = "idle" /\ reqs'[c].pc = "rotating"
             /\ \E g \in granted : g.from = reqs'[c].from
             => calls'[c].pc = "kill"]_<<vars, epVars>>
    BY <1>1
  <1>3. QED
    BY <1>2, EndpointInvariance, PTL DEF EndpointSpec, ReplaysRecognised

-----------------------------------------------------------------------------
(* What a refresh and a revocation end, and what never comes back without  *)
(* a login.                                                                *)


\* The sessions, and the refresh tokens, that the user of request c had when it came.
SeenSessionsDead(c) ==
  \A s \in seen[c].sessions : sessions[s].user = reqs[c].user => ~LiveSession(s)

SeenTokensDead(c) ==
  \A t \in seen[c].tokens : rows[t].user = reqs[c].user => ~Live(t)

\* What a revocation may still have to do.
SessionsToCome == {<<"sessions">>, <<"refresh", "sessions">>, <<"sessions", "refresh">>}
RefreshToCome == {<<"refresh">>, <<"refresh", "sessions">>, <<"sessions", "refresh">>}

\* What was seen is in the tables still, and is dead once the statement that ends it
\* was run without an error.
Ends(c) ==
  /\ \A s \in seen[c].sessions : sessions[s] # None
  /\ \A t \in seen[c].tokens : rows[t] # None
  /\ reqs[c].pc = "issueRefresh" => reqs[c].refresh = None
  /\ reqs[c].pc \in {"issueSession", "granted"} /\ reqs[c].refresh # None
     /\ "sessions" \notin reqs[c].failed => SeenSessionsDead(c)
  /\ reqs[c].pc \in {"cascade", "revoked"} =>
       /\ reqs[c].todo \in SessionsToCome \cup RefreshToCome \cup {<<>>}
       /\ "sessions" \notin reqs[c].failed /\ reqs[c].todo \notin SessionsToCome => SeenSessionsDead(c)
       /\ "refresh" \notin reqs[c].failed /\ reqs[c].todo \notin RefreshToCome => SeenTokensDead(c)
  /\ reqs[c].pc = "revoked" => reqs[c].todo = <<>>

\* No step revives or loses a session.
Dying ==
  \A s \in SessionTokens : sessions[s] # None =>
    /\ sessions'[s] # None /\ sessions'[s].user = sessions[s].user
    /\ sessions[s].revoked => sessions'[s].revoked

\* The same for the refresh tokens.
RowsDying ==
  \A t \in Tokens : rows[t] # None =>
    /\ rows'[t] # None /\ rows'[t].user = rows[t].user
    /\ rows[t].revoked => rows'[t].revoked

LEMMA RevokedDie ==
  ASSUME sessions \in [SessionTokens -> SessionRow \cup {None}], NEW S,
         sessions' = RevokedSessions(S)
  PROVE  /\ Dying
         /\ \A s \in SessionTokens : s \in S /\ sessions[s] # None => sessions'[s].revoked
<1>1. ASSUME NEW s \in SessionTokens, sessions[s] # None
      PROVE  /\ sessions'[s] # None /\ sessions'[s].user = sessions[s].user
             /\ sessions[s].revoked => sessions'[s].revoked
             /\ s \in S => sessions'[s].revoked
  <2>1. sessions[s] \in SessionRow
    BY <1>1
  <2>2. CASE s \in S
    <3>1. sessions'[s] = [sessions[s] EXCEPT !.revoked = TRUE]
      BY <1>1, <2>2 DEF RevokedSessions
    <3>2. sessions'[s] \in SessionRow
      BY <2>1, <3>1 DEF SessionRow
    <3>3. sessions'[s].user = sessions[s].user /\ sessions'[s].revoked
      BY <2>1, <3>1 DEF SessionRow
    <3> QED  BY <3>2, <3>3, EndpointAssumption
  <2>3. CASE s \notin S
    BY <1>1, <2>3 DEF RevokedSessions
  <2> QED  BY <2>2, <2>3
<1> QED  BY <1>1 DEF Dying

LEMMA SessionsDie ==
  ASSUME EndpointTypeOK, [EndpointNext]_<<vars, epVars>>
  PROVE  Dying
<1>1. sessions \in [SessionTokens -> SessionRow \cup {None}]
  BY DEF EndpointTypeOK
<1>2. ASSUME NEW S, sessions' = RevokedSessions(S)
      PROVE  Dying
  BY <1>1, <1>2, RevokedDie
<1>3. ASSUME NEW x \in SessionTokens, sessions[x] = None, NEW r,
             sessions' = [sessions EXCEPT ![x] = r]
      PROVE  Dying
  BY <1>1, <1>3 DEF Dying
<1>4. ASSUME UNCHANGED sessions
      PROVE  Dying
  BY <1>4 DEF Dying
<1>5. ASSUME NEW c \in Calls, NEW u, NEW s \in SessionTokens, Login(c, u, s) \/ GrantRefresh(c, s)
      PROVE  Dying
  <2>1. sessions[s] = None /\ \E r : sessions' = [sessions EXCEPT ![s] = r]
    BY <1>5 DEF Login, GrantRefresh
  <2> QED  BY <1>3, <2>1
<1>6. ASSUME NEW c \in Calls,
             \/ \E ok \in BOOLEAN : SweepSessions(c, ok) \/ Cascade(c, ok)
             \/ \E s \in SessionTokens : Logout(c, s)
      PROVE  Dying
  BY <1>2, <1>4, <1>6, ZenonT(40) DEF SweepSessions, Cascade, Logout
<1>7. ASSUME NEW c \in Calls,
             \/ \E cl \in Clients \cup {None} : TakeParked(c, cl)
             \/ \E k \in Codes : IssueCode(c, k)
             \/ \E cl \in Clients, k \in Codes, proofs \in BOOLEAN : TakeCode(c, cl, k, proofs)
             \/ \E f \in Families, t \in Tokens : GrantCode(c, f, t)
             \/ \E cl \in Clients, t \in Tokens : StartRefresh(c, cl, t)
      PROVE  Dying
  BY <1>4, <1>7, ZenonT(40) DEF TakeParked, IssueCode, TakeCode, GrantCode, StartRefresh
<1>8. ASSUME NEW c \in Calls,
             \/ Rotate(c) \/ SettleRefresh(c)
             \/ \E token \in Tokens \cup SessionTokens, ok \in BOOLEAN : StartRevoke(c, token, ok)
             \/ \E ok \in BOOLEAN : RevokeLookup(c, ok)
             \/ Drop(c) \/ Finish(c)
      PROVE  Dying
  BY <1>4, <1>8 DEF Rotate, SettleRefresh, StartRevoke, RevokeLookup, Drop, Finish, epVars
<1>9. CASE SweepCodes \/ ClockTick \/ UNCHANGED <<vars, epVars>>
  BY <1>4, <1>9 DEF SweepCodes, ClockTick, epVars
<1> QED  BY <1>5, <1>6, <1>7, <1>8, <1>9 DEF EndpointNext

\* What was dead when it was seen, or since, stays dead.
LEMMA SeenStaysDead ==
  ASSUME EndpointTypeOK, NEW c \in Calls, Dying, RowsDying, Ends(c),
         seen'[c] = seen[c], reqs'[c].user = reqs[c].user
  PROVE  /\ \A s \in seen'[c].sessions : sessions'[s] # None
         /\ \A t \in seen'[c].tokens : rows'[t] # None
         /\ SeenSessionsDead(c) => SeenSessionsDead(c)'
         /\ SeenTokensDead(c) => SeenTokensDead(c)'
<1>1. seen[c].sessions \subseteq SessionTokens /\ seen[c].tokens \subseteq Tokens
  BY DEF EndpointTypeOK
<1>2. \A s \in seen[c].sessions : sessions[s] # None
  BY DEF Ends
<1>3. \A t \in seen[c].tokens : rows[t] # None
  BY DEF Ends
<1>4. SeenSessionsDead(c) => SeenSessionsDead(c)'
  BY <1>1, <1>2 DEF SeenSessionsDead, LiveSession, Dying
<1>5. SeenTokensDead(c) => SeenTokensDead(c)'
  BY <1>1, <1>3 DEF SeenTokensDead, Live, RowsDying
<1> QED  BY <1>1, <1>2, <1>3, <1>4, <1>5 DEF Dying, RowsDying

\* A request that stands still, or moves without a claim to have ended anything new.
LEMMA EndsFrame ==
  ASSUME EndpointTypeOK, NEW c \in Calls, Dying, RowsDying, Ends(c),
         seen'[c] = seen[c], reqs'[c].user = reqs[c].user,
         \/ reqs'[c] = reqs[c]
         \/ reqs'[c].pc \notin {"issueRefresh", "issueSession", "granted", "cascade", "revoked"}
         \/ /\ reqs'[c].pc = "granted" /\ reqs[c].pc \in {"issueRefresh", "issueSession"}
            /\ reqs'[c].refresh = reqs[c].refresh /\ reqs'[c].failed = reqs[c].failed
  PROVE  Ends(c)'
BY SeenStaysDead DEF Ends

\* What a request sees when it comes is there.
LEMMA ArriveEnds ==
  ASSUME EndpointTypeOK, NEW c \in Calls, Arrive(c), Dying, RowsDying,
         \/ reqs'[c].pc \notin {"issueRefresh", "issueSession", "granted", "cascade", "revoked"}
         \/ reqs'[c].pc = "issueRefresh" /\ reqs'[c].refresh = None
         \/ reqs'[c].pc = "cascade" /\ reqs'[c].todo = <<"refresh", "sessions">>
  PROVE  Ends(c)'
<1>1. /\ seen'[c].sessions = {s \in SessionTokens : LiveSession(s)}
      /\ seen'[c].tokens = {t \in Tokens : rows[t] # None}
  BY DEF Arrive, EndpointTypeOK
<1>2. \A s \in seen'[c].sessions : sessions'[s] # None
  BY <1>1 DEF LiveSession, Dying
<1>3. \A t \in seen'[c].tokens : rows'[t] # None
  BY <1>1 DEF RowsDying
<1> QED  BY <1>2, <1>3 DEF Ends, SessionsToCome, RefreshToCome

EndsInv == Inv /\ EndpointInv /\ \A c \in Calls : Ends(c)

\* A step of request c is one of nobody else.
LEMMA OthersEnd ==
  ASSUME EndsInv, Dying, RowsDying, NEW c \in Calls,
         \A d \in Calls : d # c => reqs'[d] = reqs[d] /\ seen'[d] = seen[d],
         Ends(c)'
  PROVE  \A d \in Calls : Ends(d)'
BY EndsFrame DEF EndsInv, EndpointInv

\* A request whose new state claims nothing.
LEMMA QuietEnds ==
  ASSUME EndpointTypeOK, NEW c \in Calls, Dying, RowsDying, Ends(c), seen'[c] = seen[c],
         \/ reqs'[c].pc \notin {"issueRefresh", "issueSession", "granted", "cascade", "revoked"}
         \/ reqs'[c].pc = "cascade" /\ reqs'[c].todo = <<"sessions", "refresh">>
  PROVE  Ends(c)'
<1>1. seen[c].sessions \subseteq SessionTokens /\ seen[c].tokens \subseteq Tokens
  BY DEF EndpointTypeOK
<1>2. /\ \A s \in seen'[c].sessions : sessions'[s] # None
      /\ \A t \in seen'[c].tokens : rows'[t] # None
  <2>1. /\ \A s \in seen[c].sessions : sessions[s] # None
        /\ \A t \in seen[c].tokens : rows[t] # None
    BY DEF Ends
  <2>2. /\ \A s \in SessionTokens : sessions[s] # None => sessions'[s] # None
        /\ \A t \in Tokens : rows[t] # None => rows'[t] # None
    BY ZenonT(40) DEF Dying, RowsDying
  <2> QED  BY <1>1, <2>1, <2>2, Zenon
<1> QED  BY <1>2, ZenonT(30) DEF Ends, SessionsToCome, RefreshToCome

-----------------------------------------------------------------------------
(* Each action.                                                            *)

\* A request that comes claims nothing yet.
LEMMA ArrivalsEnd ==
  ASSUME EndsInv, Dying, RowsDying, NEW c \in Calls,
         \/ \E u \in Users, s \in SessionTokens : Login(c, u, s)
         \/ \E cl \in Clients, k \in Codes, proofs \in BOOLEAN : TakeCode(c, cl, k, proofs)
         \/ \E cl \in Clients, t \in Tokens : StartRefresh(c, cl, t)
         \/ \E token \in Tokens \cup SessionTokens, ok \in BOOLEAN : StartRevoke(c, token, ok)
         \/ \E s \in SessionTokens : Logout(c, s)
  PROVE  \A d \in Calls : Ends(d)'
<1>1. EndpointTypeOK /\ reqs \in [Calls -> Req]
  BY ZenonT(30) DEF EndsInv, EndpointInv, EndpointTypeOK
<1>2. Arrive(c) /\ \E r : reqs' = [reqs EXCEPT ![c] = r]
  BY DEF Login, TakeCode, StartRefresh, StartRevoke, Logout
<1>3. \A d \in Calls : d # c => reqs'[d] = reqs[d] /\ seen'[d] = seen[d]
  BY <1>1, <1>2 DEF Arrive, EndpointTypeOK
<1>4. \/ reqs'[c].pc \in {"park", "rejected", "rotating", "lookup", "loggedOut"}
      \/ reqs'[c].pc = "issueRefresh" /\ reqs'[c].refresh = None
      \/ reqs'[c].pc = "cascade" /\ reqs'[c].todo = <<"refresh", "sessions">>
  <2>1. ASSUME NEW u \in Users, NEW s \in SessionTokens, Login(c, u, s)
        PROVE  reqs'[c].pc = "park"
    BY <1>1, <2>1 DEF Login, IdleReq
  <2>2. ASSUME NEW cl \in Clients, NEW k \in Codes, NEW proofs \in BOOLEAN,
               TakeCode(c, cl, k, proofs)
        PROVE  \/ reqs'[c].pc = "rejected"
               \/ reqs'[c].pc = "issueRefresh" /\ reqs'[c].refresh = None
    BY <1>1, <2>2 DEF TakeCode, IdleReq
  <2>3. ASSUME NEW cl \in Clients, NEW t \in Tokens, StartRefresh(c, cl, t)
        PROVE  reqs'[c].pc = "rotating"
    BY <1>1, <2>3 DEF StartRefresh, IdleReq
  <2>4. ASSUME NEW token \in Tokens \cup SessionTokens, NEW ok \in BOOLEAN,
               StartRevoke(c, token, ok)
        PROVE  \/ reqs'[c].pc = "lookup"
               \/ reqs'[c].pc = "cascade" /\ reqs'[c].todo = <<"refresh", "sessions">>
    BY <1>1, <2>4 DEF StartRevoke, IdleReq
  <2>5. ASSUME NEW s \in SessionTokens, Logout(c, s)
        PROVE  reqs'[c].pc = "loggedOut"
    BY <1>1, <2>5 DEF Logout, IdleReq
  <2> QED  BY <2>1, <2>2, <2>3, <2>4, <2>5, ZenonT(40)
<1>5. Ends(c)'
  BY <1>1, <1>2, <1>4, ArriveEnds
<1> QED  BY <1>3, <1>5, OthersEnd, ZenonT(40)

\* Nor does the rest of a callback, a rotation, or a request that is over.
LEMMA QuietStepsEnd ==
  ASSUME EndsInv, Dying, RowsDying, NEW c \in Calls,
         \/ \E cl \in Clients \cup {None} : TakeParked(c, cl)
         \/ \E k \in Codes : IssueCode(c, k)
         \/ SettleRefresh(c) \/ Drop(c)
  PROVE  \A d \in Calls : Ends(d)'
<1>1. EndpointTypeOK /\ reqs \in [Calls -> Req] /\ Ends(c)
  BY DEF EndsInv, EndpointInv, EndpointTypeOK
<1>2. seen' = seen /\ \E r : reqs' = [reqs EXCEPT ![c] = r]
  BY DEF TakeParked, IssueCode, SettleRefresh, Drop, To
<1>3. \A d \in Calls : d # c => reqs'[d] = reqs[d] /\ seen'[d] = seen[d]
  BY <1>1, <1>2
<1>4. reqs'[c].pc \in {"loggedIn", "issueCode", "reuse", "error", "sweep", "rejected"}
  <2>1. ASSUME NEW cl \in Clients \cup {None}, TakeParked(c, cl)
        PROVE  reqs'[c].pc \in {"loggedIn", "issueCode"}
    BY <1>1, <2>1 DEF TakeParked, Req
  <2>2. ASSUME NEW k \in Codes, IssueCode(c, k)
        PROVE  reqs'[c].pc = "loggedIn"
    BY <1>1, <2>2, ToFrame DEF IssueCode, Replies
  <2>3. ASSUME SettleRefresh(c)
        PROVE  reqs'[c].pc \in {"reuse", "error", "sweep", "rejected"}
    BY <1>1, <2>3 DEF SettleRefresh, Outcome, Req
  <2>4. ASSUME Drop(c) PROVE reqs'[c].pc = "error"
    BY <1>1, <2>4, ToFrame DEF Drop, Replies
  <2> QED  BY <2>1, <2>2, <2>3, <2>4
<1>5. Ends(c)'
  BY <1>1, <1>2, <1>4, QuietEnds
<1> QED  BY <1>3, <1>5, OthersEnd

\* A lookup that finds a session leaves both statements to come.
LEMMA LookupEnds ==
  ASSUME EndsInv, Dying, RowsDying, NEW c \in Calls, NEW ok \in BOOLEAN, RevokeLookup(c, ok)
  PROVE  \A d \in Calls : Ends(d)'
<1>1. EndpointTypeOK /\ reqs \in [Calls -> Req] /\ Ends(c)
  BY DEF EndsInv, EndpointInv, EndpointTypeOK
<1>2. seen' = seen /\ \E r : reqs' = [reqs EXCEPT ![c] = r]
  BY DEF RevokeLookup
<1>3. \A d \in Calls : d # c => reqs'[d] = reqs[d] /\ seen'[d] = seen[d]
  BY <1>1, <1>2
<1>4. \/ reqs'[c].pc = "ignored"
      \/ reqs'[c].pc = "cascade" /\ reqs'[c].todo = <<"sessions", "refresh">>
  BY <1>1 DEF RevokeLookup, Req, SessionCascade
<1>5. Ends(c)'
  BY <1>1, <1>2, <1>4, QuietEnds
<1> QED  BY <1>3, <1>5, OthersEnd

\* Answering with tokens claims what the sweep before it made true; a code's answer
\* claims nothing.
LEMMA GrantsEnd ==
  ASSUME EndsInv, Dying, RowsDying, NEW c \in Calls,
         \/ \E f \in Families, t \in Tokens : GrantCode(c, f, t)
         \/ \E s \in SessionTokens : GrantRefresh(c, s)
  PROVE  \A d \in Calls : Ends(d)'
<1>1. EndpointTypeOK /\ reqs \in [Calls -> Req] /\ Ends(c)
  BY DEF EndsInv, EndpointInv, EndpointTypeOK
<1>2. seen' = seen /\ reqs[c].pc \in {"issueRefresh", "issueSession"} /\ To(c, "granted")
  BY DEF GrantCode, GrantRefresh
<1>3. /\ reqs'[c].pc = "granted" /\ reqs'[c].user = reqs[c].user
      /\ reqs'[c].refresh = reqs[c].refresh
      /\ \A d \in Calls : d # c => reqs'[d] = reqs[d] /\ seen'[d] = seen[d]
  BY <1>1, <1>2, ToFrame DEF Replies
<1>4. reqs'[c].failed = reqs[c].failed
  BY <1>1, <1>2 DEF To, Req
<1>5. Ends(c)'
  BY <1>1, <1>2, <1>3, <1>4, EndsFrame
<1> QED  BY <1>3, <1>5, OthersEnd

\* A sweep that did not fail ends every session its user had.
LEMMA SweepEnds ==
  ASSUME EndsInv, Dying, RowsDying, NEW c \in Calls, NEW ok \in BOOLEAN, SweepSessions(c, ok)
  PROVE  \A d \in Calls : Ends(d)'
<1> DEFINE r == [reqs[c] EXCEPT !.pc = "issueSession",
                             !.failed = IF ok THEN {} ELSE {"sessions"}]
<1>1. EndpointTypeOK /\ reqs \in [Calls -> Req] /\ Ends(c) /\ reqs[c] \in Req
  BY DEF EndsInv, EndpointInv, EndpointTypeOK
<1>2. seen' = seen /\ reqs' = [reqs EXCEPT ![c] = r]
  BY <1>1 DEF SweepSessions
<1>3. r.pc = "issueSession" /\ (ok \/ r.failed = {"sessions"}) /\ r.user = reqs[c].user
  BY <1>1, ZenonT(30) DEF Req
<1> HIDE DEF r
<1>4. reqs'[c] = r /\ \A d \in Calls : d # c => reqs'[d] = reqs[d] /\ seen'[d] = seen[d]
  BY <1>1, <1>2
<1>5. /\ \A s \in seen'[c].sessions : sessions'[s] # None
      /\ \A t \in seen'[c].tokens : rows'[t] # None
  BY <1>1, <1>2, <1>3, <1>4, SeenStaysDead
<1>6. ASSUME ok PROVE SeenSessionsDead(c)'
  <2>1. /\ sessions \in [SessionTokens -> SessionRow \cup {None}]
        /\ sessions' = RevokedSessions(UserSessions(reqs[c].user))
    BY <1>1, <1>6 DEF EndpointTypeOK, SweepSessions
  <2>2. \A s \in SessionTokens :
          s \in UserSessions(reqs[c].user) /\ sessions[s] # None => sessions'[s].revoked
    BY <2>1, RevokedDie
  <2>3. seen[c].sessions \subseteq SessionTokens /\ \A s \in seen[c].sessions : sessions[s] # None
    BY <1>1 DEF EndpointTypeOK, Ends
  <2> QED  BY <1>2, <1>3, <1>4, <2>2, <2>3
           DEF SeenSessionsDead, LiveSession, UserSessions, Dying
<1>7. Ends(c)'
  BY <1>3, <1>4, <1>5, <1>6 DEF Ends
<1> QED  BY <1>4, <1>7, OthersEnd

\* A revocation's statement that did not fail ends what it is about, and what the
\* one before it ended stays dead.
LEMMA CascadeEnds ==
  ASSUME EndsInv, Dying, RowsDying, NEW c \in Calls, NEW ok \in BOOLEAN, Cascade(c, ok)
  PROVE  \A d \in Calls : Ends(d)'
<1> DEFINE todo == reqs[c].todo
           rest == Tail(todo)
           next == IF rest = <<>> THEN "revoked" ELSE "cascade"
           failed == IF ok THEN reqs[c].failed ELSE reqs[c].failed \cup {Head(reqs[c].todo)}
           r == [reqs[c] EXCEPT !.todo = rest, !.failed = failed, !.pc = next]
<1>1. /\ EndpointTypeOK /\ reqs \in [Calls -> Req] /\ Ends(c) /\ reqs[c] \in Req
      /\ reqs[c].pc = "cascade"
  BY DEF EndsInv, EndpointInv, EndpointTypeOK, Cascade
<1>2. seen' = seen /\ reqs' = [reqs EXCEPT ![c] = r]
  BY <1>1 DEF Cascade, GoOn
<1>3. todo \in SessionsToCome \cup RefreshToCome
  BY <1>1 DEF Ends, EndpointTypeOK, Carries
<1>4. \/ todo = <<"sessions">> /\ Head(todo) = "sessions" /\ rest = <<>>
      \/ todo = <<"refresh">> /\ Head(todo) = "refresh" /\ rest = <<>>
      \/ todo = <<"refresh", "sessions">> /\ Head(todo) = "refresh" /\ rest = <<"sessions">>
      \/ todo = <<"sessions", "refresh">> /\ Head(todo) = "sessions" /\ rest = <<"refresh">>
  <2>1. /\ Head(<<"sessions">>) = "sessions" /\ Tail(<<"sessions">>) = <<>>
        /\ Head(<<"refresh">>) = "refresh" /\ Tail(<<"refresh">>) = <<>>
    OBVIOUS
  <2>2. /\ Head(<<"refresh", "sessions">>) = "refresh"
        /\ Tail(<<"refresh", "sessions">>) = <<"sessions">>
    OBVIOUS
  <2>3. /\ Head(<<"sessions", "refresh">>) = "sessions"
        /\ Tail(<<"sessions", "refresh">>) = <<"refresh">>
    OBVIOUS
  <2>4. \/ todo = <<"sessions">> \/ todo = <<"refresh">>
        \/ todo = <<"refresh", "sessions">> \/ todo = <<"sessions", "refresh">>
    BY <1>3 DEF SessionsToCome, RefreshToCome
  <2> QED  BY <2>1, <2>2, <2>3, <2>4, Zenon
<1>5. /\ ok /\ Head(todo) = "refresh" => RevokeRefresh(reqs[c].user)
      /\ ok /\ Head(todo) = "sessions" =>
           sessions' = RevokedSessions(UserSessions(reqs[c].user))
  BY DEF Cascade
<1>6. next \in {"cascade", "revoked"} /\ (next = "revoked" <=> rest = <<>>)
  OBVIOUS
<1>7. /\ reqs[c].failed \subseteq failed
      /\ Head(todo) \notin failed => ok
  OBVIOUS
<1> HIDE DEF rest, next, failed
<1>8. r.pc = next /\ r.todo = rest /\ r.failed = failed /\ r.user = reqs[c].user
  BY <1>1, ZenonT(30) DEF Req
<1> HIDE DEF r
<1>9. reqs'[c] = r /\ \A d \in Calls : d # c => reqs'[d] = reqs[d] /\ seen'[d] = seen[d]
  BY <1>1, <1>2
<1>10. /\ \A s \in seen'[c].sessions : sessions'[s] # None
       /\ \A t \in seen'[c].tokens : rows'[t] # None
       /\ SeenSessionsDead(c) => SeenSessionsDead(c)'
       /\ SeenTokensDead(c) => SeenTokensDead(c)'
  BY <1>1, <1>2, <1>8, <1>9, SeenStaysDead
<1>11. /\ seen[c].sessions \subseteq SessionTokens /\ seen[c].tokens \subseteq Tokens
       /\ \A s \in seen[c].sessions : sessions[s] # None
       /\ \A t \in seen[c].tokens : rows[t] # None
  BY <1>1 DEF EndpointTypeOK, Ends
<1>12. ASSUME ok, Head(todo) = "sessions" PROVE SeenSessionsDead(c)'
  <2>1. /\ sessions \in [SessionTokens -> SessionRow \cup {None}]
        /\ sessions' = RevokedSessions(UserSessions(reqs[c].user))
    BY <1>1, <1>5, <1>12 DEF EndpointTypeOK
  <2>2. \A s \in SessionTokens :
          s \in UserSessions(reqs[c].user) /\ sessions[s] # None => sessions'[s].revoked
    BY <2>1, RevokedDie
  <2> QED  BY <1>2, <1>8, <1>9, <1>11, <2>2
           DEF SeenSessionsDead, LiveSession, UserSessions, Dying
<1>13. ASSUME ok, Head(todo) = "refresh" PROVE SeenTokensDead(c)'
  <2>1. rows' = Revoked(UserRows(reqs[c].user)) /\ TypeOK
    BY <1>5, <1>13 DEF RevokeRefresh, RevokeAllForUser, EndsInv, Inv
  <2>2. \A t \in Tokens : t \in UserRows(reqs[c].user) /\ rows[t] # None => rows'[t].revoked
    BY <2>1, RevokedFrame DEF TypeOK
  <2> QED  BY <1>2, <1>8, <1>9, <1>11, <2>2
           DEF SeenTokensDead, Live, UserRows, RowsDying
<1>14. /\ "sessions" \notin failed /\ rest \notin SessionsToCome => SeenSessionsDead(c)'
       /\ "refresh" \notin failed /\ rest \notin RefreshToCome => SeenTokensDead(c)'
  <2>1. /\ <<"refresh">> \notin SessionsToCome /\ <<"sessions">> \in SessionsToCome
        /\ <<"sessions">> \notin RefreshToCome /\ <<"refresh">> \in RefreshToCome
    BY DEF SessionsToCome, RefreshToCome
  <2>2. /\ rest \notin SessionsToCome => Head(todo) = "sessions" \/ todo \notin SessionsToCome
        /\ rest \notin RefreshToCome => Head(todo) = "refresh" \/ todo \notin RefreshToCome
    BY <1>4, <2>1
  <2>3. /\ "sessions" \notin reqs[c].failed /\ todo \notin SessionsToCome => SeenSessionsDead(c)
        /\ "refresh" \notin reqs[c].failed /\ todo \notin RefreshToCome => SeenTokensDead(c)
    BY <1>1 DEF Ends
  <2> QED  BY <1>7, <1>10, <1>12, <1>13, <2>2, <2>3
<1>15. rest \in SessionsToCome \cup RefreshToCome \cup {<<>>}
  BY <1>4 DEF SessionsToCome, RefreshToCome
<1>16. Ends(c)'
  BY <1>6, <1>8, <1>9, <1>10, <1>14, <1>15 DEF Ends
<1> QED  BY <1>9, <1>16, OthersEnd

\* The request that has been answered forgets what it saw.
LEMMA FinishEnds ==
  ASSUME EndsInv, Dying, RowsDying, NEW c \in Calls, Finish(c)
  PROVE  \A d \in Calls : Ends(d)'
<1>1. EndpointTypeOK /\ reqs \in [Calls -> Req]
  BY DEF EndsInv, EndpointInv, EndpointTypeOK
<1>2. /\ reqs'[c] = IdleReq /\ seen'[c] = Unseen
      /\ \A d \in Calls : d # c => reqs'[d] = reqs[d] /\ seen'[d] = seen[d]
  BY <1>1 DEF Finish, EndpointTypeOK
<1>3. Ends(c)'
  BY <1>2 DEF Ends, IdleReq, Unseen
<1> QED  BY <1>2, <1>3, OthersEnd

\* A step that is no request's, or is one of rotate(), leaves every claim as it was.
LEMMA IdleStepsEnd ==
  ASSUME EndsInv, Dying, RowsDying, UNCHANGED <<reqs, seen>>
  PROVE  \A d \in Calls : Ends(d)'
BY EndsFrame DEF EndsInv, EndpointInv

-----------------------------------------------------------------------------
(* The invariant, and what it says.                                        *)

LEMMA EndsInductive ==
  /\ EndpointInit => EndsInv
  /\ EndsInv /\ [EndpointNext]_<<vars, epVars>> => EndsInv'
<1>1. ASSUME EndpointInit PROVE EndsInv
  <2>1. Inv /\ EndpointInv
    BY <1>1, EndpointInvInductive
  <2>2. \A c \in Calls : reqs[c].pc = "idle" /\ seen[c] = Unseen
    BY <1>1 DEF EndpointInit, IdleReq
  <2>3. \A c \in Calls : Ends(c)
    BY <2>2 DEF Ends, Unseen
  <2> QED  BY <2>1, <2>3 DEF EndsInv
<1>2. ASSUME EndsInv, [EndpointNext]_<<vars, epVars>> PROVE EndsInv'
  <2>1. (Inv /\ EndpointInv)'
    BY <1>2, EndpointInvInductive DEF EndsInv
  <2>2. Dying
    BY <1>2, SessionsDie DEF EndsInv, EndpointInv
  <2>3. RowsDying
    BY <1>2, EndpointStep, RowsGrow DEF RowsDying, EndsInv, EndpointInv
  <2>4. ASSUME NEW c \in Calls,
               \/ \E u \in Users, s \in SessionTokens : Login(c, u, s)
               \/ \E cl \in Clients, k \in Codes, proofs \in BOOLEAN : TakeCode(c, cl, k, proofs)
               \/ \E cl \in Clients, t \in Tokens : StartRefresh(c, cl, t)
               \/ \E token \in Tokens \cup SessionTokens, ok \in BOOLEAN :
                    StartRevoke(c, token, ok)
               \/ \E s \in SessionTokens : Logout(c, s)
        PROVE  \A d \in Calls : Ends(d)'
    BY <1>2, <2>2, <2>3, <2>4, ArrivalsEnd
  <2>5. ASSUME NEW c \in Calls,
               \/ \E cl \in Clients \cup {None} : TakeParked(c, cl)
               \/ \E k \in Codes : IssueCode(c, k)
               \/ SettleRefresh(c) \/ Drop(c)
        PROVE  \A d \in Calls : Ends(d)'
    BY <1>2, <2>2, <2>3, <2>5, QuietStepsEnd
  <2>6. ASSUME NEW c \in Calls, NEW ok \in BOOLEAN,
               RevokeLookup(c, ok) \/ SweepSessions(c, ok) \/ Cascade(c, ok)
        PROVE  \A d \in Calls : Ends(d)'
    BY <1>2, <2>2, <2>3, <2>6, LookupEnds, SweepEnds, CascadeEnds
  <2>7. ASSUME NEW c \in Calls,
               \/ \E f \in Families, t \in Tokens : GrantCode(c, f, t)
               \/ \E s \in SessionTokens : GrantRefresh(c, s)
               \/ Finish(c)
        PROVE  \A d \in Calls : Ends(d)'
    BY <1>2, <2>2, <2>3, <2>7, GrantsEnd, FinishEnds
  <2>8. ASSUME \/ \E c \in Calls : Rotate(c)
               \/ SweepCodes \/ ClockTick \/ UNCHANGED <<vars, epVars>>
        PROVE  \A d \in Calls : Ends(d)'
    <3>1. UNCHANGED <<reqs, seen>>
      BY <2>8 DEF Rotate, SweepCodes, ClockTick, epVars
    <3> QED  BY <1>2, <2>2, <2>3, <3>1, IdleStepsEnd
  <2>9. \A d \in Calls : Ends(d)'
    BY <1>2, <2>4, <2>5, <2>6, <2>7, <2>8 DEF EndpointNext
  <2> QED  BY <2>1, <2>9 DEF EndsInv
<1> QED  BY <1>1, <1>2

\* What each request claims to have ended is dead in every behaviour of the endpoints.
THEOREM EndsInvariance == EndpointSpec => []EndsInv
BY EndsInductive, PTL DEF EndpointSpec

\* After a refresh whose sweep did not fail, none of the sessions its user had when it
\* arrived is live, whatever other requests ran meanwhile.
THEOREM SupersededDie == EndpointSpec => []SupersededSessionsDie
<1>1. EndsInv => SupersededSessionsDie
  BY DEF EndsInv, Ends, SeenSessionsDead, SupersededSessionsDie
<1> QED  BY <1>1, EndsInvariance, PTL

\* After a revocation, whichever kind of token was presented, none of the sessions its
\* user had when it arrived is live, and no refresh token, each unless its own statement
\* failed.
THEOREM RevocationCascades == EndpointSpec => []RevokeCascades
<1>1. ASSUME EndsInv PROVE RevokeCascades
  <2> SUFFICES ASSUME NEW c \in Calls, reqs[c].pc = "revoked"
               PROVE  /\ "sessions" \notin reqs[c].failed => SeenSessionsDead(c)
                      /\ "refresh" \notin reqs[c].failed => SeenTokensDead(c)
    BY DEF RevokeCascades, SeenSessionsDead, SeenTokensDead
  <2>1. Ends(c) /\ reqs[c].todo = <<>>
    BY <1>1 DEF EndsInv, Ends
  <2>2. <<>> \notin SessionsToCome /\ <<>> \notin RefreshToCome
    BY DEF SessionsToCome, RefreshToCome
  <2> QED  BY <2>1, <2>2 DEF Ends
<1> QED  BY <1>1, EndsInvariance, PTL

-----------------------------------------------------------------------------
(* Nothing but a login brings a user back.                                 *)

\* Request c is not past the point where it consumed something of u's.
Over(c, u) ==
  /\ calls[c].pc \in {"mint", "rotated"} => calls[c].row.user # u
  /\ reqs[c].pc \in {"park", "issueCode", "issueRefresh", "sweep", "issueSession"} =>
       reqs[c].user # u

\* The step creates nothing of u's.
NothingNew(u) ==
  /\ \A t \in Tokens : rows[t] = None /\ rows'[t] # None => rows'[t].user # u
  /\ \A s \in SessionTokens : sessions[s] = None /\ sessions'[s] # None => sessions'[s].user # u
  /\ \A k \in Codes : HasRow(k)' =>
       codes'[k].user # u \/ (codes'[k] = codes[k] /\ HasRow(k))

\* Then a user that was out is out, when the request whose step it is stays over.
LEMMA StaysOut ==
  ASSUME Dying, RowsDying, NEW u, LoggedOut(u), NothingNew(u), NEW c \in Calls, Over(c, u)',
         \A d \in Calls : d # c => reqs'[d] = reqs[d] /\ calls'[d] = calls[d]
  PROVE  LoggedOut(u)'
<1>1. \A t \in Tokens : Live(t)' => rows'[t].user # u
  BY DEF LoggedOut, NothingNew, Live, RowsDying
<1>2. \A s \in SessionTokens : LiveSession(s)' => sessions'[s].user # u
  BY DEF LoggedOut, NothingNew, LiveSession, Dying
<1>3. \A k \in Codes : HasRow(k)' => codes'[k].user # u
  BY DEF LoggedOut, NothingNew
<1>4. \A d \in Calls : Over(d, u)'
  BY DEF LoggedOut, Over
<1> QED  BY <1>1, <1>2, <1>3, <1>4 DEF LoggedOut, Over

\* A request of the code grant or the callback creates only what its user has.
LEMMA CodeStepsStayOut ==
  ASSUME EndsInv, Dying, RowsDying, NEW u \in Users, LoggedOut(u), NEW c \in Calls,
         \/ \E cl \in Clients \cup {None} : TakeParked(c, cl)
         \/ \E k \in Codes : IssueCode(c, k)
         \/ \E cl \in Clients, k \in Codes, proofs \in BOOLEAN : TakeCode(c, cl, k, proofs)
         \/ \E f \in Families, t \in Tokens : GrantCode(c, f, t)
  PROVE  LoggedOut(u)'
<1>1. /\ TypeOK /\ EndpointTypeOK /\ reqs \in [Calls -> Req] /\ reqs[c] \in Req
      /\ codes \in [Codes -> CodeRow \cup {None, Deleted}]
      /\ calls[c].pc # "idle" <=> reqs[c].pc = "rotating"
  BY DEF EndsInv, Inv, EndpointInv, EndpointTypeOK, Carries
<1>2. \A d \in Calls : d # c => reqs'[d] = reqs[d] /\ calls'[d] = calls[d]
  BY <1>1 DEF TakeParked, IssueCode, TakeCode, GrantCode, Issue, To, vars
<1>3. calls' = calls /\ sessions' = sessions
  BY DEF TakeParked, IssueCode, TakeCode, GrantCode, Issue, vars
<1>4. calls[c].pc = "idle"
  BY <1>1 DEF TakeParked, IssueCode, TakeCode, GrantCode, Arrive
<1>5. ASSUME NEW cl \in Clients \cup {None}, TakeParked(c, cl)
      PROVE  NothingNew(u) /\ Over(c, u)'
  <2>1. reqs'[c].user = reqs[c].user /\ reqs[c].pc = "park"
    BY <1>1, <1>5 DEF TakeParked, Req
  <2> QED  BY <1>3, <1>4, <1>5, <2>1 DEF TakeParked, vars, NothingNew, Over, LoggedOut, HasRow
<1>6. ASSUME NEW k \in Codes, IssueCode(c, k)
      PROVE  NothingNew(u) /\ Over(c, u)'
  <2>1. reqs'[c].pc = "loggedIn"
    BY <1>1, <1>6, ToFrame DEF IssueCode, Replies
  <2>2. codes'[k].user # u /\ \A x \in Codes : x # k => codes'[x] = codes[x]
    BY <1>1, <1>6 DEF IssueCode, LoggedOut
  <2>3. \A x \in Codes : HasRow(x)' =>
          codes'[x].user # u \/ (codes'[x] = codes[x] /\ HasRow(x))
    BY <2>2 DEF HasRow
  <2>4. rows' = rows
    BY <1>6 DEF IssueCode, vars
  <2> QED  BY <1>3, <1>4, <2>1, <2>3, <2>4 DEF NothingNew, Over
<1>7. ASSUME NEW cl \in Clients, NEW k \in Codes, NEW proofs \in BOOLEAN,
             TakeCode(c, cl, k, proofs)
      PROVE  NothingNew(u) /\ Over(c, u)'
  <2>1. \/ reqs'[c].pc = "rejected"
        \/ reqs'[c].pc = "issueRefresh" /\ HasRow(k) /\ reqs'[c].user = codes[k].user
    BY <1>1, <1>7 DEF TakeCode, IdleReq
  <2>2. \A x \in Codes : HasRow(x)' => codes'[x] = codes[x] /\ HasRow(x)
    BY <1>1, <1>7 DEF TakeCode, Taken, HasRow
  <2> QED  BY <1>3, <1>4, <1>7, <2>1, <2>2 DEF TakeCode, vars, NothingNew, Over, LoggedOut
<1>8. ASSUME NEW f \in Families, NEW t \in Tokens, GrantCode(c, f, t)
      PROVE  NothingNew(u) /\ Over(c, u)'
  <2>1. /\ reqs'[c].pc = "granted" /\ reqs[c].pc = "issueRefresh"
        /\ reqs[c].user \in Users /\ reqs[c].client \in Clients
    BY <1>1, <1>8, ToFrame DEF GrantCode, Replies, EndpointTypeOK, Carries, Pending
  <2>2. /\ rows'[t].user = reqs[c].user
        /\ \A x \in Tokens : x # t => rows'[x] = rows[x]
    <3> DEFINE row == NewRow(reqs[c].user, reqs[c].client, f)
    <3>1. row \in Row /\ row.user = reqs[c].user
      BY <1>1, <2>1, NewRowType
    <3>2. rows' = [rows EXCEPT ![t] = row]
      BY <1>8 DEF GrantCode, Issue
    <3> HIDE DEF row
    <3> QED  BY <1>1, <3>1, <3>2, NewRowFrame
  <2> QED  BY <1>3, <1>4, <1>8, <2>1, <2>2 DEF GrantCode, NothingNew, Over, LoggedOut, HasRow
<1> QED  BY <1>2, <1>5, <1>6, <1>7, <1>8, StaysOut

\* A rotation that wins did so with a live token of the user it mints for.
LEMMA RotationStaysOut ==
  ASSUME EndsInv, Dying, RowsDying, NEW u \in Users, LoggedOut(u), NEW c \in Calls, Rotate(c)
  PROVE  LoggedOut(u)'
<1>1. TypeOK /\ calls \in [Calls -> Call] /\ calls[c] \in Call
  BY DEF EndsInv, Inv, TypeOK
<1>2. UNCHANGED <<sessions, codes, reqs>>
  BY DEF Rotate, epVars
<1>3. reqs[c].pc = "rotating"
  BY DEF Rotate, RotateConsume, RotateKill, RotateFail, RotateMint, Working,
         EndsInv, EndpointInv, EndpointTypeOK, Carries
<1>4. CASE RotateConsume(c)
  <2>1. /\ calls'[c].pc = (IF Won(c) THEN "mint" ELSE "kill") /\ calls'[c].row = calls[c].row
        /\ \A d \in Calls : d # c => calls'[d] = calls[d]
    <3>1. (IF Won(c) THEN "mint" ELSE "kill") \in Working \cup Results
      BY DEF Working
    <3> QED  BY <1>1, <1>4, <3>1, GotoFrame DEF RotateConsume
  <2>2. /\ rows[calls[c].token] # None /\ rows[calls[c].token].user = calls[c].row.user
        /\ calls[c].token \in Tokens
    BY <1>1, <1>4 DEF EndsInv, Inv, CallRow, Started, Working, RotateConsume, TypeOK
  <2>3. Won(c) => calls[c].row.user # u
    BY <2>2 DEF Won, Live, LoggedOut
  <2>4. \A t \in Tokens : rows[t] = None => rows'[t] = None
    BY <1>1, <1>4, RevokedFrame DEF RotateConsume, TypeOK
  <2>5. NothingNew(u) /\ Over(c, u)'
    BY <1>2, <1>3, <2>1, <2>3, <2>4 DEF NothingNew, Over, HasRow
  <2> QED  BY <1>2, <2>1, <2>5, StaysOut
<1>5. CASE RotateKill(c) \/ RotateFail(c)
  <2>1. /\ calls'[c].pc \in {"reuse", "failed"}
        /\ \A d \in Calls : d # c => calls'[d] = calls[d]
    BY <1>1, <1>5, GotoFrame DEF RotateKill, RotateFail, Results
  <2>2. \A t \in Tokens : rows[t] = None => rows'[t] = None
    BY <1>1, <1>5, RevokedFrame DEF RotateKill, RotateFail, TypeOK
  <2>3. NothingNew(u) /\ Over(c, u)'
    BY <1>2, <1>3, <2>1, <2>2 DEF NothingNew, Over, HasRow
  <2> QED  BY <1>2, <2>1, <2>3, StaysOut
<1>6. ASSUME NEW t \in Tokens, RotateMint(c, t)
      PROVE  LoggedOut(u)'
  <2>1. /\ calls'[c].row = calls[c].row
        /\ \A d \in Calls : d # c => calls'[d] = calls[d]
    <3>1. calls'[c] = [calls[c] EXCEPT !.pc = "rotated", !.next = t]
      BY <1>1, <1>6 DEF RotateMint
    <3> QED  BY <1>1, <1>6, <3>1 DEF RotateMint, Call
  <2>2. calls[c].row \in Row /\ calls[c].row.user # u
    BY <1>6 DEF RotateMint, LoggedOut, EndsInv, Inv, TypeOK, Working
  <2>3. /\ rows'[t].user = calls[c].row.user
        /\ \A x \in Tokens : x # t => rows'[x] = rows[x]
    <3>1. PICK r \in MintRows(c) : rows' = [rows EXCEPT ![t] = r]
      BY <1>6 DEF RotateMint
    <3>2. r \in Row /\ r.user = calls[c].row.user
      BY <1>1, <2>2, NewRowType DEF MintRows, Row
    <3> QED  BY <1>1, <3>1, <3>2, NewRowFrame
  <2>4. NothingNew(u) /\ Over(c, u)'
    BY <1>2, <1>3, <2>1, <2>2, <2>3 DEF NothingNew, Over, HasRow
  <2> QED  BY <1>2, <2>1, <2>4, StaysOut
<1> QED  BY <1>4, <1>5, <1>6 DEF Rotate

\* The refresh grant goes on for the user of the row that was rotated.
LEMMA RefreshStaysOut ==
  ASSUME EndsInv, Dying, RowsDying, NEW u \in Users, LoggedOut(u), NEW c \in Calls,
         \/ \E cl \in Clients, t \in Tokens : StartRefresh(c, cl, t)
         \/ SettleRefresh(c)
         \/ \E ok \in BOOLEAN : SweepSessions(c, ok)
         \/ \E s \in SessionTokens : GrantRefresh(c, s)
  PROVE  LoggedOut(u)'
<1>1. /\ TypeOK /\ EndpointTypeOK /\ reqs \in [Calls -> Req] /\ reqs[c] \in Req
      /\ calls \in [Calls -> Call] /\ calls[c] \in Call
      /\ sessions \in [SessionTokens -> SessionRow \cup {None}]
      /\ calls[c].pc # "idle" <=> reqs[c].pc = "rotating"
  BY DEF EndsInv, Inv, TypeOK, EndpointInv, EndpointTypeOK, Carries
<1>2. \A d \in Calls : d # c => reqs'[d] = reqs[d] /\ calls'[d] = calls[d]
  BY <1>1
     DEF StartRefresh, RotateFind, SettleRefresh, Return, SweepSessions, GrantRefresh, To, vars
<1>3. rows' = rows /\ codes' = codes
  BY DEF StartRefresh, RotateFind, SettleRefresh, Return, SweepSessions, GrantRefresh, vars
<1>4. ASSUME NEW cl \in Clients, NEW t \in Tokens, StartRefresh(c, cl, t)
      PROVE  NothingNew(u) /\ Over(c, u)'
  <2>1. calls'[c].pc \in {"unknown", "kill", "consume"} /\ reqs'[c].pc = "rotating"
    BY <1>1, <1>4 DEF StartRefresh, RotateFind, Branch, IdleReq
  <2> QED  BY <1>3, <1>4, <2>1 DEF StartRefresh, NothingNew, Over, HasRow
<1>5. ASSUME SettleRefresh(c)
      PROVE  NothingNew(u) /\ Over(c, u)'
  <2>1. calls'[c].pc = "idle"
    BY <1>1, <1>5 DEF SettleRefresh, Return, IdleCall
  <2>2. /\ reqs'[c].pc \in {"reuse", "error", "sweep", "rejected"}
        /\ reqs'[c].pc = "sweep" =>
             calls[c].pc = "rotated" /\ reqs'[c].user = calls[c].row.user
    BY <1>1, <1>5 DEF SettleRefresh, Outcome, Req
  <2> QED  BY <1>3, <1>5, <2>1, <2>2 DEF SettleRefresh, NothingNew, Over, LoggedOut, HasRow
<1>6. ASSUME NEW ok \in BOOLEAN, SweepSessions(c, ok)
      PROVE  NothingNew(u) /\ Over(c, u)'
  <2>1. reqs'[c].user = reqs[c].user /\ reqs[c].pc = "sweep"
    BY <1>1, <1>6 DEF SweepSessions, Req
  <2>2. \A s \in SessionTokens : sessions[s] = None => sessions'[s] = None
    BY <1>1, <1>6, RevokedSessionsFrame DEF SweepSessions
  <2>3. calls' = calls /\ calls[c].pc = "idle"
    BY <1>1, <1>6 DEF SweepSessions, vars
  <2> QED  BY <1>3, <2>1, <2>2, <2>3 DEF NothingNew, Over, LoggedOut, HasRow
<1>7. ASSUME NEW s \in SessionTokens, GrantRefresh(c, s)
      PROVE  NothingNew(u) /\ Over(c, u)'
  <2>1. /\ reqs'[c].pc = "granted" /\ reqs[c].pc = "issueSession" /\ reqs[c].user \in Users
    BY <1>1, <1>7, ToFrame DEF GrantRefresh, Replies, EndpointTypeOK, Carries, Pending
  <2>2. /\ sessions'[s].user = reqs[c].user
        /\ \A x \in SessionTokens : x # s => sessions'[x] = sessions[x]
    BY <1>1, <1>7, <2>1, NewSessionFrame DEF GrantRefresh
  <2>3. calls' = calls /\ calls[c].pc = "idle"
    BY <1>1, <1>7 DEF GrantRefresh, vars
  <2> QED  BY <1>3, <2>1, <2>2, <2>3, SMTT(30) DEF NothingNew, Over, LoggedOut, HasRow
<1> QED  BY <1>2, <1>4, <1>5, <1>6, <1>7, StaysOut

\* A revocation, a logout and a request that ends create nothing.
LEMMA EndingsStayOut ==
  ASSUME EndsInv, Dying, RowsDying, NEW u \in Users, LoggedOut(u), NEW c \in Calls,
         \/ \E token \in Tokens \cup SessionTokens, ok \in BOOLEAN : StartRevoke(c, token, ok)
         \/ \E ok \in BOOLEAN : RevokeLookup(c, ok)
         \/ \E ok \in BOOLEAN : Cascade(c, ok)
         \/ \E s \in SessionTokens : Logout(c, s)
         \/ Drop(c) \/ Finish(c)
  PROVE  LoggedOut(u)'
<1>1. /\ TypeOK /\ EndpointTypeOK /\ reqs \in [Calls -> Req] /\ reqs[c] \in Req
      /\ rows \in [Tokens -> Row \cup {None}]
      /\ sessions \in [SessionTokens -> SessionRow \cup {None}]
      /\ calls[c].pc # "idle" <=> reqs[c].pc = "rotating"
  BY DEF EndsInv, Inv, TypeOK, EndpointInv, EndpointTypeOK, Carries
<1>2. calls' = calls /\ codes' = codes
  BY ZenonT(40) DEF StartRevoke, RevokeLookup, Cascade, RevokeRefresh, RevokeAllForUser, Logout, Drop,
         Finish, vars
<1>3. \E r : reqs' = [reqs EXCEPT ![c] = r]
  BY DEF StartRevoke, RevokeLookup, Cascade, Logout, Drop, Finish, To
<1>4. reqs[c].pc # "rotating"
  BY DEF StartRevoke, Arrive, RevokeLookup, Cascade, Logout, Drop, Finish, Replies
<1>5. reqs'[c].pc \in {"lookup", "cascade", "ignored", "revoked", "loggedOut", "error", "idle"}
  <2>1. ASSUME NEW token \in Tokens \cup SessionTokens, NEW ok \in BOOLEAN,
               StartRevoke(c, token, ok)
        PROVE  reqs'[c].pc \in {"lookup", "cascade"}
    BY <1>1, <2>1 DEF StartRevoke, IdleReq
  <2>2. ASSUME NEW ok \in BOOLEAN, RevokeLookup(c, ok)
        PROVE  reqs'[c].pc \in {"ignored", "cascade"}
    BY <1>1, <2>2 DEF RevokeLookup, Req
  <2>3. ASSUME NEW ok \in BOOLEAN, Cascade(c, ok)
        PROVE  reqs'[c].pc \in {"cascade", "revoked"}
    <3> DEFINE rest == Tail(reqs[c].todo)
               failed == IF ok THEN reqs[c].failed ELSE reqs[c].failed \cup {Head(reqs[c].todo)}
               next == IF rest = <<>> THEN "revoked" ELSE "cascade"
               r == [reqs[c] EXCEPT !.todo = rest, !.failed = failed, !.pc = next]
    <3>1. reqs' = [reqs EXCEPT ![c] = r]
      BY <1>1, <2>3 DEF Cascade, GoOn
    <3>2. next \in {"cascade", "revoked"}
      OBVIOUS
    <3> HIDE DEF rest, failed, next
    <3>3. r.pc = next
      BY <1>1, ZenonT(30) DEF Req
    <3> HIDE DEF r
    <3> QED  BY <1>1, <3>1, <3>2, <3>3, SMTT(30)
  <2>4. ASSUME NEW s \in SessionTokens, Logout(c, s)
        PROVE  reqs'[c].pc = "loggedOut"
    BY <1>1, <2>4 DEF Logout, IdleReq
  <2>5. ASSUME Drop(c) PROVE reqs'[c].pc = "error"
    BY <1>1, <2>5, ToFrame, SMTT(30) DEF Drop, Replies
  <2>6. ASSUME Finish(c) PROVE reqs'[c].pc = "idle"
    BY <1>1, <2>6, SMTT(30) DEF Finish, IdleReq
  <2> QED  BY <2>1, <2>2, <2>3, <2>4, <2>5, <2>6
<1>6. \A t \in Tokens : rows[t] = None => rows'[t] = None
  BY <1>1, RevokedFrame
     DEF StartRevoke, RevokeLookup, Cascade, RevokeRefresh, RevokeAllForUser, Logout, Drop,
         Finish, vars
<1>7. \A s \in SessionTokens : sessions[s] = None => sessions'[s] = None
  BY <1>1, RevokedSessionsFrame
     DEF StartRevoke, RevokeLookup, Cascade, Logout, Drop, Finish
<1>8. NothingNew(u)
  BY <1>2, <1>6, <1>7 DEF NothingNew, HasRow
<1>9. Over(c, u)'
  BY <1>1, <1>2, <1>4, <1>5 DEF Over
<1> QED  BY <1>1, <1>2, <1>3, <1>8, <1>9, StaysOut

\* A login is another user's, or the one that may bring u back.
LEMMA LoginRevives ==
  ASSUME EndsInv, Dying, RowsDying, NEW u \in Users, LoggedOut(u), NEW c \in Calls,
         NEW v \in Users, NEW s \in SessionTokens, Login(c, v, s)
  PROVE  LoggedOut(u)' \/ (reqs[c].pc = "idle" /\ reqs'[c].pc = "park" /\ reqs'[c].user = u)
<1>1. /\ TypeOK /\ reqs \in [Calls -> Req]
      /\ sessions \in [SessionTokens -> SessionRow \cup {None}]
      /\ calls[c].pc # "idle" <=> reqs[c].pc = "rotating"
  BY DEF EndsInv, Inv, EndpointInv, EndpointTypeOK, Carries
<1>2. /\ reqs[c].pc = "idle" /\ reqs'[c].pc = "park" /\ reqs'[c].user = v
      /\ \A d \in Calls : d # c => reqs'[d] = reqs[d]
  BY <1>1 DEF Login, Arrive, IdleReq
<1>3. rows' = rows /\ calls' = calls /\ codes' = codes
  BY DEF Login, vars
<1>4. sessions'[s].user = v /\ \A x \in SessionTokens : x # s => sessions'[x] = sessions[x]
  BY <1>1, NewSessionFrame DEF Login
<1>5. ASSUME v # u PROVE LoggedOut(u)'
  <2>1. NothingNew(u) /\ Over(c, u)'
    BY <1>1, <1>2, <1>3, <1>4, <1>5 DEF NothingNew, Over, HasRow
  <2> QED  BY <1>2, <1>3, <2>1, StaysOut
<1> QED  BY <1>2, <1>5

\* The sweep of codes, the clock and stuttering create nothing.
LEMMA BackgroundStaysOut ==
  ASSUME Dying, RowsDying, NEW u \in Users, LoggedOut(u),
         codes \in [Codes -> CodeRow \cup {None, Deleted}],
         SweepCodes \/ ClockTick \/ UNCHANGED <<vars, epVars>>
  PROVE  LoggedOut(u)'
<1>1. UNCHANGED <<rows, calls, sessions, reqs>>
  BY DEF SweepCodes, ClockTick, Tick, vars, epVars
<1>2. \A k \in Codes : HasRow(k)' => codes'[k] = codes[k] /\ HasRow(k)
  BY DEF SweepCodes, ClockTick, epVars, HasRow
<1> QED  BY <1>1, <1>2 DEF LoggedOut, Live, LiveSession

\* A user with nothing alive gets nothing without logging in again, however many
\* requests, tokens and sessions there are.
THEOREM NothingRevives == EndpointSpec => OnlyLoginRevives
<1>1. ASSUME EndsInv, [EndpointNext]_<<vars, epVars>>, NEW u \in Users, LoggedOut(u)
      PROVE  \/ LoggedOut(u)'
             \/ \E c \in Calls : reqs[c].pc = "idle" /\ reqs'[c].pc = "park"
                                 /\ reqs'[c].user = u
  <2>1. Dying
    BY <1>1, SessionsDie DEF EndsInv, EndpointInv
  <2>2. RowsDying
    BY <1>1, EndpointStep, RowsGrow DEF RowsDying, EndsInv, EndpointInv
  <2>3. ASSUME NEW c \in Calls,
               \/ \E cl \in Clients \cup {None} : TakeParked(c, cl)
               \/ \E k \in Codes : IssueCode(c, k)
               \/ \E cl \in Clients, k \in Codes, proofs \in BOOLEAN : TakeCode(c, cl, k, proofs)
               \/ \E f \in Families, t \in Tokens : GrantCode(c, f, t)
        PROVE  LoggedOut(u)'
    BY <1>1, <2>1, <2>2, <2>3, CodeStepsStayOut
  <2>4. ASSUME NEW c \in Calls,
               \/ \E cl \in Clients, t \in Tokens : StartRefresh(c, cl, t)
               \/ Rotate(c) \/ SettleRefresh(c)
               \/ \E ok \in BOOLEAN : SweepSessions(c, ok)
               \/ \E s \in SessionTokens : GrantRefresh(c, s)
        PROVE  LoggedOut(u)'
    BY <1>1, <2>1, <2>2, <2>4, RefreshStaysOut, RotationStaysOut
  <2>5. ASSUME NEW c \in Calls,
               \/ \E token \in Tokens \cup SessionTokens, ok \in BOOLEAN :
                    StartRevoke(c, token, ok)
               \/ \E ok \in BOOLEAN : RevokeLookup(c, ok)
               \/ \E ok \in BOOLEAN : Cascade(c, ok)
               \/ \E s \in SessionTokens : Logout(c, s)
               \/ Drop(c) \/ Finish(c)
        PROVE  LoggedOut(u)'
    BY <1>1, <2>1, <2>2, <2>5, EndingsStayOut
  <2>6. ASSUME NEW c \in Calls, NEW v \in Users, NEW s \in SessionTokens, Login(c, v, s)
        PROVE  \/ LoggedOut(u)'
               \/ reqs[c].pc = "idle" /\ reqs'[c].pc = "park" /\ reqs'[c].user = u
    BY <1>1, <2>1, <2>2, <2>6, LoginRevives
  <2>7. ASSUME SweepCodes \/ ClockTick \/ UNCHANGED <<vars, epVars>>
        PROVE  LoggedOut(u)'
    BY <1>1, <2>1, <2>2, <2>7, BackgroundStaysOut DEF EndsInv, EndpointInv, EndpointTypeOK
  <2> QED  BY <1>1, <2>3, <2>4, <2>5, <2>6, <2>7 DEF EndpointNext
<1>2. EndsInv /\ [EndpointNext]_<<vars, epVars>> =>
        [\A u \in Users : LoggedOut(u) =>
           \/ LoggedOut(u)'
           \/ \E c \in Calls : reqs[c].pc = "idle" /\ reqs'[c].pc = "park"
                               /\ reqs'[c].user = u]_<<vars, epVars>>
  BY <1>1
<1> QED  BY <1>2, EndsInvariance, PTL DEF EndpointSpec, OnlyLoginRevives

-----------------------------------------------------------------------------
(***************************************************************************)
(* The endpoints implement CredentialLine, and what follows from it.       *)
(*                                                                         *)
(* The mapping names a login by the session of the one answer that a code  *)
(* earned in its family (Rooted: there is one, and one only).  A link is a *)
(* usable code, a live refresh token or a request between two of them, a   *)
(* due is a request that has its successor and not yet its session.  For   *)
(* each there are lemmas on what leaves links, dues, sessions and drawn    *)
(* credentials as they are, adds one or drops one; then one lemma per      *)
(* statement shows which step of CredentialLine it is.                     *)
(***************************************************************************)

-----------------------------------------------------------------------------
(* The login a family goes back to.                                        *)

\* g answered the exchange of a login's code.
Root(g) == g.from \in Codes

\* Every family that was started has one such answer.
Rooted ==
  /\ \A t \in Tokens : rows[t] # None =>
       \E g \in granted : Root(g) /\ rows[g.refresh].family = rows[t].family
  /\ \A g, h \in granted :
       Root(g) /\ Root(h) /\ rows[g.refresh].family = rows[h.refresh].family => g = h

LineInv == Inv /\ EndpointInv /\ Rooted

\* The login of a family is the one whose code was exchanged for it.
RootFound ==
  \A g \in granted : Root(g) =>
    rows[g.refresh].family \in Families /\ LoginOf[rows[g.refresh].family] = g.access

LEMMA RootIs == LineInv => RootFound
<1> SUFFICES ASSUME LineInv, NEW g \in granted, Root(g)
             PROVE  /\ rows[g.refresh].family \in Families
                    /\ LoginOf[rows[g.refresh].family] = g.access
  BY DEF RootFound
<1> DEFINE f == rows[g.refresh].family
           P(l) == \E h \in granted : h.from \in Codes /\ rows[h.refresh].family = f /\ h.access = l
<1>1. g.access \in SessionTokens /\ g.refresh \in Tokens /\ rows[g.refresh] # None
  BY DEF LineInv, EndpointInv, EndpointTypeOK, GrantBinding
<1>2. f \in Families
  BY <1>1 DEF LineInv, Inv, TypeOK, Row
<1>3. \A l \in SessionTokens : P(l) => l = g.access
  BY DEF LineInv, Rooted, Root
<1>4. P(g.access)
  BY DEF Root
<1>5. LoginOf[f] = CHOOSE l \in SessionTokens : P(l)
  BY <1>2 DEF LoginOf
<1> HIDE DEF P, f
<1>6. LoginOf[f] = g.access
  BY <1>1, <1>3, <1>4, <1>5
<1> QED  BY <1>2, <1>6 DEF f

LEMMA RootIsNext == LineInv' => RootFound'
  BY RootIs, PTL

\* A row's login has a session, of the row's user.
LEMMA LoginOfRow ==
  ASSUME LineInv, NEW t \in Tokens, rows[t] # None
  PROVE  /\ rows[t].family \in Families
         /\ LoginOf[rows[t].family] \in SessionTokens
         /\ sessions[LoginOf[rows[t].family]] # None
         /\ sessions[LoginOf[rows[t].family]].user = rows[t].user
<1>1. PICK g \in granted : Root(g) /\ rows[g.refresh].family = rows[t].family
  BY DEF LineInv, Rooted
<1>2. LoginOf[rows[t].family] = g.access /\ rows[t].family \in Families
  BY <1>1, RootIs DEF RootFound
<1>3. /\ g.access \in SessionTokens /\ g.refresh \in Tokens
      /\ rows[g.refresh] # None /\ sessions[g.access] # None
      /\ rows[g.refresh].user = sessions[g.access].user
  BY DEF LineInv, EndpointInv, EndpointTypeOK, GrantBinding
<1>4. rows[g.refresh].user = rows[t].user
  BY <1>1, <1>3 DEF LineInv, Inv, FamilyBinding
<1> QED  BY <1>2, <1>3, <1>4

-----------------------------------------------------------------------------
(* What every step leaves alone.                                           *)

\* A row keeps its client, its family and the login it goes back to.
Kept ==
  \A t \in Tokens : rows[t] # None =>
    /\ rows'[t] # None
    /\ rows'[t].client = rows[t].client /\ rows'[t].family = rows[t].family
    /\ rows[t].revoked => rows'[t].revoked
    /\ LoginOf'[rows[t].family] = LoginOf[rows[t].family]

\* A response once sent stays sent, and a new one is to a request that was about to
\* send it.
LEMMA GrantsGrow ==
  ASSUME [EndpointNext]_<<vars, epVars>>
  PROVE  granted \subseteq granted'
<1>1. CASE UNCHANGED granted
  BY <1>1
<1>2. ASSUME NEW c \in Calls,
             \/ \E f \in Families, t \in Tokens : GrantCode(c, f, t)
             \/ \E s \in SessionTokens : GrantRefresh(c, s)
      PROVE  granted \subseteq granted'
  BY <1>2 DEF GrantCode, GrantRefresh, Grant
<1>3. ASSUME NEW c \in Calls,
             \/ \E u \in Users, s \in SessionTokens : Login(c, u, s)
             \/ \E cl \in Clients \cup {None} : TakeParked(c, cl)
             \/ \E k \in Codes : IssueCode(c, k)
             \/ \E cl \in Clients, k \in Codes, proofs \in BOOLEAN : TakeCode(c, cl, k, proofs)
             \/ \E cl \in Clients, t \in Tokens : StartRefresh(c, cl, t)
      PROVE  UNCHANGED granted
  BY <1>3, ZenonT(40) DEF Login, TakeParked, IssueCode, TakeCode, StartRefresh
<1>4. ASSUME NEW c \in Calls,
             \/ Rotate(c) \/ SettleRefresh(c)
             \/ \E ok \in BOOLEAN : SweepSessions(c, ok) \/ RevokeLookup(c, ok) \/ Cascade(c, ok)
             \/ \E token \in Tokens \cup SessionTokens, ok \in BOOLEAN : StartRevoke(c, token, ok)
             \/ \E s \in SessionTokens : Logout(c, s)
             \/ Drop(c) \/ Finish(c)
      PROVE  UNCHANGED granted
  BY <1>4, ZenonT(40)
     DEF Rotate, SettleRefresh, SweepSessions, RevokeLookup, Cascade, StartRevoke, Logout,
         Drop, Finish, epVars
<1>5. CASE SweepCodes \/ ClockTick \/ UNCHANGED <<vars, epVars>>
  BY <1>1, <1>5 DEF SweepCodes, ClockTick, epVars
<1> QED  BY <1>1, <1>2, <1>3, <1>4, <1>5, ZenonT(40) DEF EndpointNext

LEMMA Keeps ==
  ASSUME LineInv, LineInv', [EndpointNext]_<<vars, epVars>>
  PROVE  Kept
<1>1. \A t \in Tokens : rows[t] # None =>
        /\ rows'[t] # None
        /\ rows'[t].client = rows[t].client /\ rows'[t].family = rows[t].family
        /\ rows[t].revoked => rows'[t].revoked
  BY EndpointStep, RowsGrow DEF LineInv, EndpointInv
<1>2. ASSUME NEW t \in Tokens, rows[t] # None
      PROVE  LoginOf'[rows[t].family] = LoginOf[rows[t].family]
  <2>1. PICK g \in granted : Root(g) /\ rows[g.refresh].family = rows[t].family
    BY <1>2 DEF LineInv, Rooted
  <2>2. g.refresh \in Tokens /\ rows[g.refresh] # None
    BY DEF LineInv, EndpointInv, EndpointTypeOK, GrantBinding
  <2>3. LoginOf[rows[t].family] = g.access
    BY <2>1, RootIs DEF RootFound
  <2>4. LoginOf'[rows'[g.refresh].family] = g.access
    BY <2>1, GrantsGrow, RootIsNext DEF RootFound, Root
  <2> QED  BY <1>1, <2>1, <2>2, <2>3, <2>4
<1> QED  BY <1>1, <1>2 DEF Kept

\* Rows that are there, or come in a family that is there, are rooted as before.
LEMMA RootedKeeps ==
  ASSUME LineInv, [EndpointNext]_<<vars, epVars>>,
         \A g \in granted' \ granted : ~Root(g),
         \A t \in Tokens : rows[t] = None /\ rows'[t] # None =>
           \E s \in Tokens : rows[s] # None /\ rows'[t].family = rows[s].family
  PROVE  Rooted'
<1>1. \A t \in Tokens : rows[t] # None => rows'[t] # None /\ rows'[t].family = rows[t].family
  BY EndpointStep, RowsGrow DEF LineInv, EndpointInv
<1>2. \A g \in granted : g.refresh \in Tokens /\ rows[g.refresh] # None
  BY DEF LineInv, EndpointInv, EndpointTypeOK, GrantBinding
<1>3. \A g \in granted : rows'[g.refresh].family = rows[g.refresh].family
  BY <1>1, <1>2
<1>4. granted \subseteq granted'
  BY GrantsGrow
<1>5. ASSUME NEW t \in Tokens, rows'[t] # None
      PROVE  \E g \in granted' : Root(g) /\ rows'[g.refresh].family = rows'[t].family
  <2>1. PICK s \in Tokens : rows[s] # None /\ rows'[t].family = rows[s].family
    BY <1>1, <1>5
  <2>2. PICK g \in granted : Root(g) /\ rows[g.refresh].family = rows[s].family
    BY <2>1 DEF LineInv, Rooted
  <2> QED  BY <1>3, <1>4, <2>1, <2>2
<1>6. \A g, h \in granted' :
        Root(g) /\ Root(h) /\ rows'[g.refresh].family = rows'[h.refresh].family => g = h
  BY <1>3 DEF LineInv, Rooted
<1> QED  BY <1>5, <1>6 DEF Rooted, Root

\* The first token of a code's exchange starts a family and is its root.
LEMMA RootedGrant ==
  ASSUME LineInv, NEW c \in Calls, NEW f \in Families, NEW t \in Tokens, GrantCode(c, f, t)
  PROVE  Rooted'
<1> DEFINE new == [from |-> reqs[c].from, client |-> reqs[c].client,
                   access |-> reqs[c].session, refresh |-> t]
<1>1. /\ reqs[c].user \in Users /\ reqs[c].client \in Clients /\ reqs[c].from \in Codes
      /\ granted' = granted \cup {new}
  BY DEF GrantCode, Grant, LineInv, EndpointInv, EndpointTypeOK, Carries, Pending
<1>2. /\ rows[t] = None /\ rows'[t] # None /\ rows'[t].family = f
      /\ \A x \in Tokens : x # t => rows'[x] = rows[x]
      /\ \A x \in Tokens : rows[x] # None => rows[x].family # f
  <2> DEFINE row == NewRow(reqs[c].user, reqs[c].client, f)
  <2>1. TypeOK
    BY DEF LineInv, Inv
  <2>2. row \in Row /\ row.family = f
    BY <1>1, <2>1, NewRowType
  <2>3. rows' = [rows EXCEPT ![t] = row] /\ FreshToken(t) /\ FreshFamily(f)
    BY DEF GrantCode, Issue
  <2> HIDE DEF row
  <2> QED  BY <2>1, <2>2, <2>3, NewRowFrame, NoneAssumption DEF FreshToken, FreshFamily
<1>3. \A g \in granted : g.refresh \in Tokens /\ rows[g.refresh] # None /\ g.refresh # t
  BY <1>2 DEF LineInv, EndpointInv, EndpointTypeOK, GrantBinding
<1>4. /\ \A g \in granted : rows'[g.refresh] = rows[g.refresh] /\ rows[g.refresh].family # f
      /\ Root(new) /\ new.refresh = t
  BY <1>1, <1>2, <1>3 DEF Root
<1> HIDE DEF new
<1>5. ASSUME NEW x \in Tokens, rows'[x] # None
      PROVE  \E g \in granted' : Root(g) /\ rows'[g.refresh].family = rows'[x].family
  <2>1. CASE x = t
    BY <1>1, <1>4, <2>1
  <2>2. CASE x # t
    <3>1. PICK g \in granted : Root(g) /\ rows[g.refresh].family = rows[x].family
      BY <1>2, <1>5, <2>2 DEF LineInv, Rooted
    <3> QED  BY <1>1, <1>2, <1>4, <2>2, <3>1
  <2> QED  BY <2>1, <2>2
<1>6. \A g, h \in granted' :
        Root(g) /\ Root(h) /\ rows'[g.refresh].family = rows'[h.refresh].family => g = h
  BY <1>1, <1>2, <1>4 DEF LineInv, Rooted
<1> QED  BY <1>5, <1>6 DEF Rooted, Root

\* A rotation's successor comes in the family of the token it was given.
LEMMA RootedRotation ==
  ASSUME LineInv, NEW c \in Calls, Rotate(c)
  PROVE  \A t \in Tokens : rows[t] = None /\ rows'[t] # None =>
           \E s \in Tokens : rows[s] # None /\ rows'[t].family = rows[s].family
<1>1. TypeOK /\ rows \in [Tokens -> Row \cup {None}]
  BY DEF LineInv, Inv, TypeOK
<1>2. CASE RotateConsume(c) \/ RotateKill(c) \/ RotateFail(c)
  <2>1. \A t \in Tokens : rows[t] = None => rows'[t] = None
    BY <1>1, <1>2, RevokedFrame DEF RotateConsume, RotateKill, RotateFail
  <2> QED  BY <2>1
<1>3. ASSUME NEW t \in Tokens, RotateMint(c, t)
      PROVE  \A x \in Tokens : rows[x] = None /\ rows'[x] # None =>
               \E s \in Tokens : rows[s] # None /\ rows'[x].family = rows[s].family
  <2>1. /\ calls[c].row \in Row /\ calls[c].token \in Tokens
        /\ rows[calls[c].token] # None
        /\ rows[calls[c].token].family = calls[c].row.family
    BY <1>3 DEF RotateMint, LineInv, Inv, TypeOK, CallRow, Started, Working
  <2>2. PICK r \in MintRows(c) : rows' = [rows EXCEPT ![t] = r]
    BY <1>3 DEF RotateMint
  <2>3. r \in Row /\ r.family = calls[c].row.family
    BY <1>1, <2>1, NewRowType DEF MintRows, Row
  <2>4. rows'[t] = r /\ \A x \in Tokens : x # t => rows'[x] = rows[x]
    BY <1>1, <2>2, <2>3, NewRowFrame
  <2> QED  BY <2>1, <2>3, <2>4
<1> QED  BY <1>2, <1>3 DEF Rotate

LEMMA RootedStep ==
  ASSUME LineInv, [EndpointNext]_<<vars, epVars>>
  PROVE  Rooted'
<1>1. ASSUME NEW c \in Calls, NEW f \in Families, NEW t \in Tokens, GrantCode(c, f, t)
      PROVE  Rooted'
  BY <1>1, RootedGrant
<1>2. ASSUME granted' = granted, \A t \in Tokens : rows[t] = None => rows'[t] = None
      PROVE  Rooted'
  BY <1>2, RootedKeeps
<1>3. ASSUME NEW c \in Calls, Rotate(c)
      PROVE  Rooted'
  <2>1. granted' = granted
    BY <1>3 DEF Rotate, epVars
  <2> QED  BY <1>3, <2>1, RootedRotation, RootedKeeps
<1>4. ASSUME NEW c \in Calls, NEW s \in SessionTokens, GrantRefresh(c, s)
      PROVE  Rooted'
  <2>1. /\ reqs[c].from \in Tokens /\ rows' = rows
        /\ granted' = granted \cup
             {[from |-> reqs[c].from, client |-> reqs[c].client,
               access |-> s, refresh |-> reqs[c].refresh]}
    BY <1>4 DEF GrantRefresh, Grant, vars, LineInv, EndpointInv, EndpointTypeOK, Carries, Pending
  <2>2. \A g \in granted' \ granted : ~Root(g)
    BY <2>1, EndpointAssumption DEF Root
  <2> QED  BY <2>1, <2>2, RootedKeeps
<1>5. ASSUME NEW c \in Calls,
             \/ \E u \in Users, s \in SessionTokens : Login(c, u, s)
             \/ \E cl \in Clients \cup {None} : TakeParked(c, cl)
             \/ \E k \in Codes : IssueCode(c, k)
             \/ \E cl \in Clients, k \in Codes, proofs \in BOOLEAN : TakeCode(c, cl, k, proofs)
             \/ \E cl \in Clients, t \in Tokens : StartRefresh(c, cl, t)
      PROVE  granted' = granted /\ rows' = rows
  BY <1>5, ZenonT(40)
     DEF Login, TakeParked, IssueCode, TakeCode, StartRefresh, RotateFind, vars
<1>6. ASSUME NEW c \in Calls,
             \/ SettleRefresh(c)
             \/ \E ok \in BOOLEAN : SweepSessions(c, ok) \/ RevokeLookup(c, ok)
             \/ \E token \in Tokens \cup SessionTokens, ok \in BOOLEAN : StartRevoke(c, token, ok)
             \/ \E s \in SessionTokens : Logout(c, s)
             \/ Drop(c) \/ Finish(c)
      PROVE  granted' = granted /\ rows' = rows
  BY <1>6, ZenonT(40)
     DEF SettleRefresh, Return, SweepSessions, RevokeLookup, StartRevoke, Logout, Drop,
         Finish, vars
<1>7. ASSUME NEW c \in Calls, NEW ok \in BOOLEAN, Cascade(c, ok)
      PROVE  granted' = granted /\ \A t \in Tokens : rows[t] = None => rows'[t] = None
  <2>1. \/ rows' = rows
        \/ rows' = Revoked(UserRows(reqs[c].user))
    BY <1>7 DEF Cascade, RevokeRefresh, RevokeAllForUser, vars
  <2> QED  BY <1>7, <2>1, RevokedFrame DEF Cascade, LineInv, Inv, TypeOK
<1>8. CASE SweepCodes \/ ClockTick \/ UNCHANGED <<vars, epVars>>
  BY <1>2, <1>8 DEF SweepCodes, ClockTick, Tick, vars, epVars
<1> QED  BY <1>1, <1>2, <1>3, <1>4, <1>5, <1>6, <1>7, <1>8, ZenonT(60) DEF EndpointNext

\* The invariant, for every number of users, clients, tokens, sessions, codes and requests.
THEOREM LineInvariance == EndpointSpec => []LineInv
<1>1. EndpointInit => LineInv
  BY EndpointInvInductive DEF LineInv, Rooted, EndpointInit, Init
<1>2. LineInv /\ [EndpointNext]_<<vars, epVars>> => LineInv'
  BY EndpointInvInductive, RootedStep DEF LineInv
<1> QED  BY <1>1, <1>2, PTL DEF EndpointSpec

-----------------------------------------------------------------------------
(* What carries on the logins, one request, code or token at a time.       *)

HasLink(c) == reqs[c].pc \in {"park", "issueCode", "issueRefresh"} \/ Minting(c)

OfCall(c) ==
  IF reqs[c].pc \in {"park", "issueCode"} THEN Link(reqs[c].session, "begun", c, None)
  ELSE IF reqs[c].pc = "issueRefresh" THEN Link(reqs[c].session, "exchanging", c, reqs[c].client)
  ELSE Link(LoginOf[calls[c].row.family], "rotating", c, calls[c].row.client)

OfCode(k) == Link(codes[k].session, "coded", k, codes[k].client)

OfToken(t) == Link(LoginOf[rows[t].family], "kept", t, rows[t].client)

HasDue(c) == calls[c].pc = "rotated" \/ reqs[c].pc \in {"sweep", "issueSession"}

DueOf(c) ==
  IF calls[c].pc = "rotated" THEN DueTo(c, calls[c].row.family)
  ELSE DueTo(c, rows[reqs[c].refresh].family)

\* The links of some requests, codes and tokens.
CarriedBy(C, K, T) ==
  {x \in Links :
     \/ \E c \in C : HasLink(c) /\ x = OfCall(c)
     \/ \E k \in K : HasRow(k) /\ x = OfCode(k)
     \/ \E t \in T : Live(t) /\ x = OfToken(t)}

\* A link is of a request, of a code or of a token.
LinksCarried ==
  \A x : x \in Links <=>
    \/ \E c \in Calls : HasLink(c) /\ x = OfCall(c)
    \/ \E k \in Codes : HasRow(k) /\ x = OfCode(k)
    \/ \E t \in Tokens : Live(t) /\ x = OfToken(t)

LEMMA CarriedLinks == EndpointTypeOK => LinksCarried
<1> SUFFICES ASSUME EndpointTypeOK, NEW x
             PROVE  x \in Links <=>
                      \/ \E c \in Calls : HasLink(c) /\ x = OfCall(c)
                      \/ \E k \in Codes : HasRow(k) /\ x = OfCode(k)
                      \/ \E t \in Tokens : Live(t) /\ x = OfToken(t)
  BY DEF LinksCarried
<1>1. \A c \in Calls : Minting(c) => reqs[c].pc = "rotating"
  BY DEF EndpointTypeOK, Carries, Minting
<1>2. \A c \in Calls :
        HasLink(c) /\ x = OfCall(c) <=>
          \/ reqs[c].pc \in {"park", "issueCode"} /\ x = Link(reqs[c].session, "begun", c, None)
          \/ reqs[c].pc = "issueRefresh" /\ x = Link(reqs[c].session, "exchanging", c, reqs[c].client)
          \/ Minting(c) /\ x = Link(LoginOf[calls[c].row.family], "rotating", c, calls[c].row.client)
  BY <1>1 DEF HasLink, OfCall
<1> QED  BY <1>2 DEF Links, CallsAt, OfCode, OfToken

LEMMA CarriedLinksNext == EndpointTypeOK' => LinksCarried'
  BY CarriedLinks, PTL

DuesOwed == \A x : x \in Due <=> \E c \in Calls : HasDue(c) /\ x = DueOf(c)

LEMMA OwedDues == EndpointTypeOK => DuesOwed
<1> SUFFICES ASSUME EndpointTypeOK, NEW x
             PROVE  x \in Due <=> \E c \in Calls : HasDue(c) /\ x = DueOf(c)
  BY DEF DuesOwed
<1>1. \A c \in Calls : calls[c].pc = "rotated" => reqs[c].pc = "rotating"
  BY DEF EndpointTypeOK, Carries
<1>2. \A c \in Calls :
        HasDue(c) /\ x = DueOf(c) <=>
          \/ calls[c].pc = "rotated" /\ x = DueTo(c, calls[c].row.family)
          \/ reqs[c].pc \in {"sweep", "issueSession"} /\ x = DueTo(c, rows[reqs[c].refresh].family)
  BY <1>1 DEF HasDue, DueOf
<1> QED  BY <1>2 DEF Due, CallsAt

LEMMA OwedDuesNext == EndpointTypeOK' => DuesOwed'
  BY OwedDues, PTL

\* A link tells what carries it.
LEMMA CarrierOfLink ==
  /\ \A c : OfCall(c).at \in {"begun", "exchanging", "rotating"} /\ OfCall(c).by = c
  /\ \A k : OfCode(k).at = "coded" /\ OfCode(k).by = k
  /\ \A t : OfToken(t).at = "kept" /\ OfToken(t).by = t
  /\ \A c : DueOf(c).request = c
BY DEF OfCall, OfCode, OfToken, DueOf, DueTo, Link

\* A request that stands still carries what it carried.
LEMMA CallStands ==
  ASSUME LineInv, Kept, NEW d \in Calls, reqs'[d] = reqs[d], calls'[d] = calls[d]
  PROVE  /\ HasLink(d)' <=> HasLink(d)
         /\ HasLink(d) => OfCall(d)' = OfCall(d)
         /\ HasDue(d)' <=> HasDue(d)
         /\ HasDue(d) => DueOf(d)' = DueOf(d)
<1>1. calls[d].pc \in {"mint", "rotated"} =>
        /\ calls[d].token \in Tokens /\ rows[calls[d].token] # None
        /\ rows[calls[d].token].family = calls[d].row.family
  BY DEF LineInv, Inv, TypeOK, CallRow, Started, Working
<1>2. calls[d].pc \in {"mint", "rotated"} =>
        LoginOf'[calls[d].row.family] = LoginOf[calls[d].row.family]
  BY <1>1 DEF Kept
<1>3. reqs[d].pc \in {"sweep", "issueSession"} =>
        /\ reqs[d].refresh \in Tokens /\ rows[reqs[d].refresh] # None
        /\ calls[d].pc = "idle"
  BY DEF LineInv, EndpointInv, EndpointTypeOK, Carries, Bound
<1>4. reqs[d].pc \in {"sweep", "issueSession"} =>
        /\ rows'[reqs[d].refresh].family = rows[reqs[d].refresh].family
        /\ LoginOf'[rows[reqs[d].refresh].family] = LoginOf[rows[reqs[d].refresh].family]
  BY <1>3 DEF Kept
<1>5. Minting(d) => calls[d].pc \in {"mint", "rotated"}
  BY DEF Minting
<1>6. (HasLink(d)' <=> HasLink(d)) /\ (HasDue(d)' <=> HasDue(d))
  BY DEF HasLink, HasDue, Minting
<1>7. HasLink(d) => OfCall(d)' = OfCall(d)
  BY <1>2, <1>5 DEF HasLink, OfCall, Link
<1>8. HasDue(d) => DueOf(d)' = DueOf(d)
  BY <1>2, <1>4 DEF HasDue, DueOf, DueTo
<1> QED  BY <1>6, <1>7, <1>8

LEMMA TokenStands ==
  ASSUME LineInv, Kept, NEW t \in Tokens, rows[t] # None
  PROVE  OfToken(t)' = OfToken(t)
BY DEF Kept, OfToken, Link

\* A step of some requests, codes and tokens changes the links, and what is owed, of
\* these and of nothing else.
LEMMA LinksMove ==
  ASSUME LineInv, LineInv', Kept,
         NEW C \in SUBSET Calls, NEW K \in SUBSET Codes, NEW T \in SUBSET Tokens,
         \A d \in Calls \ C : reqs'[d] = reqs[d] /\ calls'[d] = calls[d],
         \A k \in Codes \ K : codes'[k] = codes[k],
         \A t \in Tokens \ T : rows'[t] = rows[t]
  PROVE  Links' = (Links \ CarriedBy(C, K, T)) \cup CarriedBy(C, K, T)'
<1>1. LinksCarried /\ LinksCarried'
  BY CarriedLinks, CarriedLinksNext DEF LineInv, EndpointInv
<1>2. \A d \in Calls \ C : (HasLink(d)' <=> HasLink(d)) /\ (HasLink(d) => OfCall(d)' = OfCall(d))
  BY CallStands
<1>3. \A k \in Codes \ K : (HasRow(k)' <=> HasRow(k)) /\ OfCode(k)' = OfCode(k)
  BY DEF HasRow, OfCode
<1>4. \A t \in Tokens \ T : (Live(t)' <=> Live(t)) /\ (Live(t) => OfToken(t)' = OfToken(t))
  BY TokenStands DEF Live
<1>5. ASSUME NEW x PROVE x \in Links' <=> x \in (Links \ CarriedBy(C, K, T)) \cup CarriedBy(C, K, T)'
  <2>1. ASSUME x \in Links', x \notin CarriedBy(C, K, T)'
        PROVE  x \in Links \ CarriedBy(C, K, T)
    <3>1. \/ \E d \in Calls \ C : HasLink(d) /\ x = OfCall(d)
          \/ \E k \in Codes \ K : HasRow(k) /\ x = OfCode(k)
          \/ \E t \in Tokens \ T : Live(t) /\ x = OfToken(t)
      BY <1>1, <1>2, <1>3, <1>4, <2>1 DEF LinksCarried, CarriedBy
    <3>2. x \in Links
      BY <1>1, <3>1 DEF LinksCarried
    <3>3. x \notin CarriedBy(C, K, T)
      BY <3>1, CarrierOfLink DEF CarriedBy
    <3> QED  BY <3>2, <3>3
  <2>2. ASSUME x \in Links, x \notin CarriedBy(C, K, T)
        PROVE  x \in Links'
    <3>1. \/ \E d \in Calls \ C : HasLink(d) /\ x = OfCall(d)
          \/ \E k \in Codes \ K : HasRow(k) /\ x = OfCode(k)
          \/ \E t \in Tokens \ T : Live(t) /\ x = OfToken(t)
      BY <1>1, <2>2 DEF LinksCarried, CarriedBy
    <3> QED  BY <1>1, <1>2, <1>3, <1>4, <3>1 DEF LinksCarried
  <2>3. CarriedBy(C, K, T)' \subseteq Links'
    BY DEF CarriedBy
  <2> QED  BY <2>1, <2>2, <2>3
<1> QED  BY <1>5

\* The requests owed a session, of some requests.
OwedTo(C) == {x \in Due : \E c \in C : HasDue(c) /\ x = DueOf(c)}

LEMMA DuesMove ==
  ASSUME LineInv, LineInv', Kept, NEW C \in SUBSET Calls,
         \A d \in Calls \ C : reqs'[d] = reqs[d] /\ calls'[d] = calls[d]
  PROVE  Due' = (Due \ OwedTo(C)) \cup OwedTo(C)'
<1>1. DuesOwed /\ DuesOwed'
  BY OwedDues, OwedDuesNext DEF LineInv, EndpointInv
<1>2. \A d \in Calls \ C : (HasDue(d)' <=> HasDue(d)) /\ (HasDue(d) => DueOf(d)' = DueOf(d))
  BY CallStands
<1>3. ASSUME NEW x PROVE x \in Due' <=> x \in (Due \ OwedTo(C)) \cup OwedTo(C)'
  <2>1. ASSUME x \in Due', x \notin OwedTo(C)'
        PROVE  x \in Due \ OwedTo(C)
    BY <1>1, <1>2, <2>1, CarrierOfLink DEF DuesOwed, OwedTo
  <2>2. ASSUME x \in Due, x \notin OwedTo(C)
        PROVE  x \in Due'
    BY <1>1, <1>2, <2>2 DEF DuesOwed, OwedTo
  <2>3. OwedTo(C)' \subseteq Due'
    BY DEF OwedTo
  <2> QED  BY <2>1, <2>2, <2>3
<1> QED  BY <1>3

-----------------------------------------------------------------------------
(* The steps.                                                              *)

LineStep == [Line!Next]_(Line!vars)

\* What is known of a step.
Stepping == LineInv /\ LineInv' /\ Kept /\ Dying

\* A step of request c, or of none.
Only(c) == \A d \in Calls : d # c => reqs'[d] = reqs[d] /\ calls'[d] = calls[d]

\* Lines end, or stand still.
LEMMA LinesEnd ==
  ASSUME Links' \subseteq Links, UNCHANGED <<SessionUsers, LiveSessions, Drawn, Due>>
  PROVE  LineStep
<1>1. Links \ Links' \in SUBSET Links /\ Links' = Links \ (Links \ Links')
  OBVIOUS
<1>2. Line!End(Links \ Links')
  BY <1>1 DEF Line!End
<1> QED  BY <1>1, <1>2 DEF LineStep, Line!Next

\* Sessions are revoked.
LEMMA SessionsRevoked ==
  ASSUME LiveSessions' \subseteq LiveSessions, UNCHANGED <<SessionUsers, Links, Drawn, Due>>
  PROVE  LineStep
<1>1. /\ LiveSessions \ LiveSessions' \in SUBSET LiveSessions
      /\ LiveSessions' = LiveSessions \ (LiveSessions \ LiveSessions')
  OBVIOUS
<1>2. Line!Revoke(LiveSessions \ LiveSessions')
  BY <1>1 DEF Line!Revoke
<1> QED  BY <1>1, <1>2 DEF LineStep, Line!Next

\* A debt of a session is let go.
LEMMA DebtForgone ==
  ASSUME NEW d \in Due, Due' = Due \ {d}, UNCHANGED <<SessionUsers, LiveSessions, Links, Drawn>>
  PROVE  LineStep
<1>1. Line!Forgo(d)
  BY DEF Line!Forgo
<1> QED  BY <1>1 DEF LineStep, Line!Next

LEMMA SessionsStand ==
  ASSUME sessions' = sessions
  PROVE  UNCHANGED <<SessionUsers, LiveSessions>>
BY DEF SessionUsers, LiveSessions, LiveSession

LEMMA SessionsDying ==
  ASSUME Dying, \A s \in SessionTokens : sessions[s] = None => sessions'[s] = None
  PROVE  SessionUsers' = SessionUsers /\ LiveSessions' \subseteq LiveSessions
<1>1. \A s \in SessionTokens :
        /\ sessions'[s] = None <=> sessions[s] = None
        /\ sessions[s] # None => sessions'[s].user = sessions[s].user
        /\ sessions[s] # None /\ sessions[s].revoked => sessions'[s].revoked
  BY DEF Dying
<1>2. SessionUsers' = SessionUsers
  BY <1>1 DEF SessionUsers
<1>3. LiveSessions' \subseteq LiveSessions
  BY <1>1 DEF LiveSessions, LiveSession
<1> QED  BY <1>2, <1>3

LEMMA DrawnStand ==
  ASSUME \A k \in Codes : codes'[k] = None <=> codes[k] = None,
         \A t \in Tokens : rows'[t] = None <=> rows[t] = None
  PROVE  Drawn' = Drawn
BY DEF Drawn

\* No carrier gains a link.
LEMMA LinksShrink ==
  ASSUME Stepping, NEW c \in Calls, Only(c),
         HasLink(c)' => HasLink(c) /\ OfCall(c)' = OfCall(c),
         \A k \in Codes : HasRow(k)' => HasRow(k) /\ codes'[k] = codes[k],
         \A t \in Tokens : Live(t)' => Live(t)
  PROVE  Links' \subseteq Links
<1>1. LinksCarried /\ LinksCarried'
  BY CarriedLinks, CarriedLinksNext DEF Stepping, LineInv, EndpointInv
<1>2. \A d \in Calls : HasLink(d)' => HasLink(d) /\ OfCall(d)' = OfCall(d)
  BY CallStands DEF Only, Stepping
<1>3. \A k \in Codes : HasRow(k)' => HasRow(k) /\ OfCode(k)' = OfCode(k)
  BY DEF OfCode
<1>4. \A t \in Tokens : Live(t)' => Live(t) /\ OfToken(t)' = OfToken(t)
  BY TokenStands DEF Live, Stepping
<1> QED  BY <1>1, <1>2, <1>3, <1>4 DEF LinksCarried

\* Nor does any lose one.
LEMMA LinksStand ==
  ASSUME Stepping, NEW c \in Calls, Only(c),
         HasLink(c)' <=> HasLink(c),
         HasLink(c) => OfCall(c)' = OfCall(c),
         codes' = codes, rows' = rows
  PROVE  Links' = Links
<1>1. LinksCarried /\ LinksCarried'
  BY CarriedLinks, CarriedLinksNext DEF Stepping, LineInv, EndpointInv
<1>2. \A d \in Calls : (HasLink(d)' <=> HasLink(d)) /\ (HasLink(d) => OfCall(d)' = OfCall(d))
  BY CallStands DEF Only, Stepping
<1>3. \A k \in Codes : (HasRow(k)' <=> HasRow(k)) /\ OfCode(k)' = OfCode(k)
  BY DEF HasRow, OfCode
<1>4. \A t \in Tokens : (Live(t)' <=> Live(t)) /\ (Live(t) => OfToken(t)' = OfToken(t))
  BY TokenStands DEF Live, Stepping
<1> QED  BY <1>1, <1>2, <1>3, <1>4 DEF LinksCarried

LEMMA DuesStand ==
  ASSUME Stepping, NEW c \in Calls, Only(c),
         HasDue(c)' <=> HasDue(c), HasDue(c) => DueOf(c)' = DueOf(c)
  PROVE  Due' = Due
<1>1. DuesOwed /\ DuesOwed'
  BY OwedDues, OwedDuesNext DEF Stepping, LineInv, EndpointInv
<1>2. \A d \in Calls : (HasDue(d)' <=> HasDue(d)) /\ (HasDue(d) => DueOf(d)' = DueOf(d))
  BY CallStands DEF Only, Stepping
<1> QED  BY <1>1, <1>2 DEF DuesOwed

\* A request that owes a session owes it once.
LEMMA DuesDrop ==
  ASSUME Stepping, NEW c \in Calls, Only(c), HasDue(c), ~HasDue(c)'
  PROVE  DueOf(c) \in Due /\ Due' = Due \ {DueOf(c)}
<1>1. DuesOwed
  BY OwedDues DEF Stepping, LineInv, EndpointInv
<1>2. {c} \in SUBSET Calls /\ OwedTo({c}) = {DueOf(c)} /\ OwedTo({c})' = {}
  BY <1>1 DEF OwedTo, DuesOwed
<1>3. Due' = (Due \ OwedTo({c})) \cup OwedTo({c})'
  BY DuesMove DEF Stepping, Only
<1> QED  BY <1>1, <1>2, <1>3 DEF DuesOwed

\* A request that carries nothing and is owed nothing may take a line up.
LEMMA FreeCall ==
  ASSUME LineInv, NEW c \in Calls, ~HasLink(c), ~HasDue(c)
  PROVE  Line!Free(c)
<1>1. LinksCarried /\ DuesOwed
  BY CarriedLinks, OwedDues DEF LineInv, EndpointInv
<1>2. \A a \in Links : a.at \in Line!InRequest => a.by # c
  BY <1>1, CarrierOfLink DEF LinksCarried, Line!InRequest
<1>3. \A d \in Due : d.request # c
  BY <1>1, CarrierOfLink DEF DuesOwed
<1> QED  BY <1>2, <1>3 DEF Line!Free

\* A request that comes is free.
LEMMA ArrivesFree ==
  ASSUME LineInv, NEW c \in Calls, reqs[c].pc = "idle"
  PROVE  calls[c].pc = "idle" /\ ~HasLink(c) /\ ~HasDue(c)
BY DEF LineInv, EndpointInv, EndpointTypeOK, Carries, HasLink, HasDue, Minting

\* The frame of a new session.
LEMMA SessionMade ==
  ASSUME TypeOK, EndpointTypeOK, NEW s \in SessionTokens, NEW u \in Users, sessions[s] = None,
         sessions' = [sessions EXCEPT ![s] = NewSession(u)]
  PROVE  Line!MakeSession(s, u)
<1>1. /\ sessions' \in [SessionTokens -> SessionRow \cup {None}]
      /\ sessions'[s] # None /\ sessions'[s].user = u
      /\ \A x \in SessionTokens : x # s => sessions'[x] = sessions[x]
  BY NewSessionFrame DEF EndpointTypeOK
<1>2. ~sessions'[s].revoked
  BY DEF NewSession, EndpointTypeOK
<1>3. SessionUsers[s] = None /\ SessionUsers' = [SessionUsers EXCEPT ![s] = u]
  BY <1>1 DEF SessionUsers
<1>4. LiveSessions' = LiveSessions \cup {s}
  BY <1>1, <1>2 DEF LiveSessions, LiveSession
<1> QED  BY <1>3, <1>4 DEF Line!MakeSession

\* The callback begins a line.
LEMMA LoginBegins ==
  ASSUME Stepping, NEW c \in Calls, NEW u \in Users, NEW s \in SessionTokens, Login(c, u, s)
  PROVE  LineStep
<1> DEFINE r == [IdleReq EXCEPT !.pc = "park", !.user = u, !.session = s]
           new == Link(s, "begun", c, None)
<1>1. /\ LineInv /\ LineInv' /\ Kept /\ TypeOK /\ EndpointTypeOK /\ reqs \in [Calls -> Req]
      /\ reqs[c].pc = "idle" /\ sessions[s] = None
      /\ UNCHANGED <<rows, calls, codes>>
      /\ reqs' = [reqs EXCEPT ![c] = r]
  BY DEF Stepping, LineInv, Inv, EndpointInv, EndpointTypeOK, Login, Arrive, vars
<1>2. r.pc = "park" /\ r.session = s
  BY DEF IdleReq
<1> HIDE DEF r
<1>3. reqs'[c] = r /\ \A d \in Calls : d # c => reqs'[d] = reqs[d]
  BY <1>1
<1>4. Only(c) /\ calls[c].pc = "idle" /\ ~HasLink(c) /\ ~HasDue(c) /\ Line!Free(c)
  BY <1>1, <1>3, ArrivesFree, FreeCall DEF Only
<1>5. HasLink(c)' /\ OfCall(c)' = new /\ ~HasDue(c)'
  BY <1>1, <1>2, <1>3, <1>4 DEF HasLink, OfCall, HasDue
<1>6. Due' = Due
  BY <1>4, <1>5, DuesStand
<1>7. LinksCarried /\ LinksCarried'
  BY <1>1, CarriedLinks, CarriedLinksNext DEF LineInv, EndpointInv
<1>8. CarriedBy({c}, {}, {}) = {} /\ CarriedBy({c}, {}, {})' = {new}
  BY <1>4, <1>5, <1>7 DEF CarriedBy, LinksCarried
<1>9. Links' = (Links \ CarriedBy({c}, {}, {})) \cup CarriedBy({c}, {}, {})'
  <2>1. {c} \in SUBSET Calls /\ \A d \in Calls \ {c} : reqs'[d] = reqs[d] /\ calls'[d] = calls[d]
    BY <1>4 DEF Only
  <2> QED  BY <1>1, <2>1, LinksMove
<1>10. Links' = Links \cup {Line!Carried(s, "begun", c, None)}
  BY <1>8, <1>9 DEF Link, Line!Carried
<1>11. Line!MakeSession(s, u)
  BY <1>1, SessionMade DEF Login
<1>12. Drawn' = Drawn
  BY <1>1, DrawnStand
<1>13. Line!Login(c, u, s)
  BY <1>4, <1>6, <1>10, <1>11, <1>12 DEF Line!Login
<1> QED  BY <1>13 DEF LineStep, Line!Next

\* Taking the parked request moves nothing, or ends a line that has no client.
LEMMA TakeParkedMoves ==
  ASSUME Stepping, NEW c \in Calls, NEW cl \in Clients \cup {None}, TakeParked(c, cl)
  PROVE  LineStep
<1> DEFINE next == IF cl = None THEN "loggedIn" ELSE "issueCode"
           r == [reqs[c] EXCEPT !.client = cl, !.pc = next]
<1>1. /\ reqs \in [Calls -> Req] /\ reqs[c] \in Req /\ reqs[c].pc = "park"
      /\ calls[c].pc = "idle"
      /\ UNCHANGED <<rows, calls, codes, sessions>>
  BY DEF TakeParked, Stepping, LineInv, EndpointInv, EndpointTypeOK, Carries, vars
<1>2. r.pc = next /\ r.session = reqs[c].session
  BY <1>1 DEF Req
<1>3. reqs' = [reqs EXCEPT ![c] = r]
  BY <1>1 DEF TakeParked
<1> HIDE DEF r
<1>4. reqs'[c] = r /\ Only(c)
  BY <1>1, <1>3 DEF Only
<1>5. HasLink(c) /\ OfCall(c) = Link(reqs[c].session, "begun", c, None) /\ ~HasDue(c)
  BY <1>1 DEF HasLink, OfCall, HasDue
<1>6. (HasLink(c)' => OfCall(c)' = OfCall(c)) /\ ~HasDue(c)'
  BY <1>1, <1>2, <1>4, <1>5 DEF HasLink, OfCall, HasDue, Minting
<1>7. Links' \subseteq Links
  BY <1>1, <1>4, <1>5, <1>6, LinksShrink DEF HasRow, Live
<1>8. Due' = Due
  BY <1>4, <1>5, <1>6, DuesStand
<1> QED  BY <1>1, <1>7, <1>8, SessionsStand, DrawnStand, LinesEnd

\* A line is handed on by request c, with a code or a token or neither.
LEMMA HandedOn ==
  ASSUME Stepping, NEW c \in Calls, Only(c),
         NEW K \in SUBSET Codes, \A k \in Codes \ K : codes'[k] = codes[k],
         NEW T \in SUBSET Tokens, \A t \in Tokens \ T : rows'[t] = rows[t]
  PROVE  Links' = (Links \ CarriedBy({c}, K, T)) \cup CarriedBy({c}, K, T)'
<1>1. {c} \in SUBSET Calls /\ \A d \in Calls \ {c} : reqs'[d] = reqs[d] /\ calls'[d] = calls[d]
  BY DEF Only
<1> QED  BY <1>1, LinksMove DEF Stepping

\* The code takes the line over from the callback.
LEMMA IssueCodeHandsOn ==
  ASSUME Stepping, NEW c \in Calls, NEW k \in Codes, IssueCode(c, k)
  PROVE  LineStep
<1> DEFINE row == [client |-> reqs[c].client, user |-> reqs[c].user,
                   session |-> reqs[c].session, expiresAt |-> now + CodeTTL]
           a == Link(reqs[c].session, "begun", c, None)
           b == Link(reqs[c].session, "coded", k, reqs[c].client)
<1>1. /\ LineInv /\ TypeOK /\ EndpointTypeOK /\ reqs \in [Calls -> Req]
      /\ codes \in [Codes -> CodeRow \cup {None, Deleted}]
      /\ reqs[c].pc = "issueCode" /\ calls[c].pc = "idle" /\ codes[k] = None
      /\ reqs[c].client \in Clients /\ reqs[c].user \in Users
      /\ reqs[c].session \in SessionTokens
      /\ UNCHANGED <<rows, calls, sessions>> /\ codes' = [codes EXCEPT ![k] = row]
  BY DEF IssueCode, Stepping, LineInv, Inv, EndpointInv, EndpointTypeOK, Carries, Pending, vars
<1>2. /\ reqs'[c].pc = "loggedIn" /\ \A d \in Calls : d # c => reqs'[d] = reqs[d]
  BY <1>1, ToFrame DEF IssueCode, Replies
<1>3. row \in CodeRow /\ row \notin {None, Deleted}
  BY <1>1, EndpointAssumption DEF CodeRow, TypeOK
<1>4. /\ codes'[k] = row /\ row.session = reqs[c].session /\ row.client = reqs[c].client
      /\ \A x \in Codes : x # k => codes'[x] = codes[x]
  BY <1>1
<1> HIDE DEF row
<1>5. Only(c) /\ HasLink(c) /\ OfCall(c) = a /\ ~HasDue(c) /\ ~HasLink(c)' /\ ~HasDue(c)'
  BY <1>1, <1>2 DEF Only, HasLink, OfCall, HasDue, Minting
<1>6. ~HasRow(k) /\ HasRow(k)' /\ OfCode(k)' = b
  BY <1>1, <1>3, <1>4 DEF HasRow, OfCode
<1>7. Due' = Due
  BY <1>5, DuesStand
<1>8. LinksCarried /\ LinksCarried'
  BY CarriedLinks, CarriedLinksNext DEF Stepping, LineInv, EndpointInv
<1>9. a \in Links /\ CarriedBy({c}, {k}, {}) = {a} /\ CarriedBy({c}, {k}, {})' = {b}
  BY <1>5, <1>6, <1>8 DEF CarriedBy, LinksCarried
<1>10. Links' = (Links \ CarriedBy({c}, {k}, {})) \cup CarriedBy({c}, {k}, {})'
  <2>1. {k} \in SUBSET Codes /\ \A x \in Codes \ {k} : codes'[x] = codes[x]
    BY <1>4
  <2>2. {} \in SUBSET Tokens /\ \A t \in Tokens \ {} : rows'[t] = rows[t]
    BY <1>1
  <2> QED  BY <1>5, <2>1, <2>2, HandedOn
<1>11. k \notin Drawn /\ Drawn' = Drawn \cup {k}
  BY <1>1, <1>3, <1>4, EndpointAssumption DEF Drawn
<1>12. b = Line!Carried(a.login, "coded", k, reqs[c].client) /\ a.at = "begun"
  BY DEF Link, Line!Carried
<1>13. UNCHANGED <<SessionUsers, LiveSessions>>
  BY <1>1, SessionsStand
<1> HIDE DEF a, b
<1>14. Line!MakeCode(a, k, reqs[c].client)
  BY <1>7, <1>9, <1>10, <1>11, <1>12, <1>13 DEF Line!MakeCode, Line!Draw
<1> QED  BY <1>1, <1>9, <1>14 DEF LineStep, Line!Next

\* Whoever takes the code takes the line over; a code that is refused ends it.
LEMMA TakeCodeHandsOn ==
  ASSUME Stepping, NEW c \in Calls, NEW cl \in Clients, NEW k \in Codes,
         NEW proofs \in BOOLEAN, TakeCode(c, cl, k, proofs)
  PROVE  LineStep
<1> DEFINE hit == HasRow(k) /\ codes[k].expiresAt > now /\ codes[k].client = cl /\ proofs
           taken == [IdleReq EXCEPT !.pc = "issueRefresh", !.client = cl, !.from = k,
                       !.user = codes[k].user, !.session = codes[k].session]
           a == OfCode(k)
           b == Link(codes[k].session, "exchanging", c, cl)
<1>1. /\ LineInv /\ TypeOK /\ EndpointTypeOK /\ reqs \in [Calls -> Req]
      /\ codes \in [Codes -> CodeRow \cup {None, Deleted}]
      /\ reqs[c].pc = "idle" /\ codes' = [codes EXCEPT ![k] = Taken(k)]
      /\ UNCHANGED <<rows, calls, sessions>>
  BY DEF TakeCode, Arrive, Stepping, LineInv, Inv, EndpointInv, EndpointTypeOK, vars
<1>2. IF hit THEN reqs'[c].pc = "issueRefresh" /\ reqs'[c].client = cl
                  /\ reqs'[c].session = codes[k].session
      ELSE reqs'[c].pc = "rejected"
  BY <1>1 DEF TakeCode, IdleReq
<1>3. Only(c)
  BY <1>1 DEF TakeCode, Only
<1>4. calls[c].pc = "idle" /\ ~HasLink(c) /\ ~HasDue(c) /\ ~HasDue(c)' /\ Line!Free(c)
  BY <1>1, <1>2, ArrivesFree, FreeCall DEF HasDue
<1>5. ~HasRow(k)' /\ \A x \in Codes : x # k => codes'[x] = codes[x]
  BY <1>1 DEF Taken, HasRow
<1>6. \A x \in Codes : codes'[x] = None <=> codes[x] = None
  BY <1>1, EndpointAssumption DEF Taken, HasRow
<1>7. Due' = Due /\ Drawn' = Drawn /\ UNCHANGED <<SessionUsers, LiveSessions>>
  BY <1>1, <1>3, <1>4, <1>6, DuesStand, DrawnStand, SessionsStand
<1>8. CASE ~hit
  <2>1. ~HasLink(c)'
    BY <1>1, <1>2, <1>4, <1>8 DEF HasLink, Minting
  <2>2. \A x \in Codes : HasRow(x)' => HasRow(x) /\ codes'[x] = codes[x]
    BY <1>5 DEF HasRow
  <2>3. Links' \subseteq Links
    BY <1>1, <1>3, <2>1, <2>2, LinksShrink DEF Live
  <2> QED  BY <1>7, <2>3, LinesEnd
<1>9. CASE hit
  <2>1. HasLink(c)' /\ OfCall(c)' = b
    BY <1>1, <1>2, <1>9 DEF HasLink, OfCall
  <2>2. LinksCarried /\ LinksCarried'
    BY CarriedLinks, CarriedLinksNext DEF Stepping, LineInv, EndpointInv
  <2>3. a \in Links /\ CarriedBy({c}, {k}, {}) = {a} /\ CarriedBy({c}, {k}, {})' = {b}
    BY <1>4, <1>5, <1>9, <2>1, <2>2 DEF CarriedBy, LinksCarried
  <2>4. Links' = (Links \ CarriedBy({c}, {k}, {})) \cup CarriedBy({c}, {k}, {})'
    <3>1. {k} \in SUBSET Codes /\ \A x \in Codes \ {k} : codes'[x] = codes[x]
      BY <1>5
    <3>2. {} \in SUBSET Tokens /\ \A t \in Tokens \ {} : rows'[t] = rows[t]
      BY <1>1
    <3> QED  BY <1>3, <3>1, <3>2, HandedOn
  <2>5. b = Line!Carried(a.login, "exchanging", c, a.client) /\ a.at = "coded"
    BY <1>9 DEF Link, OfCode, Line!Carried
  <2> HIDE DEF a, b
  <2>6. Line!TakeCode(a, c)
    BY <1>4, <1>7, <2>3, <2>4, <2>5 DEF Line!TakeCode, Line!Pass
  <2> QED  BY <2>3, <2>6 DEF LineStep, Line!Next
<1> QED  BY <1>8, <1>9

\* The refresh token of the answer takes the line over from the exchange.
LEMMA GrantCodeHandsOn ==
  ASSUME Stepping, NEW c \in Calls, NEW f \in Families, NEW t \in Tokens, GrantCode(c, f, t)
  PROVE  LineStep
<1> DEFINE row == NewRow(reqs[c].user, reqs[c].client, f)
           new == [from |-> reqs[c].from, client |-> reqs[c].client,
                   access |-> reqs[c].session, refresh |-> t]
           a == Link(reqs[c].session, "exchanging", c, reqs[c].client)
           b == Link(reqs[c].session, "kept", t, reqs[c].client)
<1>1. /\ LineInv /\ LineInv' /\ TypeOK /\ EndpointTypeOK /\ reqs \in [Calls -> Req]
      /\ rows \in [Tokens -> Row \cup {None}]
      /\ reqs[c].pc = "issueRefresh" /\ calls[c].pc = "idle" /\ rows[t] = None
      /\ reqs[c].client \in Clients /\ reqs[c].user \in Users /\ reqs[c].from \in Codes
      /\ UNCHANGED <<calls, codes, sessions>> /\ rows' = [rows EXCEPT ![t] = row]
      /\ granted' = granted \cup {new}
  BY DEF GrantCode, Grant, Issue, FreshToken, Stepping, LineInv, Inv, TypeOK, EndpointInv,
         EndpointTypeOK, Carries, Pending
<1>2. reqs'[c].pc = "granted" /\ \A d \in Calls : d # c => reqs'[d] = reqs[d]
  BY <1>1, ToFrame DEF GrantCode, Replies
<1>3. row \in Row /\ row.family = f /\ row.client = reqs[c].client /\ ~row.revoked /\ row # None
  BY <1>1, NewRowType, NoneAssumption
<1> HIDE DEF row
<1>4. rows'[t] = row /\ \A x \in Tokens : x # t => rows'[x] = rows[x]
  BY <1>1, <1>3, NewRowFrame
<1>5. LoginOf'[f] = reqs[c].session
  <2>1. new \in granted' /\ Root(new) /\ new.refresh = t /\ new.access = reqs[c].session
    BY <1>1 DEF Root
  <2> HIDE DEF new
  <2> QED  BY <1>1, <1>3, <1>4, <2>1, RootIsNext DEF RootFound, Root
<1>6. Only(c) /\ HasLink(c) /\ OfCall(c) = a /\ ~HasDue(c) /\ ~HasLink(c)' /\ ~HasDue(c)'
  BY <1>1, <1>2 DEF Only, HasLink, OfCall, HasDue, Minting
<1>7. ~Live(t) /\ Live(t)' /\ OfToken(t)' = b
  BY <1>1, <1>3, <1>4, <1>5 DEF Live, OfToken
<1>8. Due' = Due /\ UNCHANGED <<SessionUsers, LiveSessions>>
  BY <1>1, <1>6, DuesStand, SessionsStand
<1>9. LinksCarried /\ LinksCarried'
  BY CarriedLinks, CarriedLinksNext DEF Stepping, LineInv, EndpointInv
<1>10. a \in Links /\ CarriedBy({c}, {}, {t}) = {a} /\ CarriedBy({c}, {}, {t})' = {b}
  BY <1>6, <1>7, <1>9 DEF CarriedBy, LinksCarried
<1>11. Links' = (Links \ CarriedBy({c}, {}, {t})) \cup CarriedBy({c}, {}, {t})'
  <2>1. {} \in SUBSET Codes /\ \A x \in Codes \ {} : codes'[x] = codes[x]
    BY <1>1
  <2>2. {t} \in SUBSET Tokens /\ \A x \in Tokens \ {t} : rows'[x] = rows[x]
    BY <1>4
  <2> QED  BY <1>6, <2>1, <2>2, HandedOn
<1>12. t \notin Drawn /\ Drawn' = Drawn \cup {t}
  BY <1>1, <1>3, <1>4, EndpointAssumption DEF Drawn
<1>13. b = Line!Carried(a.login, "kept", t, a.client) /\ a.at = "exchanging"
  BY DEF Link, Line!Carried
<1> HIDE DEF a, b
<1>14. Line!Exchange(a, t)
  BY <1>8, <1>10, <1>11, <1>12, <1>13 DEF Line!Exchange, Line!Pass, Line!Draw
<1> QED  BY <1>10, <1>14 DEF LineStep, Line!Next

\* The lookup of a rotation carries nothing yet.
LEMMA StartRefreshMoves ==
  ASSUME Stepping, NEW c \in Calls, NEW cl \in Clients, NEW t \in Tokens, StartRefresh(c, cl, t)
  PROVE  LineStep
<1>1. /\ LineInv /\ reqs \in [Calls -> Req] /\ calls \in [Calls -> Call]
      /\ reqs[c].pc = "idle" /\ UNCHANGED <<rows, codes, sessions>>
  BY DEF StartRefresh, RotateFind, Arrive, Stepping, LineInv, Inv, TypeOK, EndpointInv,
         EndpointTypeOK
<1>2. /\ calls'[c].pc \in {"unknown", "kill", "consume"} /\ reqs'[c].pc = "rotating"
      /\ Only(c)
  BY <1>1 DEF StartRefresh, RotateFind, Branch, IdleReq, Only
<1>3. ~HasLink(c) /\ ~HasDue(c) /\ ~HasLink(c)' /\ ~HasDue(c)'
  BY <1>1, <1>2, ArrivesFree DEF HasLink, HasDue, Minting
<1>4. Links' \subseteq Links
  BY <1>1, <1>2, <1>3, LinksShrink DEF HasRow, Live
<1>5. Due' = Due
  BY <1>2, <1>3, DuesStand
<1> QED  BY <1>1, <1>4, <1>5, SessionsStand, DrawnStand, LinesEnd

\* A rotation that wins takes the line over from the token; one that loses moves nothing.
LEMMA ConsumeHandsOn ==
  ASSUME Stepping, NEW c \in Calls, RotateConsume(c), UNCHANGED epVars
  PROVE  LineStep
<1>0. calls[c].token \in Tokens
  BY DEF RotateConsume, Stepping, LineInv, Inv, TypeOK, Working
<1> PICK t \in Tokens : calls[c].token = t
  BY <1>0
<1> DEFINE a == OfToken(t)
           b == Link(LoginOf[rows[t].family], "rotating", c, rows[t].client)
<1>1. /\ LineInv /\ Kept /\ TypeOK /\ EndpointTypeOK /\ calls \in [Calls -> Call]
      /\ rows \in [Tokens -> Row \cup {None}]
      /\ calls[c].pc = "consume" /\ reqs[c].pc = "rotating"
      /\ rows' = Revoked({t}) /\ UNCHANGED <<codes, sessions, reqs>>
      /\ rows[t] # None
      /\ rows[t].family = calls[c].row.family /\ rows[t].client = calls[c].row.client
  BY DEF RotateConsume, Stepping, LineInv, Inv, TypeOK, EndpointInv, EndpointTypeOK, Carries,
         epVars, CallRow, Started, Working
<1>2. /\ calls'[c].pc = (IF Won(c) THEN "mint" ELSE "kill") /\ calls'[c].row = calls[c].row
      /\ \A d \in Calls : d # c => calls'[d] = calls[d]
  <2>1. (IF Won(c) THEN "mint" ELSE "kill") \in Working \cup Results
    BY DEF Working
  <2> QED  BY <1>1, <2>1, GotoFrame DEF RotateConsume
<1>3. /\ \A x \in Tokens : rows'[x] = None <=> rows[x] = None
      /\ \A x \in Tokens : x # t => rows'[x] = rows[x]
      /\ rows'[t].revoked
  <2>1. /\ \A x \in Tokens : rows'[x] = None <=> rows[x] = None
        /\ rows'[t].revoked
    BY <1>1, RevokedFrame
  <2>2. \A x \in Tokens : x # t => rows'[x] = rows[x]
    BY <1>1 DEF Revoked
  <2> QED  BY <2>1, <2>2
<1>4. Only(c) /\ ~HasLink(c) /\ ~HasDue(c) /\ ~HasDue(c)' /\ Line!Free(c)
  <2>1. Only(c) /\ ~HasLink(c) /\ ~HasDue(c) /\ ~HasDue(c)'
    BY <1>1, <1>2 DEF Only, HasLink, HasDue, Minting
  <2> QED  BY <1>1, <2>1, FreeCall
<1>5. Due' = Due /\ Drawn' = Drawn /\ UNCHANGED <<SessionUsers, LiveSessions>>
  BY <1>1, <1>3, <1>4, DuesStand, DrawnStand, SessionsStand
<1>6. CASE ~Won(c)
  <2>1. ~HasLink(c)'
    BY <1>1, <1>2, <1>6 DEF HasLink, Minting
  <2>2. \A x \in Tokens : Live(x)' => Live(x)
    BY <1>3 DEF Live
  <2>3. Links' \subseteq Links
    BY <1>1, <1>4, <2>1, <2>2, LinksShrink DEF HasRow
  <2> QED  BY <1>5, <2>3, LinesEnd
<1>7. CASE Won(c)
  <2>1. Live(t) /\ ~Live(t)'
    BY <1>1, <1>3, <1>7 DEF Won, Live
  <2>2. HasLink(c)' /\ OfCall(c)' = b
    BY <1>1, <1>2, <1>7 DEF HasLink, OfCall, Minting, Kept, Link
  <2>3. LinksCarried /\ LinksCarried'
    BY CarriedLinks, CarriedLinksNext DEF Stepping, LineInv, EndpointInv
  <2>4. a \in Links /\ CarriedBy({c}, {}, {t}) = {a} /\ CarriedBy({c}, {}, {t})' = {b}
    BY <1>4, <2>1, <2>2, <2>3 DEF CarriedBy, LinksCarried
  <2>5. Links' = (Links \ CarriedBy({c}, {}, {t})) \cup CarriedBy({c}, {}, {t})'
    <3>1. {} \in SUBSET Codes /\ \A k \in Codes \ {} : codes'[k] = codes[k]
      BY <1>1
    <3>2. {t} \in SUBSET Tokens /\ \A x \in Tokens \ {t} : rows'[x] = rows[x]
      BY <1>3
    <3> QED  BY <1>4, <3>1, <3>2, HandedOn
  <2>6. b = Line!Carried(a.login, "rotating", c, a.client) /\ a.at = "kept"
    BY DEF Link, OfToken, Line!Carried
  <2> HIDE DEF a, b
  <2>7. Line!Spend(a, c)
    BY <1>4, <1>5, <2>4, <2>5, <2>6 DEF Line!Spend, Line!Pass
  <2> QED  BY <2>4, <2>7 DEF LineStep, Line!Next
<1> QED  BY <1>6, <1>7

\* The successor takes the line over from the rotation, which is owed a session.
LEMMA MintHandsOn ==
  ASSUME Stepping, NEW c \in Calls, NEW t \in Tokens, RotateMint(c, t), UNCHANGED epVars
  PROVE  LineStep
<1> DEFINE f == calls[c].row.family
           a == Link(LoginOf[f], "rotating", c, calls[c].row.client)
           b == Link(LoginOf[f], "kept", t, calls[c].row.client)
           d == [request |-> c, login |-> LoginOf[f]]
<1>1. /\ LineInv /\ Kept /\ TypeOK /\ EndpointTypeOK
      /\ calls \in [Calls -> Call] /\ rows \in [Tokens -> Row \cup {None}]
      /\ calls[c].pc = "mint" /\ reqs[c].pc = "rotating" /\ rows[t] = None
      /\ calls[c].row \in Row /\ calls[c].token \in Tokens
      /\ rows[calls[c].token] # None /\ rows[calls[c].token].family = f
      /\ UNCHANGED <<codes, sessions, reqs>>
  BY DEF RotateMint, FreshToken, Stepping, LineInv, Inv, TypeOK, EndpointInv, EndpointTypeOK,
         Carries, epVars, CallRow, Started, Working
<1>2. LoginOf'[f] = LoginOf[f]
  BY <1>1 DEF Kept
<1>3. /\ calls'[c].pc = "rotated" /\ calls'[c].row = calls[c].row
      /\ \A x \in Calls : x # c => calls'[x] = calls[x]
  <2>1. calls' = [calls EXCEPT ![c] = [calls[c] EXCEPT !.pc = "rotated", !.next = t]]
    BY <1>1 DEF RotateMint
  <2> QED  BY <1>1, <2>1 DEF Call
<1>4. /\ rows'[t] # None /\ ~rows'[t].revoked /\ rows'[t].family = f
      /\ rows'[t].client = calls[c].row.client
      /\ \A x \in Tokens : x # t => rows'[x] = rows[x]
  <2>1. PICK r \in MintRows(c) : rows' = [rows EXCEPT ![t] = r]
    BY DEF RotateMint
  <2>2. /\ r \in Row /\ r.family = f /\ r.client = calls[c].row.client /\ ~r.revoked
    BY <1>1, NewRowType DEF MintRows, Row
  <2> QED  BY <1>1, <2>1, <2>2, NewRowFrame, NoneAssumption
<1>5. /\ Only(c) /\ HasLink(c) /\ OfCall(c) = a /\ ~HasLink(c)'
      /\ ~HasDue(c) /\ HasDue(c)' /\ DueOf(c)' = d
  BY <1>1, <1>2, <1>3 DEF Only, HasLink, OfCall, HasDue, DueOf, DueTo, Minting
<1>6. ~Live(t) /\ Live(t)' /\ OfToken(t)' = b
  BY <1>1, <1>2, <1>4 DEF Live, OfToken, Link
<1>7. UNCHANGED <<SessionUsers, LiveSessions>>
  BY <1>1, SessionsStand
<1>8. LinksCarried /\ LinksCarried' /\ DuesOwed'
  BY CarriedLinks, CarriedLinksNext, OwedDuesNext DEF Stepping, LineInv, EndpointInv
<1>9. a \in Links /\ CarriedBy({c}, {}, {t}) = {a} /\ CarriedBy({c}, {}, {t})' = {b}
  BY <1>5, <1>6, <1>8 DEF CarriedBy, LinksCarried
<1>10. Links' = (Links \ CarriedBy({c}, {}, {t})) \cup CarriedBy({c}, {}, {t})'
  <2>1. {} \in SUBSET Codes /\ \A x \in Codes \ {} : codes'[x] = codes[x]
    BY <1>1
  <2>2. {t} \in SUBSET Tokens /\ \A x \in Tokens \ {t} : rows'[x] = rows[x]
    BY <1>4
  <2> QED  BY <1>5, <2>1, <2>2, HandedOn
<1>11. Due' = Due \cup {d}
  <2>1. {c} \in SUBSET Calls /\ OwedTo({c}) = {} /\ OwedTo({c})' = {d}
    BY <1>5, <1>8 DEF OwedTo, DuesOwed
  <2>2. Due' = (Due \ OwedTo({c})) \cup OwedTo({c})'
    BY <1>5, <2>1, DuesMove DEF Stepping, Only
  <2> QED  BY <2>1, <2>2
<1>12. t \notin Drawn /\ Drawn' = Drawn \cup {t}
  BY <1>1, <1>4, EndpointAssumption DEF Drawn
<1>13. /\ b = Line!Carried(a.login, "kept", t, a.client) /\ a.at = "rotating"
       /\ d = [request |-> a.by, login |-> a.login]
  BY DEF Link, Line!Carried
<1> HIDE DEF a, b, d
<1>14. Line!Succeed(a, t)
  BY <1>7, <1>9, <1>10, <1>11, <1>12, <1>13 DEF Line!Succeed, Line!Pass, Line!Draw
<1> QED  BY <1>9, <1>14 DEF LineStep, Line!Next

\* Reuse, and a failure, end lines.
LEMMA RotationEnds ==
  ASSUME Stepping, NEW c \in Calls, RotateKill(c) \/ RotateFail(c), UNCHANGED epVars
  PROVE  LineStep
<1>1. /\ LineInv /\ TypeOK /\ EndpointTypeOK /\ calls \in [Calls -> Call]
      /\ rows \in [Tokens -> Row \cup {None}]
      /\ calls[c].pc \in Working /\ reqs[c].pc = "rotating"
      /\ UNCHANGED <<codes, sessions, reqs>>
  BY DEF RotateKill, RotateFail, Stepping, LineInv, Inv, TypeOK, EndpointInv, EndpointTypeOK,
         Carries, epVars, Working
<1>2. /\ calls'[c].pc \in {"reuse", "failed"}
      /\ \A d \in Calls : d # c => calls'[d] = calls[d]
  BY <1>1, GotoFrame DEF RotateKill, RotateFail, Results
<1>3. \A t \in Tokens :
        (rows'[t] = None <=> rows[t] = None) /\ (rows'[t] # None => (rows[t].revoked => rows'[t].revoked))
  BY <1>1, RevokedFrame DEF RotateKill, RotateFail
<1>4. Only(c) /\ ~HasDue(c) /\ ~HasDue(c)' /\ ~HasLink(c)'
  BY <1>1, <1>2 DEF Only, HasLink, HasDue, Minting, Working
<1>5. Links' \subseteq Links
  BY <1>1, <1>3, <1>4, LinksShrink DEF HasRow, Live
<1>6. Due' = Due
  BY <1>4, DuesStand
<1> QED  BY <1>1, <1>3, <1>5, <1>6, SessionsStand, DrawnStand, LinesEnd

\* What rotate() settles with: a rotation is owed its session still, or its request is
\* not its client's and forgoes it.
LEMMA SettleMoves ==
  ASSUME Stepping, NEW c \in Calls, SettleRefresh(c)
  PROVE  LineStep
<1>1. /\ LineInv /\ Kept /\ reqs \in [Calls -> Req] /\ calls \in [Calls -> Call]
      /\ calls[c] \in Call /\ reqs[c] \in Req
      /\ calls[c].pc \in Results /\ reqs[c].pc = "rotating"
      /\ UNCHANGED <<rows, codes, sessions>>
  BY DEF SettleRefresh, Return, Stepping, LineInv, Inv, TypeOK, EndpointInv, EndpointTypeOK
<1>2. /\ calls'[c].pc = "idle" /\ Only(c)
      /\ reqs'[c].pc = Outcome(c) /\ reqs'[c].refresh = calls[c].next
  BY <1>1 DEF SettleRefresh, Return, IdleCall, Only, Req
<1>3. Outcome(c) \in {"reuse", "error", "sweep", "rejected"}
      /\ (Outcome(c) = "sweep" => calls[c].pc = "rotated")
  BY DEF Outcome
<1>4. ~HasLink(c)'
  BY <1>2, <1>3 DEF HasLink, Minting
<1>5. ~HasLink(c)
  BY <1>1 DEF HasLink, Minting, Results
<1>6. Links' = Links
  BY <1>1, <1>2, <1>4, <1>5, LinksStand
<1>7. Drawn' = Drawn /\ UNCHANGED <<SessionUsers, LiveSessions>>
  BY <1>1, DrawnStand, SessionsStand
<1>8. CASE Outcome(c) = "sweep"
  <2>1. /\ calls[c].pc = "rotated" /\ calls[c].next \in Tokens /\ rows[calls[c].next] # None
        /\ rows[calls[c].next].family = calls[c].row.family
    BY <1>3, <1>8 DEF Stepping, LineInv, Inv, FamilyBinding, CallRow, Started
  <2>2. LoginOf'[calls[c].row.family] = LoginOf[calls[c].row.family]
    BY <1>1, <2>1 DEF Kept
  <2>3. HasDue(c) /\ HasDue(c)' /\ DueOf(c)' = DueOf(c)
    BY <1>1, <1>2, <1>8, <2>1, <2>2 DEF HasDue, DueOf, DueTo
  <2>4. Due' = Due
    BY <1>2, <2>3, DuesStand
  <2> QED  BY <1>6, <1>7, <2>4, LinesEnd
<1>9. CASE Outcome(c) # "sweep"
  <2>1. ~HasDue(c)'
    BY <1>2, <1>3, <1>9 DEF HasDue
  <2>2. CASE HasDue(c)
    BY <1>2, <1>6, <1>7, <2>1, <2>2, DuesDrop, DebtForgone
  <2>3. CASE ~HasDue(c)
    BY <1>2, <1>6, <1>7, <2>1, <2>3, DuesStand, LinesEnd
  <2> QED  BY <2>2, <2>3
<1> QED  BY <1>8, <1>9

\* The session that was owed is of the user who logged in.
LEMMA GrantRefreshRenews ==
  ASSUME Stepping, NEW c \in Calls, NEW s \in SessionTokens, GrantRefresh(c, s)
  PROVE  LineStep
<1> DEFINE u == reqs[c].user
           l == LoginOf[rows[reqs[c].refresh].family]
<1>1. /\ LineInv /\ TypeOK /\ EndpointTypeOK /\ reqs \in [Calls -> Req]
      /\ reqs[c].pc = "issueSession" /\ calls[c].pc = "idle" /\ u \in Users
      /\ sessions[s] = None /\ sessions' = [sessions EXCEPT ![s] = NewSession(u)]
      /\ reqs[c].refresh \in Tokens /\ rows[reqs[c].refresh] # None
      /\ rows[reqs[c].refresh].user = u
      /\ UNCHANGED <<rows, calls, codes>>
  BY DEF GrantRefresh, Stepping, LineInv, Inv, EndpointInv, EndpointTypeOK, Carries, Bound,
         Pending, vars
<1>2. reqs'[c].pc = "granted" /\ \A d \in Calls : d # c => reqs'[d] = reqs[d]
  BY <1>1, ToFrame DEF GrantRefresh, Replies
<1>3. /\ Only(c) /\ ~HasLink(c) /\ ~HasLink(c)' /\ HasDue(c) /\ ~HasDue(c)'
      /\ DueOf(c).login = l
  BY <1>1, <1>2 DEF Only, HasLink, HasDue, DueOf, DueTo, Minting
<1>4. Links' = Links
  BY <1>1, <1>3, LinksStand, SMTT(30)
<1>5. Drawn' = Drawn
  BY <1>1, DrawnStand, SMTT(30)
<1>6. DueOf(c) \in Due /\ Due' = Due \ {DueOf(c)}
  BY <1>3, DuesDrop, SMTT(30)
<1>7. SessionUsers[DueOf(c).login] = u
  <2>1. l \in SessionTokens /\ sessions[l] # None /\ sessions[l].user = u
    BY <1>1, LoginOfRow
  <2> QED  BY <1>3, <2>1 DEF SessionUsers
<1>8. Line!MakeSession(s, u)
  BY <1>1, SessionMade
<1>9. Line!Renew(DueOf(c), s)
  BY <1>4, <1>5, <1>6, <1>7, <1>8 DEF Line!Renew
<1> QED  BY <1>6, <1>9 DEF LineStep, Line!Next

\* A sweep of sessions, and a logout, revoke sessions.
LEMMA SweepRevokes ==
  ASSUME Stepping, NEW c \in Calls,
         \/ \E ok \in BOOLEAN : SweepSessions(c, ok)
         \/ \E s \in SessionTokens : Logout(c, s)
  PROVE  LineStep
<1>1. /\ LineInv /\ Kept /\ reqs \in [Calls -> Req] /\ reqs[c] \in Req
      /\ sessions \in [SessionTokens -> SessionRow \cup {None}]
      /\ reqs[c].pc \in {"sweep", "idle"} /\ calls[c].pc = "idle"
      /\ UNCHANGED <<rows, calls, codes>>
  BY DEF SweepSessions, Logout, Arrive, Stepping, LineInv, EndpointInv, EndpointTypeOK,
         Carries, vars
<1>2. Only(c)
  BY <1>1 DEF SweepSessions, Logout, Only
<1>3. \/ reqs[c].pc = "idle" /\ reqs'[c].pc = "loggedOut"
      \/ /\ reqs[c].pc = "sweep" /\ reqs'[c].pc = "issueSession"
         /\ reqs'[c].refresh = reqs[c].refresh
  <2>1. ASSUME NEW s \in SessionTokens, Logout(c, s)
        PROVE  reqs[c].pc = "idle" /\ reqs'[c].pc = "loggedOut"
    BY <1>1, <2>1 DEF Logout, Arrive, IdleReq
  <2>2. ASSUME NEW ok \in BOOLEAN, SweepSessions(c, ok)
        PROVE  /\ reqs[c].pc = "sweep" /\ reqs'[c].pc = "issueSession"
               /\ reqs'[c].refresh = reqs[c].refresh
    BY <1>1, <2>2 DEF SweepSessions, Req
  <2> QED  BY <2>1, <2>2
<1>4. Links' = Links
  <2>1. ~HasLink(c) /\ ~HasLink(c)'
    BY <1>1, <1>3 DEF HasLink, Minting
  <2> QED  BY <1>1, <1>2, <2>1, LinksStand
<1>5. Due' = Due
  <2>1. (HasDue(c)' <=> HasDue(c)) /\ (HasDue(c) => DueOf(c)' = DueOf(c))
    <3>1. CASE reqs[c].pc = "idle"
      BY <1>1, <1>3, <3>1 DEF HasDue
    <3>2. CASE reqs[c].pc = "sweep"
      <4>1. reqs[c].refresh \in Tokens /\ rows[reqs[c].refresh] # None
        BY <1>1, <3>2 DEF LineInv, EndpointInv, EndpointTypeOK, Carries, Bound
      <4> QED  BY <1>1, <1>3, <3>2, <4>1 DEF HasDue, DueOf, DueTo, Kept
    <3> QED  BY <1>1, <3>1, <3>2
  <2> QED  BY <1>2, <2>1, DuesStand
<1>6. \A s \in SessionTokens : sessions[s] = None => sessions'[s] = None
  BY <1>1, RevokedSessionsFrame, ZenonT(40) DEF SweepSessions, Logout
<1>7. Drawn' = Drawn
  BY <1>1, DrawnStand, Zenon
<1> QED  BY <1>4, <1>5, <1>6, <1>7, SessionsDying, SessionsRevoked DEF Stepping

\* One of the two statements of a revocation.
LEMMA CascadeMoves ==
  ASSUME Stepping, NEW c \in Calls, NEW ok \in BOOLEAN, Cascade(c, ok)
  PROVE  LineStep
<1>1. /\ LineInv /\ reqs \in [Calls -> Req] /\ reqs[c] \in Req
      /\ rows \in [Tokens -> Row \cup {None}]
      /\ sessions \in [SessionTokens -> SessionRow \cup {None}]
      /\ reqs[c].pc = "cascade" /\ calls[c].pc = "idle" /\ codes' = codes
  BY DEF Cascade, Stepping, LineInv, Inv, TypeOK, EndpointInv, EndpointTypeOK, Carries
<1>2. calls' = calls
  BY DEF Cascade, RevokeRefresh, RevokeAllForUser, vars
<1>3. Only(c)
  BY <1>1, <1>2 DEF Cascade, Only
<1>4. reqs'[c].pc \in {"cascade", "revoked"}
  <2> DEFINE rest == Tail(reqs[c].todo)
             failed == IF ok THEN reqs[c].failed ELSE reqs[c].failed \cup {Head(reqs[c].todo)}
             next == IF rest = <<>> THEN "revoked" ELSE "cascade"
             r == [reqs[c] EXCEPT !.todo = rest, !.failed = failed, !.pc = next]
  <2>1. reqs' = [reqs EXCEPT ![c] = r]
    BY <1>1 DEF Cascade, GoOn
  <2>2. next \in {"cascade", "revoked"}
    OBVIOUS
  <2> HIDE DEF rest, failed, next
  <2>3. r.pc = next
    BY <1>1, ZenonT(30) DEF Req
  <2> HIDE DEF r
  <2> QED  BY <1>1, <2>1, <2>2, <2>3
<1>5. ~HasLink(c) /\ ~HasLink(c)' /\ ~HasDue(c) /\ ~HasDue(c)'
  BY <1>1, <1>2, <1>4 DEF HasLink, HasDue, Minting
<1>6. Due' = Due
  BY <1>3, <1>5, DuesStand
<1>7. CASE rows' = rows
  <2>1. Links' = Links /\ Drawn' = Drawn
    BY <1>1, <1>3, <1>5, <1>7, LinksStand, DrawnStand
  <2>2. \A s \in SessionTokens : sessions[s] = None => sessions'[s] = None
    BY <1>1, RevokedSessionsFrame DEF Cascade
  <2> QED  BY <1>6, <2>1, <2>2, SessionsDying, SessionsRevoked DEF Stepping
<1>8. CASE ok /\ Head(reqs[c].todo) = "refresh"
  <2>1. rows' = Revoked(UserRows(reqs[c].user)) /\ sessions' = sessions
    BY <1>8 DEF Cascade, RevokeRefresh, RevokeAllForUser
  <2>2. \A t \in Tokens :
          (rows'[t] = None <=> rows[t] = None) /\ (rows[t] # None => (rows[t].revoked => rows'[t].revoked))
    BY <1>1, <2>1, RevokedFrame
  <2>3. Links' \subseteq Links
    BY <1>1, <1>3, <1>5, <2>2, LinksShrink DEF HasRow, Live
  <2> QED  BY <1>1, <1>6, <2>1, <2>2, <2>3, SessionsStand, DrawnStand, LinesEnd
<1>9. ~(ok /\ Head(reqs[c].todo) = "refresh") => rows' = rows
  <2>1. ~(ok /\ Head(reqs[c].todo) = "refresh") => UNCHANGED vars
    BY Zenon DEF Cascade
  <2> QED  BY <2>1 DEF vars
<1> QED  BY <1>7, <1>8, <1>9, Zenon

\* The lookups of a revocation, a dropped request and an answered one end a line, let a
\* debt go, or move nothing.
LEMMA OthersMove ==
  ASSUME Stepping, NEW c \in Calls,
         \/ \E token \in Tokens \cup SessionTokens, ok \in BOOLEAN : StartRevoke(c, token, ok)
         \/ \E ok \in BOOLEAN : RevokeLookup(c, ok)
         \/ Drop(c) \/ Finish(c)
  PROVE  LineStep
<1>1. /\ LineInv /\ reqs \in [Calls -> Req] /\ reqs[c] \in Req
      /\ reqs[c].pc # "rotating" /\ calls[c].pc = "idle"
      /\ UNCHANGED <<rows, calls, codes, sessions>>
  BY ZenonT(40) DEF StartRevoke, RevokeLookup, Drop, Finish, Arrive, Replies, Stepping, LineInv,
                    EndpointInv, EndpointTypeOK, Carries, vars
<1>2. Only(c)
  BY <1>1 DEF StartRevoke, RevokeLookup, Drop, Finish, To, Only
<1>3. reqs'[c].pc \in {"lookup", "cascade", "ignored", "error", "idle"}
  <2>1. ASSUME NEW token \in Tokens \cup SessionTokens, NEW ok \in BOOLEAN,
               StartRevoke(c, token, ok)
        PROVE  reqs'[c].pc \in {"lookup", "cascade"}
    BY <1>1, <2>1 DEF StartRevoke, IdleReq
  <2>2. ASSUME NEW ok \in BOOLEAN, RevokeLookup(c, ok)
        PROVE  reqs'[c].pc \in {"ignored", "cascade"}
    BY <1>1, <2>2 DEF RevokeLookup, Req
  <2>3. ASSUME Drop(c) PROVE reqs'[c].pc = "error"
    BY <1>1, <2>3, ToFrame DEF Drop, Replies
  <2>4. ASSUME Finish(c) PROVE reqs'[c].pc = "idle"
    BY <1>1, <2>4 DEF Finish, IdleReq
  <2> QED  BY <2>1, <2>2, <2>3, <2>4
<1>4. ~HasLink(c)' /\ ~HasDue(c)'
  BY <1>1, <1>3 DEF HasLink, HasDue, Minting
<1>5. Links' \subseteq Links
  BY <1>1, <1>2, <1>4, LinksShrink DEF HasRow, Live
<1>6. Drawn' = Drawn /\ UNCHANGED <<SessionUsers, LiveSessions>>
  BY <1>1, DrawnStand, SessionsStand
<1>7. CASE HasDue(c)
  <2>1. ~HasLink(c)
    BY <1>1, <1>7 DEF HasLink, HasDue, Minting
  <2> QED  BY <1>1, <1>2, <1>4, <1>6, <1>7, <2>1, LinksStand, DuesDrop, DebtForgone
<1>8. CASE ~HasDue(c)
  BY <1>2, <1>4, <1>5, <1>6, <1>8, DuesStand, LinesEnd, SMTT(30)
<1> QED  BY <1>7, <1>8, SMTT(30)

\* The sweep of codes ends lines; the clock and stuttering move nothing.
LEMMA BackgroundEnds ==
  ASSUME Stepping, SweepCodes \/ ClockTick \/ UNCHANGED <<vars, epVars>>
  PROVE  LineStep
<1>1. /\ LineInv /\ Kept /\ codes \in [Codes -> CodeRow \cup {None, Deleted}]
      /\ UNCHANGED <<rows, calls, sessions, reqs>>
  BY DEF SweepCodes, ClockTick, Tick, epVars, vars, Stepping, LineInv, EndpointInv,
         EndpointTypeOK
<1>2. \A k \in Codes : codes'[k] = codes[k] \/ (HasRow(k) /\ codes'[k] = Deleted)
  BY <1>1 DEF SweepCodes, ClockTick, epVars
<1>3. \A k \in Codes : codes'[k] = None <=> codes[k] = None
  BY <1>2, EndpointAssumption DEF HasRow
<1>4. Links' \subseteq Links
  <2>1. LinksCarried /\ LinksCarried'
    BY CarriedLinks, CarriedLinksNext DEF Stepping, LineInv, EndpointInv
  <2>2. \A d \in Calls : HasLink(d)' => HasLink(d) /\ OfCall(d)' = OfCall(d)
    BY <1>1, CallStands
  <2>3. \A k \in Codes : HasRow(k)' => HasRow(k) /\ OfCode(k)' = OfCode(k)
    BY <1>2 DEF HasRow, OfCode
  <2>4. \A t \in Tokens : Live(t)' => Live(t) /\ OfToken(t)' = OfToken(t)
    BY <1>1, TokenStands DEF Live
  <2> QED  BY <2>1, <2>2, <2>3, <2>4 DEF LinksCarried
<1>5. Due' = Due
  <2>1. DuesOwed /\ DuesOwed'
    BY OwedDues, OwedDuesNext DEF Stepping, LineInv, EndpointInv
  <2>2. \A d \in Calls : (HasDue(d)' <=> HasDue(d)) /\ (HasDue(d) => DueOf(d)' = DueOf(d))
    BY <1>1, CallStands
  <2> QED  BY <2>1, <2>2 DEF DuesOwed
<1> QED  BY <1>1, <1>3, <1>4, <1>5, SessionsStand, DrawnStand, LinesEnd

-----------------------------------------------------------------------------
(* The refinement.                                                         *)

LEMMA LineStepped ==
  ASSUME LineInv, LineInv', [EndpointNext]_<<vars, epVars>>
  PROVE  LineStep
<1>1. Stepping
  BY Keeps, SessionsDie DEF Stepping, LineInv, EndpointInv
<1>2. ASSUME NEW c \in Calls,
             \/ \E u \in Users, s \in SessionTokens : Login(c, u, s)
             \/ \E cl \in Clients \cup {None} : TakeParked(c, cl)
             \/ \E k \in Codes : IssueCode(c, k)
             \/ \E cl \in Clients, k \in Codes, proofs \in BOOLEAN : TakeCode(c, cl, k, proofs)
             \/ \E f \in Families, t \in Tokens : GrantCode(c, f, t)
      PROVE  LineStep
  BY <1>1, <1>2, LoginBegins, TakeParkedMoves, IssueCodeHandsOn, TakeCodeHandsOn,
     GrantCodeHandsOn
<1>3. ASSUME NEW c \in Calls,
             \/ \E cl \in Clients, t \in Tokens : StartRefresh(c, cl, t)
             \/ Rotate(c) \/ SettleRefresh(c)
             \/ \E ok \in BOOLEAN : SweepSessions(c, ok)
             \/ \E s \in SessionTokens : GrantRefresh(c, s)
      PROVE  LineStep
  BY <1>1, <1>3, StartRefreshMoves, ConsumeHandsOn, MintHandsOn, RotationEnds, SettleMoves,
     SweepRevokes, GrantRefreshRenews DEF Rotate
<1>4. ASSUME NEW c \in Calls,
             \/ \E token \in Tokens \cup SessionTokens, ok \in BOOLEAN : StartRevoke(c, token, ok)
             \/ \E ok \in BOOLEAN : RevokeLookup(c, ok)
             \/ \E ok \in BOOLEAN : Cascade(c, ok)
             \/ \E s \in SessionTokens : Logout(c, s)
             \/ Drop(c) \/ Finish(c)
      PROVE  LineStep
  <2>1. ASSUME NEW ok \in BOOLEAN, Cascade(c, ok) PROVE LineStep
    BY <1>1, <2>1, CascadeMoves
  <2> QED  BY <1>1, <1>4, <2>1, OthersMove, SweepRevokes
<1>5. ASSUME SweepCodes \/ ClockTick \/ UNCHANGED <<vars, epVars>>
      PROVE  LineStep
  BY <1>1, <1>5, BackgroundEnds
<1> QED  BY <1>2, <1>3, <1>4, <1>5 DEF EndpointNext

LEMMA LineBegins == EndpointInit => Line!Init
<1> SUFFICES ASSUME EndpointInit PROVE Line!Init
  OBVIOUS
<1>1. /\ \A t \in Tokens : rows[t] = None
      /\ \A c \in Calls : calls[c].pc = "idle" /\ reqs[c].pc = "idle"
      /\ \A s \in SessionTokens : sessions[s] = None
      /\ \A k \in Codes : codes[k] = None
  BY DEF EndpointInit, Init, IdleReq, IdleCall
<1>2. SessionUsers = [s \in SessionTokens |-> None]
  BY <1>1 DEF SessionUsers
<1>3. LiveSessions = {} /\ Drawn = {}
  BY <1>1 DEF LiveSessions, LiveSession, Drawn
<1>4. Links = {}
  BY <1>1 DEF Links, CallsAt, HasRow, Live, Minting
<1>5. Due = {}
  BY <1>1 DEF Due, CallsAt
<1> QED  BY <1>2, <1>3, <1>4, <1>5 DEF Line!Init

\* From the callback on, every statement of every request hands a login on along its one
\* line, ends it, or leaves it alone, however many users, clients, sessions, codes, tokens
\* and concurrent requests there are.
THEOREM EndpointsImplementLine == EndpointSpec => ImplementsLine
<1>1. LineInv /\ LineInv' /\ [EndpointNext]_<<vars, epVars>> => [Line!Next]_(Line!vars)
  BY LineStepped DEF LineStep
<1> QED  BY <1>1, LineBegins, LineInvariance, PTL DEF EndpointSpec, ImplementsLine, Line!Spec

-----------------------------------------------------------------------------
(* What follows from it, of the endpoints' tables.                         *)

Promise == INSTANCE PromiseProofs WITH
  members <- [f \in Families |-> FamilyRows(f)],
  spent   <- {t \in Tokens : rows[t] # None /\ rows[t].revoked},
  minting <- {f \in Families : \E c \in Calls : Minting(c) /\ calls[c].row.family = f},
  user <- SessionUsers, alive <- LiveSessions, links <- Links, drawn <- Drawn, due <- Due

\* PromiseProofs is about the promise the endpoints were shown to keep.
LEMMA SamePromise ==
  /\ Promise!CL!Init <=> Line!Init
  /\ [Promise!CL!Next]_(Promise!CL!vars) <=> [Line!Next]_(Line!vars)
BY Zenon
   DEF Line!Init, Line!Next, Line!vars, Line!InRequest, Line!Free, Line!MakeSession,
       Line!Carried, Line!Pass, Line!Draw, Line!Login, Line!MakeCode, Line!TakeCode,
       Line!Exchange, Line!Spend, Line!Succeed, Line!Renew, Line!Forgo, Line!End, Line!Revoke,
       Promise!CL!Init, Promise!CL!Next, Promise!CL!vars, Promise!CL!InRequest,
       Promise!CL!Free, Promise!CL!MakeSession, Promise!CL!Carried, Promise!CL!Pass,
       Promise!CL!Draw, Promise!CL!Login, Promise!CL!MakeCode, Promise!CL!TakeCode,
       Promise!CL!Exchange, Promise!CL!Spend, Promise!CL!Succeed, Promise!CL!Renew,
       Promise!CL!Forgo, Promise!CL!End, Promise!CL!Revoke

\* A login has one usable code or refresh token, or one request about to make one, at any
\* time: across the callback, the exchange and every rotation no statement leaves two, so
\* a code and a token of one login are never both worth something.
THEOREM OneCredentialPerLogin == EndpointSpec => []Line!OneLine
<1>1. None \notin Users => (Promise!CL!Spec => []Promise!CL!OneLine)
  BY Promise!LineIsOne
<1>2. None \notin Users
  BY EndpointAssumption
<1>3. Promise!CL!OneLine <=> Line!OneLine
  BY Zenon DEF Line!OneLine, Promise!CL!OneLine
<1> QED  BY <1>1, <1>2, <1>3, SamePromise, EndpointsImplementLine, PTL
         DEF ImplementsLine, Line!Spec, Promise!CL!Spec

\* A user whose sessions are all revoked or gone, with no usable code or refresh token and no
\* request under way that would make one, gets a session from the endpoints only by a new
\* login: no code, token or late request of before brings anything back.
THEOREM OnlyALoginBegins == EndpointSpec => Line!OnlyLoginBegins
<1> DEFINE Begins == \A u \in Users : Line!Over(u) =>
                       \/ Line!Over(u)'
                       \/ \E c \in Calls, s \in SessionTokens : Line!Login(c, u, s)
           Began == \A u \in Users : Promise!CL!Over(u) =>
                       \/ Promise!CL!Over(u)'
                       \/ \E c \in Calls, s \in SessionTokens : Promise!CL!Login(c, u, s)
<1>1. None \notin Users => (Promise!CL!Spec => [][Began]_(Promise!CL!vars))
  BY Promise!NothingResumes DEF Promise!CL!OnlyLoginBegins
<1>2. None \notin Users
  BY EndpointAssumption
<1>3. [Began]_(Promise!CL!vars) => [Begins]_(Line!vars)
  BY Zenon
     DEF Line!vars, Line!Over, Line!Login, Line!Free, Line!MakeSession, Line!Carried,
         Line!InRequest, Promise!CL!vars, Promise!CL!Over, Promise!CL!Login, Promise!CL!Free,
         Promise!CL!MakeSession, Promise!CL!Carried, Promise!CL!InRequest
<1> QED  BY <1>1, <1>2, <1>3, SamePromise, EndpointsImplementLine, PTL
         DEF ImplementsLine, Line!Spec, Line!OnlyLoginBegins, Promise!CL!Spec

=============================================================================
