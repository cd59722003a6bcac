----------------------------- MODULE TokenEndpoint -----------------------------
(***************************************************************************)
(* The server's own OAuth endpoints over the refresh-token service:        *)
(* src/auth/mcpOAuthProvider.ts (POST /token, POST /revoke), the end of    *)
(* /auth/callback that hands out sessions and codes, /auth/logout, and the *)
(* session and code stores (sessionService.ts, authCodeStore.ts).          *)
(*                                                                         *)
(* A request is a member of Calls; while it rotates, its rotate() call is  *)
(* calls[c] of RefreshTokenService, whose actions are used as they are.    *)
(* One action is one SQL statement with the synchronous code after it.     *)
(***************************************************************************)
EXTENDS RefreshTokenService, Sequences

CONSTANTS
  SessionTokens, Codes,
  Deleted,               \* a code whose row was deleted; never drawn again
  SessionTTL, CodeTTL    \* SESSION_TTL_HOURS, OAUTH_CODE_TTL_SECONDS

VARIABLES
  sessions,   \* table Session, keyed by the raw bearer token
  codes,      \* table OAuthCode, keyed by the raw code
  reqs,       \* HTTP requests being served
  seen,       \* history: what was alive when the request arrived
  granted     \* history: token responses sent

epVars == <<sessions, codes, reqs, seen, granted>>

SessionRow == [user : Users, expiresAt : Nat, revoked : BOOLEAN]

\* redirectUri and codeChallenge are compared with what the request presents:
\* the request says whether it matches (see TakeCode).
CodeRow == [client : Clients, user : Users, session : SessionTokens, expiresAt : Nat]

ASSUME EndpointAssumption ==
  /\ SessionTTL \in Nat /\ CodeTTL \in Nat
  /\ None \notin SessionTokens \cup Codes \cup Users \cup Clients \cup SessionRow
  /\ {None, Deleted} \cap CodeRow = {} /\ None # Deleted
  /\ Tokens \cap Codes = {}

Pending == {"park", "issueCode",                      \* GET /auth/callback
            "issueRefresh",                           \* grant_type=authorization_code
            "rotating", "sweep", "issueSession",      \* grant_type=refresh_token
            "lookup", "cascade"}                      \* POST /revoke
Replies == {"loggedIn", "granted", "rejected", "reuse", "revoked", "ignored",
            "loggedOut", "error"}

Req == [pc : {"idle"} \cup Pending \cup Replies,
        client : Clients \cup {None}, user : Users \cup {None},
        session : SessionTokens \cup {None},
        refresh : Tokens \cup {None},
        from : Tokens \cup SessionTokens \cup Codes \cup {None},
        todo : Seq({"refresh", "sessions"}),    \* statements of a revocation to come
        failed : SUBSET {"refresh", "sessions"}]   \* those whose error was caught

IdleReq == [pc |-> "idle", client |-> None, user |-> None, session |-> None,
            refresh |-> None, from |-> None, todo |-> <<>>, failed |-> {}]

Unseen == [tokens |-> {}, sessions |-> {}]

\* What a request has when it is about to run each of its statements.
Carries(c) ==
  /\ calls[c].pc # "idle" <=> reqs[c].pc = "rotating"
  /\ reqs[c].pc \in Pending \ {"rotating", "lookup"} => reqs[c].user \in Users
  /\ reqs[c].pc \in {"park", "issueCode", "issueRefresh"} => reqs[c].session \in SessionTokens
  /\ reqs[c].pc \in {"issueCode", "issueRefresh"} => reqs[c].client \in Clients
  /\ reqs[c].pc = "issueRefresh" => reqs[c].from \in Codes
  /\ reqs[c].pc \in {"rotating", "sweep", "issueSession"} =>
       reqs[c].client \in Clients /\ reqs[c].from \in Tokens
  /\ reqs[c].pc \in {"sweep", "issueSession"} => reqs[c].refresh \in Tokens
  /\ reqs[c].pc = "cascade" => reqs[c].todo # <<>>

EndpointTypeOK ==
  /\ sessions \in [SessionTokens -> SessionRow \cup {None}]
  /\ codes \in [Codes -> CodeRow \cup {None, Deleted}]
  /\ reqs \in [Calls -> Req]
  /\ seen \in [Calls -> [tokens : SUBSET Tokens, sessions : SUBSET SessionTokens]]
  /\ granted \subseteq [from : Tokens \cup Codes, client : Clients,
                        access : SessionTokens, refresh : Tokens]
  /\ \A c \in Calls : Carries(c)

EndpointInit ==
  /\ Init
  /\ sessions = [s \in SessionTokens |-> None]
  /\ codes = [k \in Codes |-> None]
  /\ reqs = [c \in Calls |-> IdleReq]
  /\ seen = [c \in Calls |-> Unseen]
  /\ granted = {}

-----------------------------------------------------------------------------
(* Stores                                                                  *)

NewSession(u) == [user |-> u, expiresAt |-> now + SessionTTL, revoked |-> FALSE]

LiveSession(s) == sessions[s] # None /\ ~sessions[s].revoked

\* sessionService.validate
ValidSession(s) == LiveSession(s) /\ sessions[s].expiresAt > now

RevokedSessions(S) ==
  [s \in SessionTokens |-> IF s \in S /\ sessions[s] # None
                           THEN [sessions[s] EXCEPT !.revoked = TRUE]
                           ELSE sessions[s]]

NoSessions(u) == {}                               \* mutant: nothing revoked

UserSessions(u) == {s \in SessionTokens : sessions[s] # None /\ sessions[s].user = u}

HasRow(k) == codes[k] \notin {None, Deleted}

LeftInPlace(k) == codes[k]                        \* mutant: read, not deleted

\* takeValid: the row is deleted whether or not it has expired.
Taken(k) == IF HasRow(k) THEN Deleted ELSE codes[k]

-----------------------------------------------------------------------------
(* Requests                                                                *)

Arrive(c) ==
  /\ reqs[c].pc = "idle"
  /\ seen' = [seen EXCEPT ![c] =
       [tokens |-> {t \in Tokens : rows[t] # None},
        sessions |-> {s \in SessionTokens : LiveSession(s)}]]

To(c, pc) == reqs' = [reqs EXCEPT ![c].pc = pc]

\* GET /auth/callback, once GitLab has said who the user is: sessions.issue.
Login(c, u, s) ==
  /\ Arrive(c)
  /\ sessions[s] = None
  /\ sessions' = [sessions EXCEPT ![s] = NewSession(u)]
  /\ reqs' = [reqs EXCEPT ![c] =
       [IdleReq EXCEPT !.pc = "park", !.user = u, !.session = s]]
  /\ UNCHANGED <<vars, codes, granted>>

\* pendingStore.take: the client whose authorize request was parked, or None
\* (no parked request, expired, or the store failed): the HTML page.
TakeParked(c, cl) ==
  /\ reqs[c].pc = "park"
  /\ reqs' = [reqs EXCEPT ![c].client = cl,
                          ![c].pc = IF cl = None THEN "loggedIn" ELSE "issueCode"]
  /\ UNCHANGED <<vars, sessions, codes, seen, granted>>

\* codeStore.issue: the code carries the session token minted above.
IssueCode(c, k) ==
  /\ reqs[c].pc = "issueCode"
  /\ codes[k] = None
  /\ codes' = [codes EXCEPT ![k] =
       [client |-> reqs[c].client, user |-> reqs[c].user,
        session |-> reqs[c].session, expiresAt |-> now + CodeTTL]]
  /\ To(c, "loggedIn")
  /\ UNCHANGED <<vars, sessions, seen, granted>>

\* exchangeAuthorizationCode, codeStore.consume and the checks on its result.
\* proofs: redirect_uri is absent or equal, and the PKCE verifier matches.
TakeCode(c, cl, k, proofs) ==
  /\ Arrive(c)
  /\ codes' = [codes EXCEPT ![k] = Taken(k)]
  /\ reqs' = [reqs EXCEPT ![c] =
       IF HasRow(k) /\ codes[k].expiresAt > now /\ codes[k].client = cl /\ proofs
       THEN [IdleReq EXCEPT !.pc = "issueRefresh", !.client = cl, !.from = k,
                            !.user = codes[k].user, !.session = codes[k].session]
       ELSE [IdleReq EXCEPT !.pc = "rejected"]]
  /\ UNCHANGED <<vars, sessions, granted>>

Grant(c, access, refresh) ==
  granted' = granted \cup
    {[from |-> reqs[c].from, client |-> reqs[c].client,
      access |-> access, refresh |-> refresh]}

\* refresh.issue, and the response: the code's session token, unchecked.
GrantCode(c, f, t) ==
  /\ reqs[c].pc = "issueRefresh"
  /\ Issue(reqs[c].user, reqs[c].client, f, t)
  /\ Grant(c, reqs[c].session, t)
  /\ To(c, "granted")
  /\ UNCHANGED <<sessions, codes, seen>>

\* exchangeRefreshToken: rotate() begins.
StartRefresh(c, cl, t) ==
  /\ Arrive(c)
  /\ RotateFind(c, t)
  /\ reqs' = [reqs EXCEPT ![c] =
       [IdleReq EXCEPT !.pc = "rotating", !.client = cl, !.from = t]]
  /\ UNCHANGED <<sessions, codes, granted>>

\* rotate() runs on.
Rotate(c) ==
  /\ \/ RotateConsume(c) \/ RotateKill(c) \/ RotateFail(c)
     \/ \E t \in Tokens : RotateMint(c, t)
  /\ UNCHANGED epVars

AnyClient(c) == TRUE                              \* mutant: client not compared

SameClient(c) == calls[c].row.client = reqs[c].client

\* mutant: a failed rotation falls through
LaxOutcome(c) ==
  CASE calls[c].pc = "reuse" -> "reuse"
    [] calls[c].pc \in {"rotated", "failed"} /\ (calls[c].row.client = reqs[c].client) -> "sweep"
    [] OTHER -> "rejected"

\* What rotate()'s result leads to.  On reuse the result carries no userId, so
\* the "if (result.userId)" that would revoke the user's sessions is not taken.
Outcome(c) ==
  CASE calls[c].pc = "reuse"  -> "reuse"
    [] calls[c].pc = "failed" -> "error"
    [] calls[c].pc = "rotated" /\ SameClient(c) -> "sweep"
    [] OTHER -> "rejected"

\* exchangeRefreshToken after "await refresh.rotate(...)".
SettleRefresh(c) ==
  /\ reqs[c].pc = "rotating"
  /\ Return(c)
  /\ reqs' = [reqs EXCEPT ![c].pc = Outcome(c),
       ![c].user = IF calls[c].pc = "rotated" THEN calls[c].row.user ELSE None,
       ![c].refresh = calls[c].next]
  /\ UNCHANGED <<sessions, codes, seen, granted>>

\* sessions.revokeAllForUser(...).catch(() => undefined)
SweepSessions(c, ok) ==
  /\ reqs[c].pc = "sweep"
  /\ sessions' = IF ok THEN RevokedSessions(UserSessions(reqs[c].user)) ELSE sessions
  /\ reqs' = [reqs EXCEPT ![c].pc = "issueSession", ![c].failed = IF ok THEN {} ELSE {"sessions"}]
  /\ UNCHANGED <<vars, codes, seen, granted>>

\* sessions.issue, and the response.
GrantRefresh(c, s) ==
  /\ reqs[c].pc = "issueSession"
  /\ sessions[s] = None
  /\ sessions' = [sessions EXCEPT ![s] = NewSession(reqs[c].user)]
  /\ Grant(c, s, reqs[c].refresh)
  /\ To(c, "granted")
  /\ UNCHANGED <<vars, codes, seen>>

\* revokeToken, refresh.validate(token).catch(() => null).
StartRevoke(c, token, ok) ==
  /\ Arrive(c)
  /\ reqs' = [reqs EXCEPT ![c] =
       IF ok /\ token \in Tokens /\ Valid(token)
       THEN [IdleReq EXCEPT !.pc = "cascade", !.from = token, !.user = rows[token].user,
                            !.todo = <<"refresh", "sessions">>]
       ELSE [IdleReq EXCEPT !.pc = "lookup", !.from = token]]
  /\ UNCHANGED <<vars, sessions, codes, granted>>

SessionsOnly == <<"sessions">>                    \* mutant: no cascade

SessionCascade == <<"sessions", "refresh">>

\* revokeToken, sessions.validate(token).catch(() => null).
RevokeLookup(c, ok) ==
  /\ reqs[c].pc = "lookup"
  /\ LET s == reqs[c].from IN
     reqs' = [reqs EXCEPT ![c] =
       IF ok /\ s \in SessionTokens /\ ValidSession(s)
       THEN [@ EXCEPT !.pc = "cascade", !.user = sessions[s].user,
                      !.todo = SessionCascade]
       ELSE [@ EXCEPT !.pc = "ignored"]]
  /\ UNCHANGED <<vars, sessions, codes, seen, granted>>

\* mutant: rows deleted instead of marked
ForgetRefresh(u) ==
  /\ rows' = [t \in Tokens |-> IF t \in UserRows(u) THEN None ELSE rows[t]]
  /\ UNCHANGED <<calls, now>>

\* refresh.revokeAllForUser
RevokeRefresh(u) == RevokeAllForUser(u)

StopAtError(todo, ok) == IF ok THEN Tail(todo) ELSE <<>>   \* mutant: errors not caught

GoOn(todo, ok) == Tail(todo)

\* The two revokeAllForUser(...).catch(() => undefined), in the order of todo.
Cascade(c, ok) ==
  /\ reqs[c].pc = "cascade"
  /\ LET what == Head(reqs[c].todo)  rest == GoOn(reqs[c].todo, ok)  u == reqs[c].user IN
     /\ IF ok /\ what = "refresh" THEN RevokeRefresh(u) ELSE UNCHANGED vars
     /\ sessions' = IF ok /\ what = "sessions" THEN RevokedSessions(UserSessions(u))
                                               ELSE sessions
     /\ reqs' = [reqs EXCEPT ![c].todo = rest, ![c].failed = IF ok THEN @ ELSE @ \cup {what},
                             ![c].pc = IF rest = <<>> THEN "revoked" ELSE "cascade"]
  /\ UNCHANGED <<codes, seen, granted>>

\* POST /auth/logout: sessions.revoke(token), whatever the token.
Logout(c, s) ==
  /\ Arrive(c)
  /\ sessions' = RevokedSessions({s})
  /\ reqs' = [reqs EXCEPT ![c] =
       [IdleReq EXCEPT !.pc = "loggedOut", !.session = s,
          !.user = IF sessions[s] = None THEN None ELSE sessions[s].user]]
  /\ UNCHANGED <<vars, codes, granted>>

\* A statement whose error is not caught, or the process goes down.
Drop(c) ==
  /\ reqs[c].pc \in Pending \ {"rotating"}
  /\ To(c, "error")
  /\ UNCHANGED <<vars, sessions, codes, seen, granted>>

\* The response has gone out.
Finish(c) ==
  /\ reqs[c].pc \in Replies
  /\ reqs' = [reqs EXCEPT ![c] = IdleReq]
  /\ seen' = [seen EXCEPT ![c] = Unseen]
  /\ UNCHANGED <<vars, sessions, codes, granted>>

\* oauthSweep: deleteExpired on the code table (expiresAt < now).
SweepCodes ==
  /\ \E k \in Codes : HasRow(k) /\ codes[k].expiresAt < now
  /\ codes' = [k \in Codes |-> IF HasRow(k) /\ codes[k].expiresAt < now
                               THEN Deleted ELSE codes[k]]
  /\ UNCHANGED <<vars, sessions, reqs, seen, granted>>

ClockTick == Tick /\ UNCHANGED epVars

EndpointNext ==
  \/ \E c \in Calls :
       \/ \E u \in Users, s \in SessionTokens : Login(c, u, s)
       \/ \E cl \in Clients \cup {None} : TakeParked(c, cl)
       \/ \E k \in Codes : IssueCode(c, k)
       \/ \E cl \in Clients, k \in Codes, proofs \in BOOLEAN : TakeCode(c, cl, k, proofs)
       \/ \E f \in Families, t \in Tokens : GrantCode(c, f, t)
       \/ \E cl \in Clients, t \in Tokens : StartRefresh(c, cl, t)
       \/ Rotate(c)
       \/ SettleRefresh(c)
       \/ \E ok \in BOOLEAN : SweepSessions(c, ok)
       \/ \E s \in SessionTokens : GrantRefresh(c, s)
       \/ \E token \in Tokens \cup SessionTokens, ok \in BOOLEAN : StartRevoke(c, token, ok)
       \/ \E ok \in BOOLEAN : RevokeLookup(c, ok)
       \/ \E ok \in BOOLEAN : Cascade(c, ok)
       \/ \E s \in SessionTokens : Logout(c, s)
       \/ Drop(c)
       \/ Finish(c)
  \/ SweepCodes
  \/ ClockTick

EndpointSpec == EndpointInit /\ [][EndpointNext]_<<vars, epVars>>

-----------------------------------------------------------------------------
(* Properties                                                              *)

\* Under the endpoints' schedules the refresh-token service is still the one of
\* RefreshTokenService, so everything proved of Spec holds of the endpoints.
ImplementsService == Spec

\* A token response pairs a session and a refresh token of one user, and its
\* refresh token is bound to the client that asked: one client's grant never
\* ends in another client's hands, nor in another user's session.
GrantBinding ==
  \A g \in granted :
    /\ rows[g.refresh] # None /\ sessions[g.access] # None
    /\ rows[g.refresh].client = g.client
    /\ rows[g.refresh].user = sessions[g.access].user

\* An authorization code or a refresh token is answered with tokens at most
\* once, whatever requests present it concurrently or after a failure.
SingleUse == \A g, h \in granted : g.from = h.from => g = h

\* refreshTokenService.ts:10-12: a refresh token that was ever answered with its
\* successor is known for a replay when it is presented again, to whichever client's
\* request and however long after: the request goes on to revoke the family.  (It
\* rests on rows being marked, and neither deleted by the sweep nor by a revocation.)
ReplaysRecognised ==
  [][\A c \in Calls :
       /\ reqs[c].pc = "idle" /\ reqs'[c].pc = "rotating"
       /\ \E g \in granted : g.from = reqs'[c].from
       => calls'[c].pc = "kill"]_<<vars, epVars>>

\* Nothing of u's is alive, or about to be: no refresh token, session or code,
\* and no request past the point where it consumed one.
LoggedOut(u) ==
  /\ \A t \in Tokens : Live(t) => rows[t].user # u
  /\ \A s \in SessionTokens : LiveSession(s) => sessions[s].user # u
  /\ \A k \in Codes : HasRow(k) => codes[k].user # u
  /\ \A c \in Calls :
       /\ calls[c].pc \in {"mint", "rotated"} => calls[c].row.user # u
       /\ reqs[c].pc \in {"park", "issueCode", "issueRefresh", "sweep", "issueSession"}
            => reqs[c].user # u

\* A user with nothing alive gets nothing without logging in again: no lookup
\* made before the last credential died brings one back.
OnlyLoginRevives ==
  [][\A u \in Users : LoggedOut(u) =>
       \/ LoggedOut(u)'
       \/ \E c \in Calls : reqs[c].pc = "idle" /\ reqs'[c].pc = "park"
                           /\ reqs'[c].user = u]_<<vars, epVars>>

\* mcpOAuthProvider.ts:149-150: a refresh leaves none of the user's earlier
\* sessions live (when the sweep statement did not fail).
SupersededSessionsDie ==
  \A c \in Calls : reqs[c].pc = "granted" /\ reqs[c].refresh # None /\ "sessions" \notin reqs[c].failed =>
    \A s \in seen[c].sessions : sessions[s].user = reqs[c].user => ~LiveSession(s)

\* docs/security.md:43-44: after a /revoke, whichever of the two kinds of token was
\* presented, every session the user had when it arrived is dead, and so is every
\* refresh token, each unless its own statement failed: that the other's did is no
\* excuse.  (What is minted after its statement is not: the family goes on.)
RevokeCascades ==
  \A c \in Calls : reqs[c].pc = "revoked" =>
    /\ "sessions" \notin reqs[c].failed =>
         \A s \in seen[c].sessions : sessions[s].user = reqs[c].user => ~LiveSession(s)
    /\ "refresh" \notin reqs[c].failed =>
         \A t \in seen[c].tokens : rows[t].user = reqs[c].user => ~Live(t)

(* The promise of a login's credentials.                                   *)

\* The login that family f goes back to: its first token was answered, with the
\* login's session, to the exchange of the login's code.
LoginOf ==
  [f \in Families |->
     CHOOSE l \in SessionTokens :
       \E g \in granted : g.from \in Codes /\ rows[g.refresh].family = f /\ g.access = l]

CallsAt(S) == {c \in Calls : reqs[c].pc \in S}

Link(l, at, x, cl) == [login |-> l, at |-> at, by |-> x, client |-> cl]

Links ==
  {Link(reqs[c].session, "begun", c, None) : c \in CallsAt({"park", "issueCode"})} \cup
  {Link(codes[k].session, "coded", k, codes[k].client) : k \in {k \in Codes : HasRow(k)}} \cup
  {Link(reqs[c].session, "exchanging", c, reqs[c].client) : c \in CallsAt({"issueRefresh"})} \cup
  {Link(LoginOf[rows[t].family], "kept", t, rows[t].client) : t \in {t \in Tokens : Live(t)}} \cup
  {Link(LoginOf[calls[c].row.family], "rotating", c, calls[c].row.client) :
     c \in {c \in Calls : Minting(c)}}

DueTo(c, f) == [request |-> c, login |-> LoginOf[f]]

Due ==
  {DueTo(c, calls[c].row.family) : c \in {c \in Calls : calls[c].pc = "rotated"}} \cup
  {DueTo(c, rows[reqs[c].refresh].family) : c \in CallsAt({"sweep", "issueSession"})}

SessionUsers ==
  [s \in SessionTokens |-> IF sessions[s] = None THEN None ELSE sessions[s].user]

LiveSessions == {s \in SessionTokens : LiveSession(s)}

Drawn == {k \in Codes : codes[k] # None} \cup {t \in Tokens : rows[t] # None}

Line == INSTANCE CredentialLine WITH
  user <- SessionUsers, alive <- LiveSessions, links <- Links, drawn <- Drawn, due <- Due

\* From the callback on, and through every exchange, rotation, refusal, revocation,
\* failure and race, a login goes on along one line: each statement hands it on, ends
\* it, or leaves it alone.
ImplementsLine == Line!Spec

\* mcpOAuthProvider.ts:140-141: "Replay of a rotated token [...] Also revoke the
\* user's sessions so access tokens minted off this chain stop working": after
\* the reply to a replay, the sessions the user had when it arrived are dead.
ReuseRevokesSessions ==
  \A c \in Calls : reqs[c].pc = "reuse" /\ (\E g \in granted : g.from = reqs[c].from) =>
    \A s \in seen[c].sessions : sessions[s].user = rows[reqs[c].from].user => ~LiveSession(s)

=============================================================================
