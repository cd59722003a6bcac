------------------------------- MODULE LoginFlow -------------------------------
(***************************************************************************)
(* Logging in: startGitLabLogin and /auth/callback of                      *)
(* src/http/authRoutes.ts, authorize() of mcpOAuthProvider.ts and the      *)
(* checks of its exchangeAuthorizationCode, client registration            *)
(* (oauthClientStore.ts), the state cookie (stateCookie.ts), the state and *)
(* parked-request stores with their repositories, and the expiry sweep     *)
(* (oauthSweep.ts).  What follows an exchange is in TokenEndpoint.         *)
(*                                                                         *)
(* One action is one SQL statement or one GitLab call with the synchronous *)
(* code around it; a cookie changes in the browser when the response       *)
(* arrives.  A state stands for its PKCE verifier too: the row holds both. *)
(* It also names the PKCE pair of the client's authorize request it was    *)
(* drawn for: every request has a challenge of its own.                    *)
(***************************************************************************)
EXTENDS Integers, FiniteSets

CONSTANTS
  Browsers, Users,
  Clients,    \* client ids that registerClient can draw
  Uris,       \* redirect URIs that are asked for; a client may have registered others
  States,     \* values randomToken(16) can draw
  Calls,      \* requests being served
  None,
  Deleted,    \* a row that was deleted; its key is never drawn again
  TTL,        \* TTL_SECONDS of both stores (600)
  MaxTime     \* bound on the clock

ASSUME LoginAssumption ==
  TTL \in Nat /\ MaxTime \in Nat /\ None \notin Clients \cup Users \cup States \cup Browsers

VARIABLES
  clients,    \* table OAuthClient: client -> redirectUris
  states,     \* table OAuthState: state -> expiresAt
  parked,     \* table OAuthPending: state -> the authorize request of a client
  codes,      \* table OAuthCode: state of the login -> the request it answers
  users,      \* table User
  accounts,   \* table OAuthAccount: users with a row
  cookies,    \* the state in each browser's mcp_oauth_state cookie
  approved,   \* GitLab: the user who approved the authorization of a state
  calls,      \* the handlers
  startedBy,  \* history: the browser a state was drawn for
  parkedFor,  \* history: the authorize request it was drawn for, if any
  sessionsOf, \* history: sessions issued at the callback of a state
  delivered,  \* history: session tokens and codes handed out
  exchanged,  \* history: codes exchanged for tokens, by whom
  now

vars == <<clients, codes, exchanged, states, parked, users, accounts, cookies, approved, calls,
          startedBy, parkedFor, sessionsOf, delivered, now>>

Request == [client : Clients, redirectUri : Uris, codeChallenge : States]

Callback == {"exchange", "upsertUser", "upsertAccount", "issueSession", "unpark", "issueCode"}
Replies == {"redirect", "page", "bad", "failed", "error"}

\* null is no request and no row, and neither is a deleted row.
ASSUME NullAssumption ==
  /\ None # Deleted
  /\ {None, Deleted} \cap (Nat \cup Request \cup [request : Request, expiresAt : Nat]) = {}

Call == [pc : {"idle", "park"} \cup Callback \cup Replies,
         browser : Browsers \cup {None}, state : States \cup {None},
         request : Request \cup {None}]

IdleCall == [pc |-> "idle", browser |-> None, state |-> None, request |-> None]

TypeOK ==
  /\ states \in [States -> Nat \cup {None, Deleted}]
  /\ parked \in [States -> [request : Request, expiresAt : Nat] \cup {None, Deleted}]
  /\ clients \in [Clients -> (SUBSET Uris) \cup {None}]
  /\ codes \in [States -> Request \cup {None, Deleted}]
  /\ users \subseteq Users /\ accounts \subseteq users
  /\ cookies \in [Browsers -> States \cup {None}]
  /\ approved \in [States -> Users \cup {None}]
  /\ calls \in [Calls -> Call]
  /\ startedBy \in [States -> Browsers \cup {None}]
  /\ parkedFor \in [States -> Request \cup {None}]
  /\ sessionsOf \in [States -> Nat]
  /\ delivered \subseteq [browser : Browsers, state : States, user : Users,
                          request : Request \cup {None}]
  /\ exchanged \subseteq [state : States, client : Clients, verifier : States \cup {None}]
  /\ now \in 0..MaxTime

Init ==
  /\ clients = [cl \in Clients |-> None]
  /\ codes = [s \in States |-> None] /\ exchanged = {}
  /\ states = [s \in States |-> None] /\ parked = [s \in States |-> None]
  /\ users = {} /\ accounts = {}
  /\ cookies = [b \in Browsers |-> None]
  /\ approved = [s \in States |-> None]
  /\ calls = [c \in Calls |-> IdleCall]
  /\ startedBy = [s \in States |-> None] /\ parkedFor = [s \in States |-> None]
  /\ sessionsOf = [s \in States |-> 0]
  /\ delivered = {}
  /\ now = 0

-----------------------------------------------------------------------------
(* Starting                                                                *)

registry == <<clients, codes, exchanged>>

To(c, pc) == calls' = [calls EXCEPT ![c].pc = pc]

\* The redirect to GitLab reaches the browser with its cookie.
SendToGitLab(b, s) == cookies' = [cookies EXCEPT ![b] = s]

\* stateStore.save, for GET /auth/login (request = None: the redirect follows at
\* once) or for GET /authorize.
SaveState(c, b, s, request) ==
  /\ calls[c].pc = "idle"
  /\ states[s] = None
  /\ states' = [states EXCEPT ![s] = now + TTL]
  /\ startedBy' = [startedBy EXCEPT ![s] = b]
  /\ parkedFor' = [parkedFor EXCEPT ![s] = request]
  /\ calls' = [calls EXCEPT ![c] =
       [pc |-> IF request = None THEN "redirect" ELSE "park",
        browser |-> b, state |-> s, request |-> request]]
  /\ IF request = None THEN SendToGitLab(b, s) ELSE UNCHANGED cookies
  /\ UNCHANGED <<registry, parked, users, accounts, approved, sessionsOf, delivered, now>>

AnyUri(cl, uri) == clients[cl] # None             \* mutant: redirect_uri not checked

\* clientsStore.getClient and client.redirect_uris.includes: no code changes a
\* registered client, so the lookup and what follows it are one step.
Registered(cl, uri) == clients[cl] # None /\ uri \in clients[cl]

\* authorize: a redirect_uri that is not registered throws, and nothing is saved.
Authorize(c, b, s, cl, uri) ==
  /\ Registered(cl, uri)
  /\ SaveState(c, b, s, [client |-> cl, redirectUri |-> uri, codeChallenge |-> s])

\* pendingStore.save, the cookie and the redirect.
Park(c) ==
  LET s == calls[c].state IN
  /\ calls[c].pc = "park"
  /\ parked' = [parked EXCEPT ![s] = [request |-> calls[c].request, expiresAt |-> now + TTL]]
  /\ SendToGitLab(calls[c].browser, s)
  /\ To(c, "redirect")
  /\ UNCHANGED <<registry, states, users, accounts, approved, startedBy, parkedFor, sessionsOf,
                 delivered, now>>

\* pendingStore.save fails: the SDK's /authorize answers an error; no cookie.
ParkFails(c) ==
  /\ calls[c].pc = "park"
  /\ To(c, "error")
  /\ UNCHANGED <<registry, states, parked, users, accounts, cookies, approved, startedBy, parkedFor,
                 sessionsOf, delivered, now>>

\* The redirect to GitLab went out with state s.
Sent(s) == startedBy[s] # None /\ (parkedFor[s] # None => parked[s] # None)

\* The user logs in at GitLab and approves.
Approve(s, u) ==
  /\ approved[s] = None
  /\ Sent(s)
  /\ approved' = [approved EXCEPT ![s] = u]
  /\ UNCHANGED <<registry, states, parked, users, accounts, cookies, calls, startedBy, parkedFor,
                 sessionsOf, delivered, now>>

-----------------------------------------------------------------------------
(* GET /auth/callback                                                      *)

ValidState(s) == states[s] \notin {None, Deleted} /\ states[s] > now

ValidParked(s) == parked[s] \notin {None, Deleted} /\ parked[s].expiresAt > now

\* takeValid deletes the row, expired or not.
Take(table, s) == [table EXCEPT ![s] = IF @ = None THEN None ELSE Deleted]

Peek(table, s) == table                           \* mutant: read, not deleted

TakeState(table, s) == Take(table, s)

AnyCookie(b, s) == TRUE                           \* mutant: cookie not checked

CookieMatches(b, s) == cookies[b] = s

ClearCookie(b) == cookies' = [cookies EXCEPT ![b] = None]

\* The callback link of s is opened, again perhaps, in browser b: the cookie
\* check, stateStore.take, and the 400s.
Arrive(c, b, s) ==
  LET taken == CookieMatches(b, s)  ok == taken /\ ValidState(s) IN
  /\ calls[c].pc = "idle"
  /\ approved[s] # None
  /\ states' = IF taken THEN TakeState(states, s) ELSE states
  /\ calls' = [calls EXCEPT ![c] =
       [pc |-> IF ok THEN "exchange" ELSE "bad",
        browser |-> b, state |-> s, request |-> None]]
  /\ IF ok THEN UNCHANGED cookies ELSE ClearCookie(b)
  /\ UNCHANGED <<registry, parked, users, accounts, approved, startedBy, parkedFor, sessionsOf,
                 delivered, now>>

\* exchangeCode and fetchGitLabUser.
Exchange(c) ==
  /\ calls[c].pc = "exchange"
  /\ To(c, "upsertUser")
  /\ UNCHANGED <<registry, states, parked, users, accounts, cookies, approved, startedBy, parkedFor,
                 sessionsOf, delivered, now>>

UsersLater(c) == users                            \* mutant: user not written

UsersNow(c) == users \cup {approved[calls[c].state]}

\* users.upsertFromGitLab
UpsertUser(c) ==
  /\ calls[c].pc = "upsertUser"
  /\ users' = UsersNow(c)
  /\ To(c, "upsertAccount")
  /\ UNCHANGED <<registry, states, parked, accounts, cookies, approved, startedBy, parkedFor,
                 sessionsOf, delivered, now>>

AccountLater(c) == accounts                       \* mutant: account not written

AccountNow(c) == accounts \cup {approved[calls[c].state]}

\* accounts.upsert
UpsertAccount(c) ==
  /\ calls[c].pc = "upsertAccount"
  /\ accounts' = AccountNow(c)
  /\ To(c, "issueSession")
  /\ UNCHANGED <<registry, states, parked, users, cookies, approved, startedBy, parkedFor,
                 sessionsOf, delivered, now>>

\* sessions.issue
IssueSession(c) ==
  /\ calls[c].pc = "issueSession"
  /\ sessionsOf' = [sessionsOf EXCEPT ![calls[c].state] = @ + 1]
  /\ To(c, "unpark")
  /\ UNCHANGED <<registry, states, parked, users, accounts, cookies, approved, startedBy, parkedFor,
                 delivered, now>>

Deliver(c, request) ==
  delivered' = delivered \cup
    {[browser |-> calls[c].browser, state |-> calls[c].state,
      user |-> approved[calls[c].state], request |-> request]}

\* pendingStore.take(state).catch(() => null): the parked request, or the page.
Unpark(c, ok) ==
  LET s == calls[c].state  found == ok /\ ValidParked(s) IN
  /\ calls[c].pc = "unpark"
  /\ parked' = IF ok THEN Take(parked, s) ELSE parked
  /\ IF found
     THEN /\ calls' = [calls EXCEPT ![c].pc = "issueCode", ![c].request = parked[s].request]
          /\ UNCHANGED <<registry, cookies, delivered>>
     ELSE /\ To(c, "page") /\ Deliver(c, None) /\ ClearCookie(calls[c].browser)
  /\ UNCHANGED <<registry, states, users, accounts, approved, startedBy, parkedFor, sessionsOf,
                 now>>

\* codeStore.issue, and the redirect to the client with the code.
IssueCode(c) ==
  /\ calls[c].pc = "issueCode"
  /\ codes' = [codes EXCEPT ![calls[c].state] = calls[c].request]
  /\ Deliver(c, calls[c].request)
  /\ ClearCookie(calls[c].browser)
  /\ To(c, "redirect")
  /\ UNCHANGED <<clients, exchanged, states, parked, users, accounts, approved, startedBy,
                 parkedFor, sessionsOf, now>>

\* The catch: GitLab or a statement failed (the parked lookup catches its own
\* errors); the cookie is cleared only once clearStateCookie has run.
CallbackFails(c) ==
  /\ calls[c].pc \in Callback \ {"unpark"}
  /\ To(c, "failed")
  /\ IF calls[c].pc = "issueCode" THEN ClearCookie(calls[c].browser) ELSE UNCHANGED cookies
  /\ UNCHANGED <<registry, states, parked, users, accounts, approved, startedBy, parkedFor,
                 sessionsOf, delivered, now>>

-----------------------------------------------------------------------------
(* Clients                                                                 *)

\* registerClient: the id is drawn here.
Register(cl, uris) ==
  /\ clients[cl] = None
  /\ clients' = [clients EXCEPT ![cl] = uris]
  /\ UNCHANGED <<codes, exchanged, states, parked, users, accounts, cookies, approved, calls,
                 startedBy, parkedFor, sessionsOf, delivered, now>>

\* mutant: the verifier is not compared with the challenge
NoProof(code, cl, uri, verifier) == cl = code.client /\ uri \in {None, code.redirectUri}

\* Client, redirect_uri if there is one, and PKCE verifier.
Proof(code, cl, uri, verifier) ==
  /\ cl = code.client
  /\ uri \in {None, code.redirectUri}
  /\ verifier = code.codeChallenge

\* exchangeAuthorizationCode: the code of login s is presented.  Its row is deleted
\* before the checks; ok = FALSE is a code that had expired (see TokenEndpoint).
Redeem(s, cl, uri, verifier, ok) ==
  /\ codes[s] \notin {None, Deleted}
  /\ clients[cl] # None
  /\ codes' = [codes EXCEPT ![s] = Deleted]
  /\ exchanged' = exchanged \cup
       {x \in {[state |-> s, client |-> cl, verifier |-> verifier]} :
          ok /\ Proof(codes[s], cl, uri, verifier)}
  /\ UNCHANGED <<clients, states, parked, users, accounts, cookies, approved, calls,
                 startedBy, parkedFor, sessionsOf, delivered, now>>

-----------------------------------------------------------------------------
(* The rest                                                                *)

Finish(c) ==
  /\ calls[c].pc \in Replies
  /\ calls' = [calls EXCEPT ![c] = IdleCall]
  /\ UNCHANGED <<registry, states, parked, users, accounts, cookies, approved, startedBy, parkedFor,
                 sessionsOf, delivered, now>>

\* The process ends, by a signal or because a rejection is not handled (Express 4
\* does not catch those of /login, /logout and of the callback before its try):
\* no request in flight is answered; the tables stay.
Die ==
  /\ \E c \in Calls : calls[c].pc # "idle"
  /\ calls' = [c \in Calls |-> IdleCall]
  /\ UNCHANGED <<registry, states, parked, users, accounts, cookies, approved, startedBy, parkedFor,
                 sessionsOf, delivered, now>>

KeenCutoff == now + 2                             \* mutant: sweeps too early

\* deleteExpired's "lt: now".
Cutoff == now

Swept(row, expiresAt) ==
  IF row \notin {None, Deleted} /\ expiresAt < Cutoff THEN Deleted ELSE row

\* The statements of sweep() are independent of each other (Promise.allSettled).
SweepStates ==
  /\ states' = [s \in States |-> Swept(states[s], states[s])]
  /\ states' # states
  /\ UNCHANGED <<registry, parked, users, accounts, cookies, approved, calls, startedBy, parkedFor,
                 sessionsOf, delivered, now>>

SweepParked ==
  /\ parked' = [s \in States |-> Swept(parked[s], parked[s].expiresAt)]
  /\ parked' # parked
  /\ UNCHANGED <<registry, states, users, accounts, cookies, approved, calls, startedBy, parkedFor,
                 sessionsOf, delivered, now>>

Tick ==
  /\ now < MaxTime
  /\ now' = now + 1
  /\ UNCHANGED <<registry, states, parked, users, accounts, cookies, approved, calls, startedBy,
                 parkedFor, sessionsOf, delivered>>

Next ==
  \/ \E c \in Calls :
       \/ \E b \in Browsers, s \in States :
            \/ Arrive(c, b, s) \/ SaveState(c, b, s, None)
            \/ \E cl \in Clients, uri \in Uris : Authorize(c, b, s, cl, uri)
       \/ Park(c) \/ ParkFails(c)
       \/ Exchange(c) \/ UpsertUser(c) \/ UpsertAccount(c) \/ IssueSession(c)
       \/ \E ok \in BOOLEAN : Unpark(c, ok)
       \/ IssueCode(c) \/ CallbackFails(c) \/ Finish(c)
  \/ \E s \in States, u \in Users : Approve(s, u)
  \/ \E cl \in Clients, uris \in SUBSET Uris : Register(cl, uris)
  \/ \E s \in States, cl \in Clients, uri \in Uris \cup {None},
        verifier \in States \cup {None}, ok \in BOOLEAN : Redeem(s, cl, uri, verifier, ok)
  \/ Die \/ SweepStates \/ SweepParked \/ Tick

Spec == Init /\ [][Next]_vars

-----------------------------------------------------------------------------
(* Properties                                                              *)

\* What a browser is handed at the end of a login was started in that browser,
\* and a code goes to the client whose request was parked for that login.
DeliveredToStarter ==
  \A d \in delivered :
    /\ startedBy[d.state] = d.browser
    /\ d.request # None => parkedFor[d.state] = d.request

\* mcpOAuthProvider.ts:72-74: a code goes nowhere but to a URI the client registered.
CodesToRegisteredUris ==
  \A d \in delivered : d.request # None => d.request.redirectUri \in clients[d.request.client]

\* Only the client that began a login, and only with the verifier it made for that
\* request, gets tokens for it, whatever other codes and verifiers it holds; and an
\* exchange comes after a code was delivered.
TokensToRequester ==
  \A x \in exchanged :
    /\ parkedFor[x.state] # None
    /\ x.client = parkedFor[x.state].client
    /\ x.verifier = parkedFor[x.state].codeChallenge
    /\ \E d \in delivered : d.state = x.state /\ d.request = parkedFor[x.state]

\* One login yields at most one session, however often and wherever its callback
\* link is opened, and whatever failures and restarts come between.
OneSessionPerLogin == \A s \in States : sessionsOf[s] <= 1

\* Whoever holds a session has a linked GitLab account: a tool call never finds
\* no row for the user of a valid bearer token.
SessionHasAccount ==
  \A s \in States : sessionsOf[s] > 0 => approved[s] \in accounts

\* A state or a parked request that a read would still accept is removed only by
\* the callback of the browser that started the login: neither the sweep nor a
\* callback opened elsewhere spoils a login in progress.
OnlyStarterClaims ==
  [][\A s \in States :
       /\ ValidState(s) /\ states'[s] = Deleted =>
            \E c \in Calls : /\ calls[c].pc = "idle" /\ calls'[c].pc = "exchange"
                             /\ calls'[c].state = s /\ calls'[c].browser = startedBy[s]
       /\ ValidParked(s) /\ parked'[s] = Deleted =>
            \E c \in Calls : /\ calls[c].pc = "unpark" /\ calls'[c].pc = "issueCode"
                             /\ calls[c].state = s /\ calls[c].browser = startedBy[s]]_vars

\* The tables, handlers and histories, read as what LoginPromise calls a login: a
\* callback that has not issued its session claims it, one that has is granted it.
Claiming == {"exchange", "upsertUser", "upsertAccount", "issueSession"}
Granting == {"unpark", "issueCode"}

Serving(s, pcs) == \E c \in Calls : calls[c].state = s /\ calls[c].pc \in pcs

Phase(s) ==
  IF startedBy[s] = None THEN "none"
  ELSE IF \E x \in exchanged : x.state = s THEN "exchanged"
  ELSE IF \E d \in delivered : d.state = s THEN "delivered"
  ELSE IF Serving(s, Granting) THEN "granted"
  ELSE IF Serving(s, Claiming) THEN "claimed"
  ELSE IF states[s] # Deleted THEN "begun" ELSE "ended"

HandedTo(s) == {d.browser : d \in {e \in delivered : e.state = s}}

Promise == INSTANCE LoginPromise WITH
  Logins <- States,
  login <- [s \in States |->
    [phase |-> Phase(s), owner |-> startedBy[s], sessions |-> sessionsOf[s], to |-> HandedTo(s)]]

\* The flow, one statement at a time, failing or dying between any two, and swept
\* meanwhile, implements the promise: no login is claimed, granted, delivered or
\* exchanged twice, out of order, or after it ended.
ImplementsLogin == Promise!Spec

=============================================================================
