---------------------------- MODULE LoginFlowProofs ----------------------------
(***************************************************************************)
(* Proofs about LoginFlow, for every number of browsers, clients, redirect *)
(* URIs, users, logins and concurrent requests, every lifetime and bound   *)
(* on the clock.                                                           *)
(***************************************************************************)
EXTENDS LoginFlow, TLAPS

\* A handler works for the browser its state was drawn for, on the request it was
\* drawn for; a callback has taken the state, after an approval.
CallsHold ==
  \A c \in Calls :
    /\ calls[c].pc \in Callback \cup {"park"} =>
         /\ calls[c].state \in States /\ calls[c].browser \in Browsers
         /\ startedBy[calls[c].state] = calls[c].browser
    /\ calls[c].pc \in Callback =>
         approved[calls[c].state] \in Users /\ states[calls[c].state] = Deleted
    /\ calls[c].pc \in {"park", "issueCode"} =>
         calls[c].request \in Request /\ calls[c].request = parkedFor[calls[c].state]

\* Of a state that was not drawn there is nothing anywhere.
Undrawn ==
  \A s \in States :
    /\ startedBy[s] = None <=> states[s] = None
    /\ startedBy[s] = None =>
         /\ parked[s] = None /\ parkedFor[s] = None /\ codes[s] = None
         /\ approved[s] = None /\ sessionsOf[s] = 0

CookiesHold == \A b \in Browsers : cookies[b] # None => startedBy[cookies[b]] = b

\* What is parked under a state, and the code for it, are its client's request,
\* and the client has registered the URI.
RequestsHold ==
  \A s \in States :
    /\ parked[s] \notin {None, Deleted} => parked[s].request = parkedFor[s]
    /\ codes[s] \notin {None, Deleted} =>
         codes[s] = parkedFor[s] /\ \E d \in delivered : d.state = s /\ d.request = parkedFor[s]
    /\ parkedFor[s] # None => Registered(parkedFor[s].client, parkedFor[s].redirectUri)

\* A state is claimed by one callback, which issues one session, after the state is
\* gone, and is over when its result was delivered.
ClaimedOnce ==
  /\ \A c, d \in Calls :
       calls[c].pc \in Callback /\ calls[d].pc \in Callback /\ calls[c].state = calls[d].state => c = d
  /\ \A c \in Calls :
       /\ calls[c].pc \in Claiming => sessionsOf[calls[c].state] = 0
       /\ calls[c].pc \in Granting => sessionsOf[calls[c].state] = 1
  /\ \A s \in States : sessionsOf[s] > 0 => states[s] = Deleted
  /\ \A d \in delivered :
       /\ sessionsOf[d.state] = 1
       /\ \A c \in Calls : calls[c].pc \in Callback => calls[c].state # d.state

\* The user and the account are written before the session.
Linked ==
  \A c \in Calls :
    /\ calls[c].pc = "upsertAccount" => approved[calls[c].state] \in users
    /\ calls[c].pc = "issueSession" => approved[calls[c].state] \in accounts

LoginInv ==
  /\ TypeOK
  /\ CallsHold /\ Undrawn /\ CookiesHold /\ RequestsHold /\ ClaimedOnce /\ Linked
  /\ DeliveredToStarter /\ CodesToRegisteredUris /\ TokensToRequester
  /\ OneSessionPerLogin /\ SessionHasAccount

\* A handler that moves on stays a handler.
LEMMA MovesOn ==
  ASSUME TypeOK, NEW c \in Calls, NEW pc \in {"idle", "park"} \cup Callback \cup Replies,
         calls' = [calls EXCEPT ![c].pc = pc]
  PROVE  calls' \in [Calls -> Call]
BY SMTT(30) DEF TypeOK, Call

\* A state is drawn once, by one browser, for a request whose URI is registered.
LEMMA SaveStateKeeps ==
  ASSUME LoginInv, NEW c \in Calls, NEW b \in Browsers, NEW s \in States, NEW request \in Request \cup {None},
         request # None => Registered(request.client, request.redirectUri),
         SaveState(c, b, s, request)
  PROVE  LoginInv'
<1> USE LoginAssumption, NullAssumption DEF LoginInv
<1>1. TypeOK'
  BY SMTT(30) DEF SaveState, SendToGitLab, registry, TypeOK, Call, Replies
<1>2. CallsHold'
  BY SMT DEF SaveState, TypeOK, Callback, CallsHold, Undrawn
<1>3. Undrawn'
  <2>1. now + TTL \in Nat /\ now + TTL # None
    BY SMT DEF TypeOK
  <2>2. states'[s] # None /\ startedBy'[s] # None
    BY <2>1, SMT DEF SaveState, TypeOK
  <2>3. \A x \in States : x # s => states'[x] = states[x] /\ startedBy'[x] = startedBy[x]
                                   /\ parkedFor'[x] = parkedFor[x]
    BY SMT DEF SaveState, TypeOK
  <2> QED  BY <2>2, <2>3 DEF SaveState, registry, Undrawn
<1>4. CookiesHold'
  BY SMT DEF SaveState, SendToGitLab, TypeOK, CookiesHold, Undrawn
<1>5. RequestsHold'
  BY SMT DEF SaveState, registry, RequestsHold, Undrawn, Registered
<1>6. ClaimedOnce'
  BY SMT DEF SaveState, TypeOK, ClaimedOnce, CallsHold, Granting
<1>7. Linked'
  BY SMT DEF SaveState, Linked
<1>8. DeliveredToStarter'
  BY SMT DEF SaveState, TypeOK, DeliveredToStarter, Undrawn
<1>9. TokensToRequester'
  BY SMT DEF SaveState, registry, TokensToRequester, Undrawn
<1>10. CodesToRegisteredUris' /\ OneSessionPerLogin' /\ SessionHasAccount'
  BY DEF SaveState, registry, CodesToRegisteredUris, OneSessionPerLogin, SessionHasAccount
<1> QED  BY <1>1, <1>2, <1>3, <1>4, <1>5, <1>6, <1>7, <1>8, <1>9, <1>10

\* What is parked is the request the state was drawn for.
LEMMA ParkKeeps ==
  ASSUME LoginInv, NEW c \in Calls, Park(c)
  PROVE  LoginInv'
<1> USE LoginAssumption, NullAssumption DEF LoginInv
<1>1. TypeOK'
  <2>1. [request |-> calls[c].request, expiresAt |-> now + TTL] \in [request : Request, expiresAt : Nat]
    BY SMT DEF Park, TypeOK, CallsHold
  <2>2. parked' \in [States -> [request : Request, expiresAt : Nat] \cup {None, Deleted}]
    BY <2>1 DEF Park, TypeOK
  <2> QED  BY <2>2, SMT DEF Park, SendToGitLab, To, registry, TypeOK, Call, Replies, CallsHold
<1>2. CallsHold'
  BY SMT DEF Park, To, Callback, CallsHold
<1>3. Undrawn'
  BY SMT DEF Park, registry, Undrawn, CallsHold
<1>4. CookiesHold'
  BY SMT DEF Park, SendToGitLab, CookiesHold, CallsHold
<1>5. RequestsHold'
  BY SMT DEF Park, registry, RequestsHold, CallsHold, Registered
<1>6. ClaimedOnce'
  BY SMT DEF Park, To, ClaimedOnce, Callback, Claiming, Granting
<1>7. Linked'
  BY SMT DEF Park, To, Linked
<1>8. DeliveredToStarter' /\ CodesToRegisteredUris' /\ TokensToRequester' /\
      OneSessionPerLogin' /\ SessionHasAccount'
  BY DEF Park, registry, DeliveredToStarter, CodesToRegisteredUris, TokensToRequester,
         OneSessionPerLogin, SessionHasAccount
<1> QED  BY <1>1, <1>2, <1>3, <1>4, <1>5, <1>6, <1>7, <1>8

\* Without the row there is no cookie and no redirect.
LEMMA ParkFailsKeeps ==
  ASSUME LoginInv, NEW c \in Calls, ParkFails(c)
  PROVE  LoginInv'
<1> USE LoginAssumption, NullAssumption DEF LoginInv
<1>1. TypeOK'
  BY SMT DEF ParkFails, To, registry, TypeOK, Call, Replies
<1>2. CallsHold'
  BY SMT DEF ParkFails, To, Callback, CallsHold
<1>3. ClaimedOnce'
  BY SMT DEF ParkFails, To, ClaimedOnce, Callback, Claiming, Granting
<1>4. Linked'
  BY SMT DEF ParkFails, To, Linked
<1>5. Undrawn' /\ CookiesHold' /\ RequestsHold' /\ DeliveredToStarter' /\
      CodesToRegisteredUris' /\ TokensToRequester' /\ OneSessionPerLogin' /\
      SessionHasAccount'
  BY DEF ParkFails, registry, Undrawn, CookiesHold, RequestsHold, Registered, DeliveredToStarter,
         CodesToRegisteredUris, TokensToRequester, OneSessionPerLogin, SessionHasAccount
<1> QED  BY <1>1, <1>2, <1>3, <1>4, <1>5

\* GitLab knows a state only after it was drawn.
LEMMA ApproveKeeps ==
  ASSUME LoginInv, NEW s \in States, NEW u \in Users, Approve(s, u)
  PROVE  LoginInv'
<1> USE LoginAssumption, NullAssumption DEF LoginInv
<1>1. TypeOK'
  BY SMT DEF Approve, registry, TypeOK
<1>2. CallsHold'
  BY SMT DEF Approve, CallsHold
<1>3. Undrawn'
  BY SMT DEF Approve, Sent, registry, Undrawn
<1>4. Linked'
  BY SMT DEF Approve, TypeOK, Linked
<1>5. SessionHasAccount'
  BY SMT DEF Approve, TypeOK, SessionHasAccount
<1>6. CookiesHold' /\ RequestsHold' /\ ClaimedOnce' /\ DeliveredToStarter' /\
      CodesToRegisteredUris' /\ TokensToRequester' /\ OneSessionPerLogin'
  BY DEF Approve, registry, CookiesHold, RequestsHold, Registered, ClaimedOnce,
         DeliveredToStarter, CodesToRegisteredUris, TokensToRequester, OneSessionPerLogin
<1> QED  BY <1>1, <1>2, <1>3, <1>4, <1>5, <1>6

\* The state goes as it is claimed: no other callback can claim it, and none has.
LEMMA ArriveKeeps ==
  ASSUME LoginInv, NEW c \in Calls, NEW b \in Browsers, NEW s \in States, Arrive(c, b, s)
  PROVE  LoginInv'
<1> USE LoginAssumption, NullAssumption DEF LoginInv
<1>1. TypeOK'
  BY SMT DEF Arrive, TakeState, Take, ClearCookie, registry, TypeOK, Call, Callback, Replies
<1>2. CallsHold'
  BY SMT DEF Arrive, CookieMatches, ValidState, TakeState, Take, TypeOK, Callback, CallsHold,
             CookiesHold
<1>3. Undrawn'
  BY SMT DEF Arrive, TakeState, Take, registry, Undrawn
<1>4. CookiesHold'
  BY SMT DEF Arrive, ClearCookie, TypeOK, CookiesHold
<1>5. ClaimedOnce'
  BY SMT DEF Arrive, ValidState, TakeState, Take, TypeOK, ClaimedOnce, CallsHold, Callback,
             Claiming, Granting
<1>6. Linked'
  BY SMT DEF Arrive, Linked
<1>7. RequestsHold' /\ DeliveredToStarter' /\ CodesToRegisteredUris' /\
      TokensToRequester' /\ OneSessionPerLogin' /\ SessionHasAccount'
  BY DEF Arrive, registry, RequestsHold, Registered, DeliveredToStarter, CodesToRegisteredUris,
         TokensToRequester, OneSessionPerLogin, SessionHasAccount
<1> QED  BY <1>1, <1>2, <1>3, <1>4, <1>5, <1>6, <1>7

\* GitLab's code is exchanged; no table changes.
LEMMA ExchangeKeeps ==
  ASSUME LoginInv, NEW c \in Calls, Exchange(c)
  PROVE  LoginInv'
<1> USE LoginAssumption, NullAssumption DEF LoginInv
<1>1. TypeOK'
  <2>1. calls' \in [Calls -> Call]
    BY MovesOn DEF Exchange, To, Callback
  <2> QED  BY <2>1 DEF Exchange, registry, TypeOK
<1>2. CallsHold'
  BY SMT DEF Exchange, To, Callback, CallsHold
<1>3. ClaimedOnce'
  BY SMT DEF Exchange, To, ClaimedOnce, Callback, Claiming, Granting
<1>4. Linked'
  BY SMT DEF Exchange, To, Linked
<1>5. Undrawn' /\ CookiesHold' /\ RequestsHold' /\ DeliveredToStarter' /\
      CodesToRegisteredUris' /\ TokensToRequester' /\ OneSessionPerLogin' /\
      SessionHasAccount'
  BY DEF Exchange, registry, Undrawn, CookiesHold, RequestsHold, Registered, DeliveredToStarter,
         CodesToRegisteredUris, TokensToRequester, OneSessionPerLogin, SessionHasAccount
<1> QED  BY <1>1, <1>2, <1>3, <1>4, <1>5

\* The user is written before the account.
LEMMA UpsertUserKeeps ==
  ASSUME LoginInv, NEW c \in Calls, UpsertUser(c)
  PROVE  LoginInv'
<1> USE LoginAssumption, NullAssumption DEF LoginInv
<1>1. TypeOK'
  <2>1. calls' \in [Calls -> Call]
    BY MovesOn DEF UpsertUser, To, Callback
  <2>2. users' \subseteq Users /\ accounts' \subseteq users'
    BY SMT DEF UpsertUser, UsersNow, TypeOK, Callback, CallsHold
  <2> QED  BY <2>1, <2>2 DEF UpsertUser, registry, TypeOK
<1>2. CallsHold'
  BY SMT DEF UpsertUser, To, Callback, CallsHold
<1>3. ClaimedOnce'
  BY SMT DEF UpsertUser, To, ClaimedOnce, Callback, Claiming, Granting
<1>4. Linked'
  BY SMT DEF UpsertUser, UsersNow, To, Linked
<1>5. Undrawn' /\ CookiesHold' /\ RequestsHold' /\ DeliveredToStarter' /\
      CodesToRegisteredUris' /\ TokensToRequester' /\ OneSessionPerLogin' /\
      SessionHasAccount'
  BY DEF UpsertUser, registry, Undrawn, CookiesHold, RequestsHold, Registered, DeliveredToStarter,
         CodesToRegisteredUris, TokensToRequester, OneSessionPerLogin, SessionHasAccount
<1> QED  BY <1>1, <1>2, <1>3, <1>4, <1>5

\* The account is written before the session.
LEMMA UpsertAccountKeeps ==
  ASSUME LoginInv, NEW c \in Calls, UpsertAccount(c)
  PROVE  LoginInv'
<1> USE LoginAssumption, NullAssumption DEF LoginInv
<1>1. TypeOK'
  <2>1. approved[calls[c].state] \in users
    BY SMT DEF UpsertAccount, Linked
  <2>2. accounts' \subseteq users'
    BY <2>1, SMT DEF UpsertAccount, AccountNow, TypeOK
  <2>3. calls' \in [Calls -> Call]
    BY MovesOn DEF UpsertAccount, To, Callback
  <2> QED  BY <2>2, <2>3 DEF UpsertAccount, registry, TypeOK
<1>2. CallsHold'
  BY SMT DEF UpsertAccount, To, Callback, CallsHold
<1>3. ClaimedOnce'
  BY SMT DEF UpsertAccount, To, ClaimedOnce, Callback, Claiming, Granting
<1>4. Linked'
  BY SMT DEF UpsertAccount, AccountNow, To, Linked
<1>5. SessionHasAccount'
  BY SMT DEF UpsertAccount, AccountNow, SessionHasAccount
<1>6. Undrawn' /\ CookiesHold' /\ RequestsHold' /\ DeliveredToStarter' /\
      CodesToRegisteredUris' /\ TokensToRequester' /\ OneSessionPerLogin'
  BY DEF UpsertAccount, registry, Undrawn, CookiesHold, RequestsHold, Registered,
         DeliveredToStarter, CodesToRegisteredUris, TokensToRequester, OneSessionPerLogin
<1> QED  BY <1>1, <1>2, <1>3, <1>4, <1>5, <1>6

\* The one callback of a login issues its one session.
LEMMA IssueSessionKeeps ==
  ASSUME LoginInv, NEW c \in Calls, IssueSession(c)
  PROVE  LoginInv'
<1> USE LoginAssumption, NullAssumption DEF LoginInv
<1>1. TypeOK'
  <2>1. calls' \in [Calls -> Call]
    BY MovesOn DEF IssueSession, To, Callback
  <2>2. PICK n \in Nat : n = sessionsOf[calls[c].state]
    BY SMT DEF IssueSession, TypeOK, CallsHold, Callback
  <2>3. n + 1 \in Nat
    OBVIOUS
  <2>4. sessionsOf' = [sessionsOf EXCEPT ![calls[c].state] = n + 1]
    BY <2>2 DEF IssueSession
  <2>5. sessionsOf' \in [States -> Nat]
    BY <2>3, <2>4 DEF TypeOK
  <2> QED  BY <2>1, <2>5 DEF IssueSession, registry, TypeOK
<1>2. CallsHold'
  BY SMT DEF IssueSession, To, Callback, CallsHold
<1>3. Undrawn'
  BY SMT DEF IssueSession, registry, Undrawn, CallsHold, Callback
<1>4. ClaimedOnce'
  BY SMT DEF IssueSession, To, TypeOK, ClaimedOnce, CallsHold, Callback, Claiming
<1>5. Linked'
  BY SMT DEF IssueSession, To, Linked
<1>6. OneSessionPerLogin'
  BY SMT DEF IssueSession, OneSessionPerLogin, ClaimedOnce, Claiming
<1>7. SessionHasAccount'
  BY SMT DEF IssueSession, SessionHasAccount, Linked
<1>8. CookiesHold' /\ RequestsHold' /\ DeliveredToStarter' /\
      CodesToRegisteredUris' /\ TokensToRequester'
  BY DEF IssueSession, registry, CookiesHold, RequestsHold, Registered, DeliveredToStarter,
         CodesToRegisteredUris, TokensToRequester
<1> QED  BY <1>1, <1>2, <1>3, <1>4, <1>5, <1>6, <1>7, <1>8

\* What was parked under the state is the request it was drawn for; or the page is shown.
LEMMA UnparkKeeps ==
  ASSUME LoginInv, NEW c \in Calls, NEW ok \in BOOLEAN, Unpark(c, ok)
  PROVE  LoginInv'
<1> USE LoginAssumption, NullAssumption DEF LoginInv
<1> DEFINE s == calls[c].state
           found == ok /\ ValidParked(s)
<1>1. /\ calls[c].pc = "unpark" /\ s \in States /\ calls[c].browser \in Browsers
      /\ approved[s] \in Users /\ states[s] = Deleted /\ sessionsOf[s] = 1
      /\ startedBy[s] = calls[c].browser
  BY SMT DEF Unpark, CallsHold, ClaimedOnce, Callback, Granting
<1>2. \A x \in States : parked'[x] = parked[x] \/ (parked[x] # None /\ parked'[x] = Deleted)
  <2>1. CASE ok
    BY <2>1, SMT DEF Unpark, Take, TypeOK
  <2>2. CASE ~ok
    BY <2>2, SMT DEF Unpark
  <2> QED  BY <2>1, <2>2
<1>3. parked' \in [States -> [request : Request, expiresAt : Nat] \cup {None, Deleted}]
  <2>1. parked' = [x \in States |-> parked'[x]]
    BY DEF Unpark, Take, TypeOK
  <2> QED  BY <1>2, <2>1 DEF TypeOK
<1>4. found => /\ parked[s].request \in Request
               /\ parked[s].request = parkedFor[s]
  BY <1>1, SMT DEF ValidParked, RequestsHold, TypeOK
<1>5. /\ found => calls' = [calls EXCEPT ![c].pc = "issueCode", ![c].request = parked[s].request]
      /\ ~found => calls' = [calls EXCEPT ![c].pc = "page"]
      /\ found => UNCHANGED <<cookies, delivered>>
      /\ ~found => Deliver(c, None) /\ ClearCookie(calls[c].browser)
      /\ UNCHANGED <<registry, states, users, accounts, approved, startedBy, parkedFor, sessionsOf,
                     now>>
  BY DEF Unpark, To, registry
<1> HIDE DEF found, s
<1>6. calls' \in [Calls -> Call]
  <2>1. CASE found
    BY <1>4, <1>5, <2>1 DEF TypeOK, Call, Callback
  <2>2. CASE ~found
    BY <1>5, <2>2, MovesOn DEF Replies
  <2> QED  BY <2>1, <2>2
<1>7. /\ calls'[c].pc \in {"issueCode", "page"}
      /\ calls'[c].state = s /\ calls'[c].browser = calls[c].browser
      /\ calls'[c].pc = "issueCode" => found /\ calls'[c].request = parked[s].request
      /\ \A d \in Calls : d # c => calls'[d] = calls[d]
  <2>1. CASE found
    BY <1>5, <2>1, SMT DEF TypeOK, Call, s
  <2>2. CASE ~found
    BY <1>5, <2>2, SMT DEF TypeOK, Call, s
  <2> QED  BY <2>1, <2>2
<1>8. /\ cookies' \in [Browsers -> States \cup {None}]
      /\ \A b \in Browsers : cookies'[b] \in {cookies[b], None}
  BY <1>5, SMT DEF ClearCookie, TypeOK
<1>9. \A d \in delivered' :
        \/ d \in delivered
        \/ /\ d = [browser |-> calls[c].browser, state |-> s, user |-> approved[s], request |-> None]
           /\ calls'[c].pc = "page"
  <2>1. CASE found
    <3>1. delivered' = delivered
      BY <1>5, <2>1
    <3> QED  BY <3>1
  <2>2. CASE ~found
    BY <1>5, <1>7, <2>2 DEF Deliver, s
  <2> QED  BY <2>1, <2>2
<1>10. TypeOK'
  BY <1>1, <1>3, <1>5, <1>6, <1>8, <1>9 DEF registry, TypeOK
<1>11. CallsHold'
  BY <1>1, <1>4, <1>5, <1>7, SMT DEF CallsHold, Callback
<1>12. ClaimedOnce'
  BY <1>1, <1>5, <1>7, <1>9, SMT DEF ClaimedOnce, Claiming, Callback, s
<1>13. Linked'
  BY <1>5, <1>7, SMT DEF Linked
<1>14. Undrawn'
  BY <1>1, <1>2, <1>5 DEF registry, Undrawn
<1>15. CookiesHold'
  BY <1>5, <1>8 DEF CookiesHold
<1>16. RequestsHold'
  BY <1>2, <1>5, SMT DEF registry, RequestsHold, Registered, Deliver
<1>17. DeliveredToStarter'
  BY <1>1, <1>5, <1>9 DEF DeliveredToStarter
<1>18. CodesToRegisteredUris'
  BY <1>5, <1>9 DEF registry, CodesToRegisteredUris
<1>19. TokensToRequester'
  BY SMT DEF Unpark, Deliver, registry, TokensToRequester
<1>20. OneSessionPerLogin' /\ SessionHasAccount'
  BY <1>5 DEF OneSessionPerLogin, SessionHasAccount
<1> QED  BY <1>10, <1>11, <1>12, <1>13, <1>14, <1>15, <1>16, <1>17, <1>18, <1>19, <1>20

\* The code goes with the request of its login, to the browser that began it.
LEMMA IssueCodeKeeps ==
  ASSUME LoginInv, NEW c \in Calls, IssueCode(c)
  PROVE  LoginInv'
<1> USE LoginAssumption, NullAssumption DEF LoginInv
<1> DEFINE s == calls[c].state
           r == calls[c].request
           handed == [browser |-> calls[c].browser, state |-> s, user |-> approved[s], request |-> r]
<1>1. /\ calls[c].pc = "issueCode" /\ s \in States /\ calls[c].browser \in Browsers
      /\ approved[s] \in Users /\ states[s] = Deleted /\ sessionsOf[s] = 1
      /\ startedBy[s] = calls[c].browser
      /\ r \in Request /\ r = parkedFor[s]
  BY SMT DEF IssueCode, CallsHold, ClaimedOnce, Callback, Granting
<1>2. /\ codes' = [codes EXCEPT ![s] = r]
      /\ delivered' = delivered \cup {handed}
      /\ cookies' = [cookies EXCEPT ![calls[c].browser] = None]
      /\ calls' = [calls EXCEPT ![c].pc = "redirect"]
      /\ UNCHANGED <<clients, exchanged, states, parked, users, accounts, approved, startedBy,
                     parkedFor, sessionsOf, now>>
  BY DEF IssueCode, Deliver, ClearCookie, To
<1>3. /\ handed \in [browser : Browsers, state : States, user : Users, request : Request \cup {None}]
      /\ handed.browser = calls[c].browser /\ handed.state = s /\ handed.request = r
  BY <1>1
<1> HIDE DEF s, r, handed
<1>4. TypeOK'
  <2>1. calls' \in [Calls -> Call]
    BY <1>2, MovesOn DEF Replies
  <2>2. /\ codes' \in [States -> Request \cup {None, Deleted}]
        /\ cookies' \in [Browsers -> States \cup {None}]
    BY <1>1, <1>2, SMT DEF TypeOK
  <2> QED  BY <1>2, <1>3, <2>1, <2>2 DEF TypeOK
<1>5. /\ calls'[c].pc = "redirect"
      /\ \A d \in Calls : d # c => calls'[d] = calls[d]
  BY <1>2, SMT DEF TypeOK, Call
<1>6. CallsHold' /\ Linked'
  BY <1>2, <1>5, SMT DEF CallsHold, Linked, Callback
<1>7. ClaimedOnce'
  BY <1>1, <1>2, <1>3, <1>5, SMT DEF ClaimedOnce, Claiming, Callback, s
<1>8. codes'[s] = r /\ \A x \in States : x # s => codes'[x] = codes[x]
  BY <1>1, <1>2 DEF TypeOK
<1>9. Undrawn'
  BY <1>1, <1>2, <1>8 DEF Undrawn
<1>10. CookiesHold'
  BY <1>2, SMT DEF CookiesHold, TypeOK
<1>11. RequestsHold'
  BY <1>1, <1>2, <1>3, <1>8 DEF RequestsHold, Registered
<1>12. DeliveredToStarter'
  BY <1>1, <1>2, <1>3 DEF DeliveredToStarter
<1>13. CodesToRegisteredUris'
  BY <1>1, <1>2, <1>3, SMT DEF CodesToRegisteredUris, RequestsHold, Registered
<1>14. TokensToRequester'
  BY <1>2 DEF TokensToRequester
<1>15. OneSessionPerLogin' /\ SessionHasAccount'
  BY <1>2 DEF OneSessionPerLogin, SessionHasAccount
<1> QED  BY <1>4, <1>6, <1>7, <1>9, <1>10, <1>11, <1>12, <1>13, <1>14, <1>15

\* A callback that fails leaves what it has written, and no other takes its place.
LEMMA CallbackFailsKeeps ==
  ASSUME LoginInv, NEW c \in Calls, CallbackFails(c)
  PROVE  LoginInv'
<1> USE LoginAssumption, NullAssumption DEF LoginInv
<1>1. TypeOK'
  <2>1. calls' \in [Calls -> Call]
    BY MovesOn DEF CallbackFails, To, Replies
  <2>2. cookies' \in [Browsers -> States \cup {None}]
    BY DEF CallbackFails, ClearCookie, TypeOK
  <2> QED  BY <2>1, <2>2 DEF CallbackFails, registry, TypeOK
<1>2. CallsHold'
  BY SMT DEF CallbackFails, To, CallsHold
<1>3. CookiesHold'
  BY SMT DEF CallbackFails, ClearCookie, TypeOK, CookiesHold
<1>4. ClaimedOnce'
  BY SMT DEF CallbackFails, To, ClaimedOnce, Claiming, Granting
<1>5. Linked'
  BY SMT DEF CallbackFails, To, Linked
<1>6. Undrawn' /\ RequestsHold' /\ DeliveredToStarter' /\ CodesToRegisteredUris' /\
      TokensToRequester' /\ OneSessionPerLogin' /\ SessionHasAccount'
  BY DEF CallbackFails, registry, Undrawn, RequestsHold, Registered, DeliveredToStarter,
         CodesToRegisteredUris, TokensToRequester, OneSessionPerLogin, SessionHasAccount
<1> QED  BY <1>1, <1>2, <1>3, <1>4, <1>5, <1>6

\* A client is registered under a new id: no registered URI is lost.
LEMMA RegisterKeeps ==
  ASSUME LoginInv, NEW cl \in Clients, NEW uris \in SUBSET Uris, Register(cl, uris)
  PROVE  LoginInv'
<1> USE LoginAssumption, NullAssumption DEF LoginInv
<1>1. TypeOK'
  BY SMT DEF Register, TypeOK
<1>2. RequestsHold'
  BY SMT DEF Register, RequestsHold, Registered
<1>3. CodesToRegisteredUris'
  BY SMT DEF Register, TypeOK, CodesToRegisteredUris, DeliveredToStarter, RequestsHold, Registered
<1>4. CallsHold' /\ Undrawn' /\ CookiesHold' /\ ClaimedOnce' /\ Linked' /\
      DeliveredToStarter' /\ TokensToRequester' /\ OneSessionPerLogin' /\
      SessionHasAccount'
  BY DEF Register, CallsHold, Undrawn, CookiesHold, ClaimedOnce, Linked, DeliveredToStarter,
         TokensToRequester, OneSessionPerLogin, SessionHasAccount
<1> QED  BY <1>1, <1>2, <1>3, <1>4

\* A code is exchanged for its own request only.
LEMMA RedeemKeeps ==
  ASSUME LoginInv, NEW s \in States, NEW cl \in Clients, NEW uri \in Uris \cup {None},
         NEW verifier \in States \cup {None}, NEW ok \in BOOLEAN, Redeem(s, cl, uri, verifier, ok)
  PROVE  LoginInv'
<1> USE LoginAssumption, NullAssumption DEF LoginInv
<1>1. TypeOK'
  BY SMT DEF Redeem, TypeOK
<1>2. Undrawn'
  BY SMT DEF Redeem, Undrawn
<1>3. RequestsHold'
  BY SMT DEF Redeem, RequestsHold, Registered
<1>4. TokensToRequester'
  BY SMT DEF Redeem, Proof, TokensToRequester, RequestsHold
<1>5. CallsHold' /\ CookiesHold' /\ ClaimedOnce' /\ Linked' /\
      DeliveredToStarter' /\ CodesToRegisteredUris' /\ OneSessionPerLogin' /\
      SessionHasAccount'
  BY DEF Redeem, CallsHold, CookiesHold, ClaimedOnce, Linked, DeliveredToStarter,
         CodesToRegisteredUris, OneSessionPerLogin, SessionHasAccount
<1> QED  BY <1>1, <1>2, <1>3, <1>4, <1>5

\* A request that was answered holds nothing.
LEMMA FinishKeeps ==
  ASSUME LoginInv, NEW c \in Calls, Finish(c)
  PROVE  LoginInv'
<1> USE LoginAssumption, NullAssumption DEF LoginInv
<1>1. TypeOK'
  BY SMT DEF Finish, IdleCall, registry, TypeOK, Call
<1>2. CallsHold'
  BY SMT DEF Finish, IdleCall, Callback, CallsHold
<1>3. ClaimedOnce'
  BY SMT DEF Finish, IdleCall, TypeOK, ClaimedOnce, CallsHold, Claiming, Granting
<1>4. Linked'
  BY SMT DEF Finish, IdleCall, Linked
<1>5. Undrawn' /\ CookiesHold' /\ RequestsHold' /\ DeliveredToStarter' /\
      CodesToRegisteredUris' /\ TokensToRequester' /\ OneSessionPerLogin' /\
      SessionHasAccount'
  BY DEF Finish, registry, Undrawn, CookiesHold, RequestsHold, Registered, DeliveredToStarter,
         CodesToRegisteredUris, TokensToRequester, OneSessionPerLogin, SessionHasAccount
<1> QED  BY <1>1, <1>2, <1>3, <1>4, <1>5

\* The end of the process takes the callbacks along; the states they claimed are gone.
LEMMA DieKeeps ==
  ASSUME LoginInv, Die
  PROVE  LoginInv'
<1> USE LoginAssumption, NullAssumption DEF LoginInv
<1>1. TypeOK'
  BY SMT DEF Die, IdleCall, registry, TypeOK, Call
<1>2. CallsHold'
  BY SMT DEF Die, IdleCall, Callback, CallsHold
<1>3. ClaimedOnce'
  BY SMT DEF Die, IdleCall, ClaimedOnce, Callback, Claiming, Granting
<1>4. Linked'
  BY SMT DEF Die, IdleCall, Linked
<1>5. Undrawn' /\ CookiesHold' /\ RequestsHold' /\ DeliveredToStarter' /\
      CodesToRegisteredUris' /\ TokensToRequester' /\ OneSessionPerLogin' /\
      SessionHasAccount'
  BY DEF Die, registry, Undrawn, CookiesHold, RequestsHold, Registered, DeliveredToStarter,
         CodesToRegisteredUris, TokensToRequester, OneSessionPerLogin, SessionHasAccount
<1> QED  BY <1>1, <1>2, <1>3, <1>4, <1>5

\* An expired state is deleted: what was drawn stays drawn.
LEMMA SweepStatesKeeps ==
  ASSUME LoginInv, SweepStates
  PROVE  LoginInv'
<1> USE LoginAssumption, NullAssumption DEF LoginInv
<1>1. TypeOK'
  BY SMT DEF SweepStates, Swept, registry, TypeOK
<1>2. CallsHold'
  BY SMT DEF SweepStates, Swept, CallsHold
<1>3. Undrawn'
  BY SMT DEF SweepStates, Swept, registry, Undrawn
<1>4. ClaimedOnce'
  BY SMT DEF SweepStates, Swept, ClaimedOnce
<1>5. CookiesHold' /\ RequestsHold' /\ Linked' /\ DeliveredToStarter' /\
      CodesToRegisteredUris' /\ TokensToRequester' /\ OneSessionPerLogin' /\
      SessionHasAccount'
  BY DEF SweepStates, registry, CookiesHold, RequestsHold, Registered, Linked, DeliveredToStarter,
         CodesToRegisteredUris, TokensToRequester, OneSessionPerLogin, SessionHasAccount
<1> QED  BY <1>1, <1>2, <1>3, <1>4, <1>5

\* An expired request is deleted.
LEMMA SweepParkedKeeps ==
  ASSUME LoginInv, SweepParked
  PROVE  LoginInv'
<1> USE LoginAssumption, NullAssumption DEF LoginInv
<1>1. TypeOK'
  BY SMT DEF SweepParked, Swept, registry, TypeOK
<1>2. Undrawn'
  BY SMT DEF SweepParked, Swept, registry, Undrawn
<1>3. RequestsHold'
  BY SMT DEF SweepParked, Swept, registry, RequestsHold, Registered
<1>4. CallsHold' /\ CookiesHold' /\ ClaimedOnce' /\ Linked' /\
      DeliveredToStarter' /\ CodesToRegisteredUris' /\ TokensToRequester' /\
      OneSessionPerLogin' /\ SessionHasAccount'
  BY DEF SweepParked, registry, CallsHold, CookiesHold, ClaimedOnce, Linked, DeliveredToStarter,
         CodesToRegisteredUris, TokensToRequester, OneSessionPerLogin, SessionHasAccount
<1> QED  BY <1>1, <1>2, <1>3, <1>4

\* The clock changes no table.
LEMMA TickKeeps ==
  ASSUME LoginInv, Tick
  PROVE  LoginInv'
<1> USE LoginAssumption, NullAssumption DEF LoginInv
<1>1. TypeOK'
  BY SMT DEF Tick, registry, TypeOK
<1>2. CallsHold' /\ Undrawn' /\ CookiesHold' /\ RequestsHold' /\ ClaimedOnce' /\
      Linked' /\ DeliveredToStarter' /\ CodesToRegisteredUris' /\
      TokensToRequester' /\ OneSessionPerLogin' /\ SessionHasAccount'
  BY DEF Tick, registry, CallsHold, Undrawn, CookiesHold, RequestsHold, Registered, ClaimedOnce,
         Linked, DeliveredToStarter, CodesToRegisteredUris, TokensToRequester, OneSessionPerLogin,
         SessionHasAccount
<1> QED  BY <1>1, <1>2

-----------------------------------------------------------------------------
(* The invariant                                                           *)

\* At the start nothing was drawn.
LEMMA InitHolds ==
  ASSUME Init
  PROVE  LoginInv
<1> USE LoginAssumption, NullAssumption
<1>1. TypeOK
  BY SMT DEF Init, TypeOK, Call, IdleCall
<1>2. CallsHold /\ ClaimedOnce /\ Linked
  BY SMT DEF Init, IdleCall, Callback, Claiming, Granting, CallsHold, ClaimedOnce, Linked
<1>3. Undrawn /\ CookiesHold /\ RequestsHold
  BY SMT DEF Init, Undrawn, CookiesHold, RequestsHold
<1>4. /\ DeliveredToStarter /\ CodesToRegisteredUris /\ TokensToRequester
      /\ OneSessionPerLogin /\ SessionHasAccount
  BY SMT DEF Init, DeliveredToStarter, CodesToRegisteredUris, TokensToRequester,
             OneSessionPerLogin, SessionHasAccount
<1> QED  BY <1>1, <1>2, <1>3, <1>4 DEF LoginInv

LEMMA StepKeeps ==
  ASSUME LoginInv, [Next]_vars
  PROVE  LoginInv'
<1>1. ASSUME NEW c \in Calls, NEW b \in Browsers, NEW s \in States,
             Arrive(c, b, s) \/ SaveState(c, b, s, None)
      PROVE  LoginInv'
  BY <1>1, ArriveKeeps, SaveStateKeeps
<1>2. ASSUME NEW c \in Calls, NEW b \in Browsers, NEW s \in States,
             NEW cl \in Clients, NEW uri \in Uris, Authorize(c, b, s, cl, uri)
      PROVE  LoginInv'
  <2>1. [client |-> cl, redirectUri |-> uri, codeChallenge |-> s] \in Request
    BY DEF Request
  <2> QED  BY <1>2, <2>1, SaveStateKeeps DEF Authorize
<1>3. ASSUME NEW c \in Calls,
             \/ Park(c) \/ ParkFails(c)
             \/ Exchange(c) \/ UpsertUser(c) \/ UpsertAccount(c) \/ IssueSession(c)
             \/ \E ok \in BOOLEAN : Unpark(c, ok)
             \/ IssueCode(c) \/ CallbackFails(c) \/ Finish(c)
      PROVE  LoginInv'
  BY <1>3, ParkKeeps, ParkFailsKeeps, ExchangeKeeps, UpsertUserKeeps, UpsertAccountKeeps,
     IssueSessionKeeps, UnparkKeeps, IssueCodeKeeps, CallbackFailsKeeps, FinishKeeps
<1>4. ASSUME NEW s \in States, NEW u \in Users, Approve(s, u)
      PROVE  LoginInv'
  BY <1>4, ApproveKeeps
<1>5. ASSUME NEW cl \in Clients, NEW uris \in SUBSET Uris, Register(cl, uris)
      PROVE  LoginInv'
  BY <1>5, RegisterKeeps
<1>6. ASSUME NEW s \in States, NEW cl \in Clients, NEW uri \in Uris \cup {None},
             NEW verifier \in States \cup {None}, NEW ok \in BOOLEAN, Redeem(s, cl, uri, verifier, ok)
      PROVE  LoginInv'
  BY <1>6, RedeemKeeps
<1>7. ASSUME Die \/ SweepStates \/ SweepParked \/ Tick
      PROVE  LoginInv'
  BY <1>7, DieKeeps, SweepStatesKeeps, SweepParkedKeeps, TickKeeps
<1>8. CASE UNCHANGED vars
  BY <1>8 DEF vars, LoginInv, TypeOK, CallsHold, Undrawn, CookiesHold, RequestsHold, Registered,
              ClaimedOnce, Linked, DeliveredToStarter, CodesToRegisteredUris, TokensToRequester,
              OneSessionPerLogin, SessionHasAccount
<1> QED  BY <1>1, <1>2, <1>3, <1>4, <1>5, <1>6, <1>7, <1>8 DEF Next

\* However many browsers, logins, failures and sweeps there are.
THEOREM LoginInvariance == Spec => []LoginInv
<1>1. Init => LoginInv
  BY InitHolds
<1>2. LoginInv /\ [Next]_vars => LoginInv'
  BY StepKeeps
<1> QED  BY <1>1, <1>2, PTL DEF Spec

\* The tables, cookies and handlers have their types.
THEOREM LoginTypes == Spec => []TypeOK
<1>1. LoginInv => TypeOK
  BY DEF LoginInv
<1> QED  BY <1>1, LoginInvariance, PTL

\* A result goes to the browser, and a code to the client, that began the login.
THEOREM ToStarter == Spec => []DeliveredToStarter
<1>1. LoginInv => DeliveredToStarter
  BY DEF LoginInv
<1> QED  BY <1>1, LoginInvariance, PTL

\* A code goes to a URI its client registered.
THEOREM ToRegistered == Spec => []CodesToRegisteredUris
<1>1. LoginInv => CodesToRegisteredUris
  BY DEF LoginInv
<1> QED  BY <1>1, LoginInvariance, PTL

\* Tokens go to the client that began the login, with its own verifier.
THEOREM ToRequester == Spec => []TokensToRequester
<1>1. LoginInv => TokensToRequester
  BY DEF LoginInv
<1> QED  BY <1>1, LoginInvariance, PTL

\* A login yields at most one session.
THEOREM OneSession == Spec => []OneSessionPerLogin
<1>1. LoginInv => OneSessionPerLogin
  BY DEF LoginInv
<1> QED  BY <1>1, LoginInvariance, PTL

\* A session has a linked account.
THEOREM AccountLinked == Spec => []SessionHasAccount
<1>1. LoginInv => SessionHasAccount
  BY DEF LoginInv
<1> QED  BY <1>1, LoginInvariance, PTL

-----------------------------------------------------------------------------
(* Who takes a state, or a parked request                                  *)

\* The steps that touch neither table.
Elsewhere ==
  \/ \E c \in Calls :
       \/ ParkFails(c) \/ Exchange(c) \/ UpsertUser(c) \/ UpsertAccount(c) \/ IssueSession(c)
       \/ IssueCode(c) \/ CallbackFails(c) \/ Finish(c)
  \/ \E s \in States, u \in Users : Approve(s, u)
  \/ \E cl \in Clients, uris \in SUBSET Uris : Register(cl, uris)
  \/ \E s \in States, cl \in Clients, uri \in Uris \cup {None},
        verifier \in States \cup {None}, ok \in BOOLEAN : Redeem(s, cl, uri, verifier, ok)
  \/ Die \/ Tick \/ UNCHANGED vars

LEMMA ElsewhereKeeps ==
  ASSUME Elsewhere
  PROVE  UNCHANGED <<states, parked>>
BY DEF Elsewhere, ParkFails, Exchange, UpsertUser, UpsertAccount, IssueSession, IssueCode,
       CallbackFails, Finish, Approve, Register, Redeem, Die, Tick, vars

LEMMA StepsSplit ==
  ASSUME [Next]_vars
  PROVE  \/ Elsewhere
         \/ \E c \in Calls, b \in Browsers, s \in States :
              Arrive(c, b, s) \/ \E request \in Request \cup {None} : SaveState(c, b, s, request)
         \/ \E c \in Calls : Park(c) \/ \E ok \in BOOLEAN : Unpark(c, ok)
         \/ SweepStates \/ SweepParked
<1>1. ASSUME NEW c \in Calls, NEW b \in Browsers, NEW s \in States,
             NEW cl \in Clients, NEW uri \in Uris, Authorize(c, b, s, cl, uri)
      PROVE  \E request \in Request \cup {None} : SaveState(c, b, s, request)
  <2>1. [client |-> cl, redirectUri |-> uri, codeChallenge |-> s] \in Request
    BY DEF Request
  <2> QED  BY <1>1, <2>1 DEF Authorize
<1> QED  BY <1>1 DEF Next, Elsewhere

\* A valid state is taken by the callback of its starter alone.
LEMMA StateTaken ==
  ASSUME LoginInv, [Next]_vars, NEW s \in States, ValidState(s), states'[s] = Deleted
  PROVE  \E c \in Calls : /\ calls[c].pc = "idle" /\ calls'[c].pc = "exchange"
                          /\ calls'[c].state = s /\ calls'[c].browser = startedBy[s]
<1> USE LoginAssumption, NullAssumption DEF LoginInv
<1>1. states[s] \in Nat /\ states[s] > now /\ states[s] # Deleted
  BY SMT DEF ValidState, TypeOK
<1>2. CASE Elsewhere
  BY <1>1, <1>2, ElsewhereKeeps
<1>3. ASSUME NEW c \in Calls, NEW b \in Browsers, NEW x \in States, Arrive(c, b, x)
      PROVE  /\ calls[c].pc = "idle" /\ calls'[c].pc = "exchange"
             /\ calls'[c].state = s /\ calls'[c].browser = startedBy[s]
  <2>1. CookieMatches(b, x) /\ x = s
    BY <1>1, <1>3, SMT DEF Arrive, TakeState, Take
  <2>2. startedBy[s] = b
    BY <2>1 DEF CookieMatches, CookiesHold
  <2>3. calls' = [calls EXCEPT ![c] = [pc |-> "exchange", browser |-> b, state |-> s, request |-> None]]
    BY <1>3, <2>1 DEF Arrive
  <2> QED  BY <1>3, <2>2, <2>3, SMT DEF Arrive, TypeOK
<1>4. ASSUME NEW c \in Calls, NEW b \in Browsers, NEW x \in States,
             NEW request \in Request \cup {None}, SaveState(c, b, x, request)
      PROVE  FALSE
  <2>1. x # s
    BY <1>1, <1>4 DEF SaveState
  <2> QED  BY <1>1, <1>4, <2>1, SMT DEF SaveState, TypeOK
<1>5. ASSUME NEW c \in Calls, Park(c) \/ \E ok \in BOOLEAN : Unpark(c, ok)
      PROVE  FALSE
  BY <1>1, <1>5 DEF Park, Unpark
<1>6. CASE SweepStates
  BY <1>1, <1>6, SMT DEF SweepStates, Swept, Cutoff, TypeOK
<1>7. CASE SweepParked
  BY <1>1, <1>7 DEF SweepParked
<1> QED  BY <1>2, <1>3, <1>4, <1>5, <1>6, <1>7, StepsSplit

\* A valid parked request is taken by the callback of its starter alone.
LEMMA ParkedTaken ==
  ASSUME LoginInv, [Next]_vars, NEW s \in States, ValidParked(s), parked'[s] = Deleted
  PROVE  \E c \in Calls : /\ calls[c].pc = "unpark" /\ calls'[c].pc = "issueCode"
                          /\ calls[c].state = s /\ calls[c].browser = startedBy[s]
<1> USE LoginAssumption, NullAssumption DEF LoginInv
<1>1. /\ parked[s] \in [request : Request, expiresAt : Nat]
      /\ parked[s] \notin {None, Deleted} /\ parked[s].expiresAt > now
  BY DEF ValidParked, TypeOK
<1>2. CASE Elsewhere
  BY <1>1, <1>2, ElsewhereKeeps
<1>3. ASSUME NEW c \in Calls, NEW b \in Browsers, NEW x \in States,
             Arrive(c, b, x) \/ \E request \in Request \cup {None} : SaveState(c, b, x, request)
      PROVE  FALSE
  BY <1>1, <1>3 DEF Arrive, SaveState
<1>4. ASSUME NEW c \in Calls, Park(c)
      PROVE  FALSE
  <2>1. [request |-> calls[c].request, expiresAt |-> now + TTL] \in [request : Request, expiresAt : Nat]
    BY <1>4, SMT DEF Park, TypeOK, CallsHold
  <2>2. parked'[s] = parked[s] \/ parked'[s] = [request |-> calls[c].request, expiresAt |-> now + TTL]
    BY <1>4 DEF Park, TypeOK
  <2> QED  BY <1>1, <2>1, <2>2
<1>5. ASSUME NEW c \in Calls, NEW ok \in BOOLEAN, Unpark(c, ok)
      PROVE  /\ calls[c].pc = "unpark" /\ calls'[c].pc = "issueCode"
             /\ calls[c].state = s /\ calls[c].browser = startedBy[s]
  <2>1. ok /\ calls[c].state = s
    BY <1>1, <1>5, SMT DEF Unpark, Take, TypeOK
  <2>2. calls' = [calls EXCEPT ![c].pc = "issueCode", ![c].request = parked[s].request]
    BY <1>5, <2>1 DEF Unpark
  <2>3. calls'[c].pc = "issueCode"
    BY <2>2, SMT DEF TypeOK, Call
  <2> QED  BY <1>5, <2>1, <2>3, SMT DEF Unpark, CallsHold, Callback
<1>6. CASE SweepStates
  BY <1>1, <1>6 DEF SweepStates
<1>7. CASE SweepParked
  BY <1>1, <1>7, SMT DEF SweepParked, Swept, Cutoff, TypeOK
<1> QED  BY <1>2, <1>3, <1>4, <1>5, <1>6, <1>7, StepsSplit

\* Neither the sweep nor a callback opened elsewhere spoils a login.
THEOREM StarterClaims == Spec => OnlyStarterClaims
<1>1. LoginInv /\ [Next]_vars =>
        [\A s \in States :
           /\ ValidState(s) /\ states'[s] = Deleted =>
                \E c \in Calls : /\ calls[c].pc = "idle" /\ calls'[c].pc = "exchange"
                                 /\ calls'[c].state = s /\ calls'[c].browser = startedBy[s]
           /\ ValidParked(s) /\ parked'[s] = Deleted =>
                \E c \in Calls : /\ calls[c].pc = "unpark" /\ calls'[c].pc = "issueCode"
                                 /\ calls[c].state = s /\ calls[c].browser = startedBy[s]]_vars
  BY StateTaken, ParkedTaken
<1> QED  BY <1>1, LoginInvariance, PTL DEF Spec, OnlyStarterClaims

-----------------------------------------------------------------------------
(* The flow implements the promise                                         *)

WasExchanged(s) == \E x \in exchanged : x.state = s
WasDelivered(s) == \E d \in delivered : d.state = s

Owned(s) == UNCHANGED <<startedBy[s], sessionsOf[s], HandedTo(s)>>

\* What a step may do to the login of s.
Promised(s) ==
  \/ Owned(s) /\ UNCHANGED Phase(s)
  \/ Owned(s) /\ <<Phase(s), Phase(s)'>> \in
       {<<"begun", "claimed">>, <<"begun", "ended">>, <<"claimed", "ended">>,
        <<"granted", "ended">>, <<"delivered", "exchanged">>}
  \/ /\ Phase(s) = "none" /\ Phase(s)' = "begun"
     /\ startedBy'[s] \in Browsers
     /\ UNCHANGED <<sessionsOf[s], HandedTo(s)>>
  \/ /\ Phase(s) = "claimed" /\ Phase(s)' = "granted"
     /\ sessionsOf'[s] = 1
     /\ UNCHANGED <<startedBy[s], HandedTo(s)>>
  \/ /\ Phase(s) = "granted" /\ Phase(s)' = "delivered"
     /\ HandedTo(s)' = {startedBy[s]}
     /\ UNCHANGED <<startedBy[s], sessionsOf[s]>>

\* How far a login is says what there is of it.
LEMMA PhaseFacts ==
  ASSUME LoginInv, NEW s \in States
  PROVE  /\ WasExchanged(s) => WasDelivered(s)
         /\ WasDelivered(s) =>
              /\ startedBy[s] # None /\ states[s] = Deleted /\ sessionsOf[s] = 1
              /\ HandedTo(s) = {startedBy[s]}
              /\ ~Serving(s, Granting) /\ ~Serving(s, Claiming)
         /\ ~WasDelivered(s) => HandedTo(s) = {}
         /\ Serving(s, Granting) => ~Serving(s, Claiming) /\ sessionsOf[s] = 1
         /\ Serving(s, Claiming) => sessionsOf[s] = 0
         /\ Serving(s, Granting) \/ Serving(s, Claiming) =>
              startedBy[s] # None /\ states[s] = Deleted
         /\ startedBy[s] = None <=> states[s] = None
         /\ startedBy[s] = None => sessionsOf[s] = 0
<1> USE LoginAssumption, NullAssumption DEF LoginInv
<1>1. WasExchanged(s) => WasDelivered(s)
  BY SMT DEF WasExchanged, WasDelivered, TokensToRequester
<1>2. ASSUME WasDelivered(s)
      PROVE  /\ startedBy[s] # None /\ states[s] = Deleted /\ sessionsOf[s] = 1
             /\ HandedTo(s) = {startedBy[s]}
             /\ ~Serving(s, Granting) /\ ~Serving(s, Claiming)
  <2>1. PICK d \in delivered : d.state = s
    BY <1>2 DEF WasDelivered
  <2>2. startedBy[s] = d.browser /\ d.browser \in Browsers
    BY <2>1, SMT DEF DeliveredToStarter, TypeOK
  <2>3. HandedTo(s) = {startedBy[s]}
    BY <2>1, <2>2 DEF HandedTo, DeliveredToStarter
  <2>4. sessionsOf[s] = 1 /\ states[s] = Deleted
    BY <2>1, SMT DEF ClaimedOnce
  <2>5. \A c \in Calls : calls[c].pc \in Callback => calls[c].state # s
    BY <2>1, SMT DEF ClaimedOnce
  <2> QED  BY <2>2, <2>3, <2>4, <2>5 DEF Serving, Claiming, Granting, Callback
<1>3. ~WasDelivered(s) => HandedTo(s) = {}
  BY DEF WasDelivered, HandedTo
<1>4. /\ Serving(s, Granting) => ~Serving(s, Claiming) /\ sessionsOf[s] = 1
      /\ Serving(s, Claiming) => sessionsOf[s] = 0
      /\ Serving(s, Granting) \/ Serving(s, Claiming) => states[s] = Deleted
  BY SMT DEF Serving, Claiming, Callback, ClaimedOnce, CallsHold
<1>5. /\ startedBy[s] = None <=> states[s] = None
      /\ startedBy[s] = None => sessionsOf[s] = 0
  BY DEF Undrawn
<1>6. None # Deleted
  OBVIOUS
<1> QED  BY <1>1, <1>2, <1>3, <1>4, <1>5, <1>6

\* A step that changes nothing of a login.
LEMMA LoginFrame ==
  ASSUME NEW s \in States, UNCHANGED <<startedBy, sessionsOf, exchanged, delivered>>,
         states'[s] = Deleted <=> states[s] = Deleted,
         Serving(s, Granting)' <=> Serving(s, Granting),
         Serving(s, Claiming)' <=> Serving(s, Claiming)
  PROVE  Promised(s)
BY DEF Promised, Owned, Phase, HandedTo

\* A step of one call that goes from one set of program counters to another.
LEMMA ServingFrame ==
  ASSUME TypeOK, NEW c \in Calls, NEW s \in States, NEW pcs,
         calls'[c].pc \in pcs /\ calls'[c].state = s <=> calls[c].pc \in pcs /\ calls[c].state = s,
         \A d \in Calls : d # c => calls'[d] = calls[d]
  PROVE  Serving(s, pcs)' <=> Serving(s, pcs)
BY DEF Serving

\* A step of call c that leaves its state, and moves it within Claiming, Granting or
\* the rest, changes no login.
LEMMA CallStep ==
  ASSUME LoginInv, NEW c \in Calls, NEW s \in States,
         UNCHANGED <<startedBy, sessionsOf, exchanged, delivered, states>>,
         \A d \in Calls : d # c => calls'[d] = calls[d],
         \/ calls'[c].pc \notin Claiming \cup Granting /\ calls[c].pc \notin Claiming \cup Granting
         \/ /\ calls'[c].state = calls[c].state
            /\ calls'[c].pc \in Claiming <=> calls[c].pc \in Claiming
            /\ calls'[c].pc \in Granting <=> calls[c].pc \in Granting
  PROVE  Promised(s)
<1>1. Serving(s, Granting)' <=> Serving(s, Granting)
  BY ServingFrame DEF LoginInv
<1>2. Serving(s, Claiming)' <=> Serving(s, Claiming)
  BY ServingFrame DEF LoginInv
<1> QED  BY <1>1, <1>2, LoginFrame

LEMMA QuietPromised ==
  ASSUME LoginInv, NEW s \in States, NEW c \in Calls,
         \/ Park(c) \/ ParkFails(c) \/ Exchange(c) \/ UpsertUser(c) \/ UpsertAccount(c) \/ Finish(c)
  PROVE  Promised(s)
<1>1. UNCHANGED <<startedBy, sessionsOf, exchanged, delivered, states>>
  BY DEF Park, ParkFails, Exchange, UpsertUser, UpsertAccount, Finish, registry
<1>2. \A d \in Calls : d # c => calls'[d] = calls[d]
  BY DEF LoginInv, TypeOK, Park, ParkFails, Exchange, UpsertUser, UpsertAccount, Finish, To
<1>3. CASE Park(c) \/ ParkFails(c) \/ Finish(c)
  <2>1. calls'[c].pc \notin Claiming \cup Granting /\ calls[c].pc \notin Claiming \cup Granting
    BY <1>3, SMT DEF LoginInv, TypeOK, Call, Park, ParkFails, Finish, To, IdleCall, Replies,
                     Claiming, Granting
  <2> QED  BY <1>1, <1>2, <2>1, CallStep
<1>4. CASE Exchange(c) \/ UpsertUser(c) \/ UpsertAccount(c)
  <2>1. /\ calls'[c].state = calls[c].state
        /\ calls'[c].pc \in Claiming /\ calls[c].pc \in Claiming
        /\ calls'[c].pc \notin Granting /\ calls[c].pc \notin Granting
    BY <1>4, SMT DEF LoginInv, TypeOK, Call, Exchange, UpsertUser, UpsertAccount, To, Claiming,
                     Granting
  <2> QED  BY <1>1, <1>2, <2>1, CallStep
<1> QED  BY <1>3, <1>4

LEMMA OthersPromised ==
  ASSUME NEW s \in States,
         \/ \E x \in States, u \in Users : Approve(x, u)
         \/ \E cl \in Clients, uris \in SUBSET Uris : Register(cl, uris)
         \/ SweepParked \/ Tick \/ UNCHANGED vars
  PROVE  Promised(s)
<1>1. UNCHANGED <<startedBy, sessionsOf, exchanged, delivered, states, calls>>
  BY DEF Approve, Register, SweepParked, Tick, vars, registry
<1> QED  BY <1>1, LoginFrame DEF Serving

\* A login begins when its state is drawn.
LEMMA SaveStatePromised ==
  ASSUME LoginInv, NEW s \in States, NEW c \in Calls, NEW b \in Browsers, NEW x \in States,
         NEW request \in Request \cup {None}, SaveState(c, b, x, request)
  PROVE  Promised(s)
<1> USE LoginAssumption, NullAssumption DEF LoginInv
<1>1. /\ UNCHANGED <<sessionsOf, exchanged, delivered>>
      /\ states[x] = None
      /\ startedBy' = [startedBy EXCEPT ![x] = b] /\ states' = [states EXCEPT ![x] = now + TTL]
  BY DEF SaveState, registry
<1>2. /\ \A d \in Calls : d # c => calls'[d] = calls[d]
      /\ calls[c].pc \notin Claiming \cup Granting /\ calls'[c].pc \notin Claiming \cup Granting
  BY SMT DEF SaveState, Claiming, Granting
<1>3. /\ Serving(s, Granting)' <=> Serving(s, Granting)
      /\ Serving(s, Claiming)' <=> Serving(s, Claiming)
  BY <1>2, ServingFrame
<1>4. HandedTo(s)' = HandedTo(s) /\ (WasDelivered(s)' <=> WasDelivered(s))
      /\ (WasExchanged(s)' <=> WasExchanged(s))
  BY <1>1 DEF HandedTo, WasDelivered, WasExchanged
<1>5. CASE s = x
  <2>1. startedBy[s] = None /\ ~WasDelivered(s) /\ ~WasExchanged(s)
        /\ ~Serving(s, Granting) /\ ~Serving(s, Claiming)
    BY <1>1, <1>5, PhaseFacts
  <2>2. now + TTL \in Nat
    BY SMT DEF TypeOK
  <2>5. now + TTL # Deleted
    BY <2>2
  <2>3. startedBy'[s] = b /\ b # None /\ states'[s] # Deleted
    BY <1>1, <1>5, <2>5 DEF TypeOK
  <2>4. Phase(s) = "none" /\ Phase(s)' = "begun"
    BY <1>3, <1>4, <2>1, <2>3 DEF Phase, WasDelivered, WasExchanged
  <2> QED  BY <1>1, <1>4, <2>3, <2>4 DEF Promised
<1>6. CASE s # x
  <2>1. startedBy'[s] = startedBy[s] /\ states'[s] = states[s]
    BY <1>1, <1>6 DEF TypeOK
  <2> QED  BY <1>1, <1>3, <1>4, <2>1 DEF Promised, Owned, Phase
<1> QED  BY <1>5, <1>6

\* What is true of the handlers of s after a step of call c alone.
LEMMA ServingStep ==
  ASSUME NEW c \in Calls, NEW s \in States, NEW pcs,
         \A d \in Calls : d # c => calls'[d] = calls[d]
  PROVE  /\ calls'[c].pc \in pcs /\ calls'[c].state = s => Serving(s, pcs)'
         /\ Serving(s, pcs)' /\ ~(calls'[c].pc \in pcs /\ calls'[c].state = s) =>
              \E d \in Calls : d # c /\ calls[d].pc \in pcs /\ calls[d].state = s
BY DEF Serving

\* A handler of s that leaves its callback leaves none behind.
LEMMA LeavingAlone ==
  ASSUME LoginInv, NEW c \in Calls, NEW s \in States, s = calls[c].state, calls[c].pc \in Callback,
         calls'[c].pc \notin Claiming \cup Granting,
         \A d \in Calls : d # c => calls'[d] = calls[d]
  PROVE  ~Serving(s, Claiming)' /\ ~Serving(s, Granting)'
<1>1. \A d \in Calls : calls[d].pc \in Callback /\ calls[d].state = s => d = c
  BY DEF LoginInv, ClaimedOnce
<1>2. \A d \in Calls : ~(calls'[d].pc \in Claiming \cup Granting /\ calls'[d].state = s)
  BY <1>1 DEF Claiming, Granting, Callback
<1> QED  BY <1>2 DEF Serving

\* An unclaimed state that is gone ends its login.
LEMMA Spoilt ==
  ASSUME LoginInv, NEW s \in States, states[s] \notin {None, Deleted}, states'[s] = Deleted,
         UNCHANGED <<startedBy, sessionsOf, exchanged, delivered>>,
         Serving(s, Granting)' <=> Serving(s, Granting),
         Serving(s, Claiming)' <=> Serving(s, Claiming)
  PROVE  Promised(s)
<1>1. startedBy[s] # None /\ ~WasDelivered(s) /\ ~WasExchanged(s)
      /\ ~Serving(s, Granting) /\ ~Serving(s, Claiming)
  BY PhaseFacts
<1>2. Phase(s) = "begun" /\ Phase(s)' = "ended"
  BY <1>1 DEF Phase, WasDelivered, WasExchanged
<1> QED  BY <1>2 DEF Promised, Owned, HandedTo

LEMMA SweepStatesPromised ==
  ASSUME LoginInv, NEW s \in States, SweepStates
  PROVE  Promised(s)
<1>1. UNCHANGED <<startedBy, sessionsOf, exchanged, delivered, calls>>
  BY DEF SweepStates, registry
<1>2. \/ states'[s] = states[s]
      \/ states[s] \notin {None, Deleted} /\ states'[s] = Deleted
  BY DEF SweepStates, Swept
<1>3. CASE states'[s] = states[s]
  BY <1>1, <1>3, LoginFrame DEF Serving
<1>4. CASE states[s] \notin {None, Deleted} /\ states'[s] = Deleted
  BY <1>1, <1>4, Spoilt DEF Serving
<1> QED  BY <1>2, <1>3, <1>4

\* A callback claims its login, or finds it gone, or takes it too late.
LEMMA ArrivePromised ==
  ASSUME LoginInv, NEW s \in States, NEW c \in Calls, NEW b \in Browsers, NEW x \in States,
         Arrive(c, b, x)
  PROVE  Promised(s)
<1> USE NullAssumption DEF LoginInv
<1> DEFINE taken == CookieMatches(b, x)
           ok == taken /\ ValidState(x)
<1>1. /\ UNCHANGED <<startedBy, sessionsOf, exchanged, delivered>>
      /\ states' = IF taken THEN TakeState(states, x) ELSE states
      /\ calls' = [calls EXCEPT ![c] = [pc |-> IF ok THEN "exchange" ELSE "bad",
                                        browser |-> b, state |-> x, request |-> None]]
      /\ calls[c].pc = "idle"
  BY DEF Arrive, registry
<1>2. /\ \A d \in Calls : d # c => calls'[d] = calls[d]
      /\ calls'[c].pc = IF ok THEN "exchange" ELSE "bad"
      /\ calls'[c].state = x
  BY <1>1 DEF TypeOK
<1>3. /\ calls[c].pc \notin Claiming \cup Granting
      /\ calls'[c].pc \notin Granting
      /\ calls'[c].pc \in Claiming <=> ok
  BY <1>1, <1>2 DEF Claiming, Granting
<1>4. Serving(s, Granting)' <=> Serving(s, Granting)
  BY <1>2, <1>3, ServingFrame
<1>5. ASSUME s # x \/ ~ok
      PROVE  Serving(s, Claiming)' <=> Serving(s, Claiming)
  BY <1>2, <1>3, <1>5, ServingFrame
<1>6. CASE s # x
  <2>1. states'[s] = states[s]
    BY <1>1, <1>6 DEF TakeState, Take, TypeOK
  <2> QED  BY <1>1, <1>4, <1>5, <1>6, <2>1, LoginFrame
<1>7. CASE s = x /\ ok
  <2>1. states[s] \notin {None, Deleted}
    BY <1>7 DEF ValidState
  <2>2. startedBy[s] # None /\ ~WasDelivered(s) /\ ~WasExchanged(s)
        /\ ~Serving(s, Granting) /\ ~Serving(s, Claiming)
    BY <2>1, PhaseFacts
  <2>3. Serving(s, Claiming)'
    BY <1>2, <1>3, <1>7, ServingStep
  <2>4. Phase(s) = "begun" /\ Phase(s)' = "claimed"
    BY <1>1, <1>4, <2>1, <2>2, <2>3 DEF Phase, WasDelivered, WasExchanged
  <2> QED  BY <1>1, <2>4 DEF Promised, Owned, HandedTo
<1>8. CASE s = x /\ ~ok
  <2>1. \/ states'[s] = states[s]
        \/ states[s] \notin {None, Deleted} /\ states'[s] = Deleted
    BY <1>1, <1>8 DEF TakeState, Take, TypeOK
  <2>2. CASE states'[s] = states[s]
    BY <1>1, <1>4, <1>5, <1>8, <2>2, LoginFrame
  <2>3. CASE states[s] \notin {None, Deleted} /\ states'[s] = Deleted
    BY <1>1, <1>4, <1>5, <1>8, <2>3, Spoilt
  <2> QED  BY <2>1, <2>2, <2>3
<1> QED  BY <1>6, <1>7, <1>8

\* The claimed login is granted its session.
LEMMA IssueSessionPromised ==
  ASSUME LoginInv, NEW s \in States, NEW c \in Calls, IssueSession(c)
  PROVE  Promised(s)
<1> USE DEF LoginInv
<1> DEFINE x == calls[c].state
<1>1. /\ UNCHANGED <<startedBy, exchanged, delivered, states>>
      /\ sessionsOf' = [sessionsOf EXCEPT ![x] = @ + 1]
      /\ calls[c].pc = "issueSession"
      /\ calls' = [calls EXCEPT ![c].pc = "unpark"]
  BY DEF IssueSession, registry, To
<1>2. /\ \A d \in Calls : d # c => calls'[d] = calls[d]
      /\ calls'[c].pc = "unpark" /\ calls'[c].state = x
  BY <1>1 DEF TypeOK, Call
<1>3. HandedTo(s)' = HandedTo(s) /\ (WasDelivered(s)' <=> WasDelivered(s))
      /\ (WasExchanged(s)' <=> WasExchanged(s))
  BY <1>1 DEF HandedTo, WasDelivered, WasExchanged
<1>4. CASE s # x
  <2>1. sessionsOf'[s] = sessionsOf[s]
    BY <1>1, <1>4 DEF TypeOK
  <2>2. /\ Serving(s, Granting)' <=> Serving(s, Granting)
        /\ Serving(s, Claiming)' <=> Serving(s, Claiming)
    BY <1>2, <1>4, ServingFrame
  <2> QED  BY <1>1, <1>3, <2>1, <2>2 DEF Promised, Owned, Phase
<1>5. CASE s = x
  <2>1. Serving(s, Claiming)
    BY <1>1, <1>5 DEF Serving, Claiming
  <2>2. startedBy[s] # None /\ ~WasDelivered(s) /\ ~WasExchanged(s) /\ ~Serving(s, Granting)
    BY <2>1, PhaseFacts
  <2>3. sessionsOf[s] = 0
    BY <2>1, PhaseFacts
  <2>4. sessionsOf'[s] = 1
    BY <1>1, <1>5, <2>3 DEF TypeOK
  <2>5. Serving(s, Granting)'
    BY <1>2, <1>5, ServingStep DEF Granting
  <2>6. Phase(s) = "claimed" /\ Phase(s)' = "granted"
    BY <1>1, <1>3, <2>1, <2>2, <2>5 DEF Phase, WasDelivered, WasExchanged
  <2> QED  BY <1>1, <1>3, <2>4, <2>6 DEF Promised
<1> QED  BY <1>4, <1>5

\* A granted login is delivered, with a page or with a code, to who began it.
LEMMA DeliverPromised ==
  ASSUME LoginInv, NEW s \in States, NEW c \in Calls, NEW request,
         calls[c].pc \in Granting, Deliver(c, request), calls'[c].pc \notin Claiming \cup Granting,
         \A d \in Calls : d # c => calls'[d] = calls[d],
         UNCHANGED <<startedBy, sessionsOf, exchanged, states>>
  PROVE  Promised(s)
<1> USE DEF LoginInv
<1> DEFINE x == calls[c].state
           e == [browser |-> calls[c].browser, state |-> x, user |-> approved[x], request |-> request]
<1>1. delivered' = delivered \cup {e} /\ e.state = x /\ e.browser = calls[c].browser
  BY DEF Deliver
<1>2. WasExchanged(s)' <=> WasExchanged(s)
  BY DEF WasExchanged
<1>3. CASE s # x
  <2>1. HandedTo(s)' = HandedTo(s) /\ (WasDelivered(s)' <=> WasDelivered(s))
    BY <1>1, <1>3 DEF HandedTo, WasDelivered
  <2>2. /\ Serving(s, Granting)' <=> Serving(s, Granting)
        /\ Serving(s, Claiming)' <=> Serving(s, Claiming)
    <3>1. calls[c].state # s
      BY <1>3
    <3> QED  BY <3>1, ServingFrame
  <2> QED  BY <1>2, <2>1, <2>2 DEF Promised, Owned, Phase, WasDelivered
<1>4. CASE s = x
  <2>1. Serving(s, Granting)
    BY <1>4 DEF Serving
  <2>2. startedBy[s] # None /\ ~WasDelivered(s) /\ ~WasExchanged(s) /\ HandedTo(s) = {}
    BY <2>1, PhaseFacts
  <2>3. startedBy[s] = calls[c].browser
    BY <1>4 DEF CallsHold, Granting, Callback
  <2>4. WasDelivered(s)' /\ HandedTo(s)' = {startedBy[s]}
    <3>1. \A d \in delivered : d.state # s
      BY <2>2 DEF WasDelivered
    <3>2. {d \in delivered' : d.state = s} = {e}
      BY <1>1, <1>4, <3>1
    <3>3. HandedTo(s)' = {d.browser : d \in {e}}
      BY <3>2 DEF HandedTo
    <3>4. WasDelivered(s)'
      BY <1>1, <1>4 DEF WasDelivered
    <3> QED  BY <1>1, <2>3, <3>3, <3>4
  <2>5. Phase(s) = "granted" /\ Phase(s)' = "delivered"
    BY <1>2, <2>1, <2>2, <2>4 DEF Phase, WasDelivered, WasExchanged
  <2> QED  BY <2>4, <2>5 DEF Promised
<1> QED  BY <1>3, <1>4

LEMMA UnparkPromised ==
  ASSUME LoginInv, NEW s \in States, NEW c \in Calls, NEW ok \in BOOLEAN, Unpark(c, ok)
  PROVE  Promised(s)
<1> USE DEF LoginInv
<1>1. /\ calls[c].pc = "unpark"
      /\ UNCHANGED <<startedBy, sessionsOf, exchanged, states>>
  BY DEF Unpark, registry
<1>2. CASE ok /\ ValidParked(calls[c].state)
  <2>1. /\ calls' = [calls EXCEPT ![c].pc = "issueCode", ![c].request = parked[calls[c].state].request]
        /\ UNCHANGED delivered
    BY <1>2 DEF Unpark
  <2>2. \A d \in Calls : d # c => calls'[d] = calls[d]
    BY <2>1 DEF TypeOK
  <2>3. calls'[c].pc = "issueCode" /\ calls'[c].state = calls[c].state
    BY <2>1 DEF TypeOK, Call
  <2>4. /\ calls'[c].pc \in Granting /\ calls[c].pc \in Granting
        /\ calls'[c].pc \notin Claiming /\ calls[c].pc \notin Claiming
    BY <1>1, <2>3 DEF Claiming, Granting
  <2> QED  BY <1>1, <2>1, <2>2, <2>3, <2>4, CallStep
<1>3. CASE ~(ok /\ ValidParked(calls[c].state))
  <2>1. calls' = [calls EXCEPT ![c].pc = "page"] /\ Deliver(c, None)
    BY <1>3 DEF Unpark, To
  <2>2. calls'[c].pc = "page" /\ \A d \in Calls : d # c => calls'[d] = calls[d]
    BY <2>1 DEF TypeOK, Call
  <2>3. calls[c].pc \in Granting /\ calls'[c].pc \notin Claiming \cup Granting
    BY <1>1, <2>2 DEF Claiming, Granting
  <2> QED  BY <1>1, <2>1, <2>2, <2>3, DeliverPromised
<1> QED  BY <1>2, <1>3

LEMMA IssueCodePromised ==
  ASSUME LoginInv, NEW s \in States, NEW c \in Calls, IssueCode(c)
  PROVE  Promised(s)
<1> USE DEF LoginInv
<1>1. /\ calls[c].pc = "issueCode"
      /\ calls' = [calls EXCEPT ![c].pc = "redirect"] /\ Deliver(c, calls[c].request)
      /\ UNCHANGED <<startedBy, sessionsOf, exchanged, states>>
  BY DEF IssueCode, To
<1>2. calls'[c].pc = "redirect" /\ \A d \in Calls : d # c => calls'[d] = calls[d]
  BY <1>1 DEF TypeOK, Call
<1>3. calls[c].pc \in Granting /\ calls'[c].pc \notin Claiming \cup Granting
  BY <1>1, <1>2 DEF Claiming, Granting
<1> QED  BY <1>1, <1>2, <1>3, DeliverPromised

\* A login whose callback is no more, and that was not delivered, has ended.
LEMMA Abandoned ==
  ASSUME LoginInv, NEW s \in States,
         UNCHANGED <<startedBy, sessionsOf, exchanged, delivered, states>>,
         ~Serving(s, Granting)', ~Serving(s, Claiming)'
  PROVE  Promised(s)
<1>1. CASE Serving(s, Granting) \/ Serving(s, Claiming)
  <2>1. startedBy[s] # None /\ states[s] = Deleted /\ ~WasDelivered(s) /\ ~WasExchanged(s)
    BY <1>1, PhaseFacts
  <2>2. Phase(s) \in {"granted", "claimed"} /\ Phase(s)' = "ended"
    BY <1>1, <2>1 DEF Phase, WasDelivered, WasExchanged
  <2> QED  BY <2>2 DEF Promised, Owned, HandedTo
<1>2. CASE ~Serving(s, Granting) /\ ~Serving(s, Claiming)
  BY <1>2, LoginFrame
<1> QED  BY <1>1, <1>2

LEMMA CallbackFailsPromised ==
  ASSUME LoginInv, NEW s \in States, NEW c \in Calls, CallbackFails(c)
  PROVE  Promised(s)
<1> USE DEF LoginInv
<1>1. /\ UNCHANGED <<startedBy, sessionsOf, exchanged, delivered, states>>
      /\ calls[c].pc \in Callback /\ calls' = [calls EXCEPT ![c].pc = "failed"]
  BY DEF CallbackFails, To, registry
<1>2. /\ calls'[c].pc \notin Claiming \cup Granting /\ calls'[c].state = calls[c].state
      /\ \A d \in Calls : d # c => calls'[d] = calls[d]
  BY <1>1 DEF TypeOK, Claiming, Granting
<1>3. CASE s = calls[c].state
  BY <1>1, <1>2, <1>3, LeavingAlone, Abandoned
<1>4. CASE s # calls[c].state
  <2>1. /\ Serving(s, Granting)' <=> Serving(s, Granting)
        /\ Serving(s, Claiming)' <=> Serving(s, Claiming)
    BY <1>2, <1>4, ServingFrame
  <2> QED  BY <1>1, <2>1, LoginFrame
<1> QED  BY <1>3, <1>4

LEMMA DiePromised ==
  ASSUME LoginInv, NEW s \in States, Die
  PROVE  Promised(s)
<1>1. /\ UNCHANGED <<startedBy, sessionsOf, exchanged, delivered, states>>
      /\ calls' = [c \in Calls |-> IdleCall]
  BY DEF Die, registry
<1>2. ~Serving(s, Granting)' /\ ~Serving(s, Claiming)'
  BY <1>1 DEF Serving, Granting, Claiming, IdleCall
<1> QED  BY <1>1, <1>2, Abandoned

\* A code that was delivered is exchanged.
LEMMA RedeemPromised ==
  ASSUME LoginInv, NEW s \in States, NEW x \in States, NEW cl \in Clients,
         NEW uri \in Uris \cup {None}, NEW verifier \in States \cup {None}, NEW ok \in BOOLEAN,
         Redeem(x, cl, uri, verifier, ok)
  PROVE  Promised(s)
<1> USE DEF LoginInv
<1> DEFINE e == [state |-> x, client |-> cl, verifier |-> verifier]
<1>1. /\ UNCHANGED <<startedBy, sessionsOf, delivered, states, calls>>
      /\ codes[x] \notin {None, Deleted}
      /\ exchanged' = exchanged \/ exchanged' = exchanged \cup {e}
  BY DEF Redeem
<1>2. HandedTo(s)' = HandedTo(s) /\ (WasDelivered(s)' <=> WasDelivered(s))
      /\ (Serving(s, Granting)' <=> Serving(s, Granting))
      /\ (Serving(s, Claiming)' <=> Serving(s, Claiming))
  BY <1>1 DEF HandedTo, WasDelivered, Serving
<1>3. CASE WasExchanged(s)' <=> WasExchanged(s)
  BY <1>1, <1>2, <1>3 DEF Promised, Owned, Phase, WasExchanged
<1>4. CASE ~(WasExchanged(s)' <=> WasExchanged(s))
  <2>1. s = x /\ WasExchanged(s)' /\ ~WasExchanged(s)
    BY <1>1, <1>4 DEF WasExchanged
  <2>2. WasDelivered(s)
    BY <1>1, <2>1 DEF RequestsHold, WasDelivered
  <2>3. startedBy[s] # None
    BY <2>2, PhaseFacts
  <2>4. Phase(s) = "delivered" /\ Phase(s)' = "exchanged"
    BY <1>1, <2>1, <2>2, <2>3 DEF Phase, WasDelivered, WasExchanged
  <2> QED  BY <1>1, <1>2, <2>4 DEF Promised, Owned
<1> QED  BY <1>3, <1>4

LEMMA StepPromised ==
  ASSUME LoginInv, [Next]_vars, NEW s \in States
  PROVE  Promised(s)
<1>1. ASSUME NEW c \in Calls, NEW b \in Browsers, NEW x \in States,
             \/ SaveState(c, b, x, None)
             \/ \E cl \in Clients, uri \in Uris : Authorize(c, b, x, cl, uri)
      PROVE  Promised(s)
  <2>1. \A cl \in Clients, uri \in Uris :
          [client |-> cl, redirectUri |-> uri, codeChallenge |-> x] \in Request
    BY DEF Request
  <2> QED  BY <1>1, <2>1, SaveStatePromised DEF Authorize
<1>2. ASSUME NEW c \in Calls,
             \/ Park(c) \/ ParkFails(c) \/ Exchange(c) \/ UpsertUser(c) \/ UpsertAccount(c)
             \/ Finish(c)
      PROVE  Promised(s)
  BY <1>2, QuietPromised
<1>3. ASSUME NEW c \in Calls,
             \/ \E b \in Browsers, x \in States : Arrive(c, b, x)
             \/ IssueSession(c) \/ \E ok \in BOOLEAN : Unpark(c, ok)
             \/ IssueCode(c) \/ CallbackFails(c)
      PROVE  Promised(s)
  BY <1>3, ArrivePromised, IssueSessionPromised, UnparkPromised, IssueCodePromised, CallbackFailsPromised
<1>4. CASE \E x \in States, cl \in Clients, uri \in Uris \cup {None},
             verifier \in States \cup {None}, ok \in BOOLEAN : Redeem(x, cl, uri, verifier, ok)
  BY <1>4, RedeemPromised
<1>5. CASE Die \/ SweepStates
  BY <1>5, DiePromised, SweepStatesPromised
<1>6. CASE \/ \E x \in States, u \in Users : Approve(x, u)
           \/ \E cl \in Clients, uris \in SUBSET Uris : Register(cl, uris)
           \/ SweepParked \/ Tick \/ UNCHANGED vars
  BY <1>6, OthersPromised
<1> QED  BY <1>1, <1>2, <1>3, <1>4, <1>5, <1>6 DEF Next

\* The login of s, as the promise sees it.
LoginOf(s) ==
  [phase |-> Phase(s), owner |-> startedBy[s], sessions |-> sessionsOf[s], to |-> HandedTo(s)]

\* What a step may do to a login is what the promise allows.
LEMMA PromisedSuccessor ==
  ASSUME NEW s \in States, Promised(s)
  PROVE  LoginOf(s)' \in {LoginOf(s)} \cup Promise!Successors(LoginOf(s))
<1> DEFINE l == LoginOf(s)
           m == LoginOf(s)'
<1>1. /\ l = [phase |-> Phase(s), owner |-> startedBy[s], sessions |-> sessionsOf[s],
              to |-> HandedTo(s)]
      /\ m = [phase |-> Phase(s)', owner |-> startedBy'[s], sessions |-> sessionsOf'[s],
              to |-> HandedTo(s)']
      /\ l.phase = Phase(s) /\ l.owner = startedBy[s]
  BY DEF LoginOf
<1> SUFFICES m \in {l} \cup Promise!Successors(l)
  OBVIOUS
<1> HIDE DEF l, m
<1>2. CASE Owned(s) /\ UNCHANGED Phase(s)
  BY <1>1, <1>2 DEF Owned
<1>3. CASE Owned(s) /\ <<Phase(s), Phase(s)'>> \in
             {<<"begun", "claimed">>, <<"begun", "ended">>, <<"claimed", "ended">>,
              <<"granted", "ended">>, <<"delivered", "exchanged">>}
  <2>1. m = [l EXCEPT !.phase = Phase(s)']
    BY <1>1, <1>3 DEF Owned
  <2> QED  BY <1>1, <1>3, <2>1 DEF Promise!Successors, Promise!Claimed, Promise!Ended,
                                   Promise!Exchanged
<1>4. CASE /\ Phase(s) = "none" /\ Phase(s)' = "begun"
           /\ startedBy'[s] \in Browsers
           /\ UNCHANGED <<sessionsOf[s], HandedTo(s)>>
  <2>1. m = [phase |-> "begun", owner |-> startedBy'[s], sessions |-> sessionsOf[s],
             to |-> HandedTo(s)]
    BY <1>1, <1>4
  <2>2. PICK k : k = [l EXCEPT !.phase = "begun"]
    OBVIOUS
  <2>3. k = [phase |-> "begun", owner |-> startedBy[s], sessions |-> sessionsOf[s],
             to |-> HandedTo(s)]
    BY <1>1, <2>2
  <2>4. m = [k EXCEPT !.owner = startedBy'[s]]
    BY <2>1, <2>3
  <2>5. m = [l EXCEPT !.phase = "begun", !.owner = startedBy'[s]]
    BY <1>1, <2>2, <2>4
  <2> QED  BY <1>1, <1>4, <2>5 DEF Promise!Successors, Promise!Begun
<1>5. CASE /\ Phase(s) = "claimed" /\ Phase(s)' = "granted"
           /\ sessionsOf'[s] = 1
           /\ UNCHANGED <<startedBy[s], HandedTo(s)>>
  <2>1. m = [phase |-> "granted", owner |-> startedBy[s], sessions |-> 1, to |-> HandedTo(s)]
    BY <1>1, <1>5
  <2>2. PICK k : k = [l EXCEPT !.phase = "granted"]
    OBVIOUS
  <2>3. k = [phase |-> "granted", owner |-> startedBy[s], sessions |-> sessionsOf[s],
             to |-> HandedTo(s)]
    BY <1>1, <2>2
  <2>4. m = [k EXCEPT !.sessions = 1]
    BY <2>1, <2>3
  <2>5. m = [l EXCEPT !.phase = "granted", !.sessions = 1]
    BY <1>1, <2>2, <2>4
  <2> QED  BY <1>1, <1>5, <2>5 DEF Promise!Successors, Promise!Granted
<1>6. CASE /\ Phase(s) = "granted" /\ Phase(s)' = "delivered"
           /\ HandedTo(s)' = {startedBy[s]}
           /\ UNCHANGED <<startedBy[s], sessionsOf[s]>>
  <2>1. m = [phase |-> "delivered", owner |-> startedBy[s], sessions |-> sessionsOf[s],
             to |-> {startedBy[s]}]
    BY <1>1, <1>6
  <2>2. PICK k : k = [l EXCEPT !.phase = "delivered"]
    OBVIOUS
  <2>3. k = [phase |-> "delivered", owner |-> startedBy[s], sessions |-> sessionsOf[s],
             to |-> HandedTo(s)]
    BY <1>1, <2>2
  <2>4. m = [k EXCEPT !.to = {startedBy[s]}]
    BY <2>1, <2>3
  <2>5. m = [l EXCEPT !.phase = "delivered", !.to = {startedBy[s]}]
    BY <1>1, <2>2, <2>4
  <2> QED  BY <1>1, <1>6, <2>5 DEF Promise!Successors, Promise!Delivered
<1> QED  BY <1>2, <1>3, <1>4, <1>5, <1>6 DEF Promised

LEMMA InitPromised == Init => Promise!Init
<1> SUFFICES ASSUME Init
             PROVE  Promise!Init
  OBVIOUS
<1>1. \A s \in States : /\ startedBy[s] = None /\ sessionsOf[s] = 0
                        /\ Phase(s) = "none" /\ HandedTo(s) = {}
  BY DEF Init, Phase, HandedTo
<1> QED  BY <1>1 DEF Promise!Init, Promise!NoLogin

\* The flow, statement by statement, implements what a login promises.
THEOREM FlowImplementsLogin == Spec => ImplementsLogin
<1> DEFINE logins == [s \in States |-> LoginOf(s)]
<1>1. ASSUME LoginInv, [Next]_vars
      PROVE  Promise!Next
  <2>1. \A s \in States : LoginOf(s)' \in {LoginOf(s)} \cup Promise!Successors(LoginOf(s))
    BY <1>1, StepPromised, PromisedSuccessor
  <2> QED  BY <2>1 DEF Promise!Next, LoginOf
<1> QED  BY <1>1, InitPromised, LoginInvariance, PTL DEF Spec, ImplementsLogin, Promise!Spec

=============================================================================
