# gitlab-mcp: a TLA+ verification project

gitlab-mcp is an MCP server that lets an agent work on a GitLab instance in a
user's name. It is an OAuth authorization server towards its MCP clients and an
OAuth client of GitLab; all its state is in a Postgres database reached through
Prisma, one statement at a time and with no transactions. It is one Node
process: the hard part is what happens between two `await`s.

Paths below are relative to the repository's `src/` directory (`auth/...` is
`src/auth/...` there); `docs/` is the repository's `docs/`.

## 1. Inventory

| Component | State | Operations | What is hard | What makes it correct |
|---|---|---|---|---|
| Refresh-token rotation: `auth/refreshTokenService.ts` over `repositories/oauthRefreshTokenRepository.ts` | rows: token hash, user, client, family, expiry, revokedAt | `issue`, `validate`, `rotate` (find, consume, revoke the family or mint), `revoke`, `revokeAllForUser` | two requests with one token; a revocation between two statements; failing between consume and mint | a chain never forks; one winner per token; a dead chain stays dead; a chain keeps its user and client |
| Token and revocation endpoints: `auth/mcpOAuthProvider.ts` | none of its own; drives rotation, sessions and codes | exchange a code, exchange a refresh token, revoke, authorize | several statements each, some with their errors swallowed; checks made after a statement has taken effect | a grant goes to its own client and user, once; a revocation reaches everything; nothing revives without a login |
| Sessions: `auth/sessionService.ts`, `repositories/sessionRepository.ts` | rows: token hash, user, expiry, revokedAt | `issue`, `validate`, `revoke`, `revokeAllForUser` | a refresh revokes all of a user's sessions while others are being issued | superseded sessions die |
| Authorization codes: `auth/authCodeStore.ts`, `repositories/oauthCodeRepository.ts` | rows: code hash, client, user, session token, redirect URI, challenge, expiry | `issue`, `consume` (delete and return), sweep | two exchanges of one code | used once |
| Login: `http/authRoutes.ts`, `auth/mcpOAuthProvider.ts` authorize, `http/stateCookie.ts` | a signed cookie per browser | `/auth/login`, `/authorize`, `/auth/callback`, `/auth/logout` | a callback opened twice, elsewhere, late, or while another login of that browser runs; a failure half-way; several logins of several clients at once | what a login yields goes to the browser, the client and the address that began it, once |
| Client registration: `auth/oauthClientStore.ts` | rows: client, redirect URIs | insert, lookup | the URI is checked by one request and used by another | codes go to registered URIs only |
| State and parked-request stores: `auth/oauthStateStore.ts`, `auth/pendingAuthorizeStore.ts` and repositories | rows keyed by state, with an expiry | `save`, `take`, `deleteExpired` | the sweep next to a take | nothing valid is swept |
| Sweep: `auth/oauthSweep.ts` | a timer | three independent deletes | its cutoff against the readers' | see above |
| GitLab token provider: `auth/tokenProvider.ts`, `repositories/oauthAccountRepository.ts`, `auth/gitlabOAuth.ts` | one row per user: GitLab's access and refresh token, expiry | `getAccessToken` (read, refresh, update), `upsert` at login | two refreshes with one token; a login meanwhile; a lost answer | the row's three fields belong together; it keeps a spent token only if that token's successor was lost |
| Tool calls: `middleware/bearerAuth.ts`, `mcp/server.ts`, `mcp/tools/*`, `services/gitlabService.ts`, `middleware/errors.ts`, `repositories/auditLogRepository.ts` | audit rows | authenticate, get a token, check access, ask GitLab, map the error, audit, reply | an answer lost after a write; the audit failing; a token or a session expiring on the way; a client that leaves, or tries again | a reply tells the truth about the write, over all attempts; the audit agrees with it; every call is answered |
| Diff pagination: `services/gitlabService.ts` `getMergeRequestDiffs` | loop variables | one request per page | headers that are missing, odd, or go back; a push in between | ends; complete and without repetition when nothing is pushed |
| Conversions: `sliceByBytes` of `mcp/tools/common.ts`, `getFile` of `services/gitlabService.ts`, `sanitizeParams` of `mcp/sanitize.ts`, `decodeKey` of `config/index.ts` | none | four pure functions | a cut inside or next to a wide character; bytes that are almost UTF-8; nesting; a lenient base64 decoder | the longest run of whole characters; a file's bytes unchanged; every secret and nothing else redacted; a key is what was written, or refused |
| Crypto, configuration, HTTP assembly, database client, lifecycle, schema, deployment | | | | see section 8 |

How they interact. `/authorize` (or `/auth/login`) saves a state, perhaps parks
the client's request under it, sets the cookie and sends the browser to GitLab.
`/auth/callback` takes the state, exchanges GitLab's code, upserts user and
account, issues a session, takes the parked request and issues a code that
carries the session token. `/token` turns that code into the session token and a
refresh token, and later a refresh token into a new session and its successor.
`/mcp` authenticates with the session, gets the GitLab token from the account
row, refreshing it if need be, calls GitLab, audits and replies. `/revoke` and
`/auth/logout` end credentials. All of them share the tables and nothing else.

## 2. Modules

| Module | Models | Uses |
|---|---|---|
| `RotationFamily` | the promise of `refreshTokenService.ts`' header comment: a family is a chain with at most one usable token | |
| `RefreshTokenService` | the service, one step per SQL statement | instantiates `RotationFamily` |
| `CredentialLine` | the promise of a login's credentials: a login goes on along one line, from code to refresh token to refresh token, handed on or ended, never split or resumed | |
| `TokenEndpoint` | `/token`, `/revoke`, the end of `/auth/callback`, `/auth/logout`, the session and code tables and the sweep of codes | extends `RefreshTokenService`: its `rotate()` is that module's actions; instantiates `CredentialLine` |
| `TokenProvider` | `getAccessToken` and the login's upsert, against GitLab | |
| `LoginFlow` | client registration, `/authorize`, `/auth/login`, `/auth/callback`, the checks of a code's exchange, cookies, state and parked-request tables, their sweep | instantiates `LoginPromise` |
| `LoginPromise` | what a login promises: begun, claimed, granted, delivered, exchanged, each once and in this order | |
| `ToolCall` | a call of `/mcp`, from the bearer token to the reply, and its retries | instantiates `GitLabService` |
| `GitLabService` | each method of `gitlabService.ts`: what it sends and what it makes of the answer | |
| `DiffPagination` | the loop over the pages of a diff | |
| `Conversions` | `sliceByBytes`, `getFile`, `sanitizeParams`, `decodeKey` | extends `Encodings` |
| `Encodings` | UTF-8, base64 and hex as Node's `Buffer` encodes and decodes them | |
| `MC*` | symmetry sets for TLC | the module they are named for |
| `RefreshTokenServiceProofs`, `TokenEndpointProofs`, `TokenProviderProofs`, `LoginFlowProofs`, `ToolCallProofs`, `DiffPaginationProofs`, `ConversionsProofs` | theorems | the modules they are named for; `TokenEndpointProofs` also extends `RefreshTokenServiceProofs` and instantiates `PromiseProofs` |
| `PromiseProofs` | what the two promises entail | instantiates `RotationFamily`, `CredentialLine` |

### State and actions against the code

*RefreshTokenService.* `rows` is the table, keyed by the raw token (a hash that
is taken as injective). `calls[c]` is an invocation of `rotate()`: its program
counter names the statement it is about to run, and `row` is what `findByHash`
returned, which the code goes on using while the table moves. `RotateFind`,
`RotateConsume`, `RotateKill`, `RotateMint` are the four statements with the
branches after them; `Issue`, `Revoke`, `RevokeAllForUser` the other operations;
`RotateFail` a statement that rejects or a process that ends, at any point.
Whether the consume won is read from the table when it runs (`revokedAt: null`
in the `where`), not from `row`.

*TokenEndpoint.* `reqs[c]` is an HTTP request; while it rotates, `calls[c]` is
its `rotate()`. Each handler is cut at its awaits: `Login`, `TakeParked`,
`IssueCode`; `TakeCode`, `GrantCode`; `StartRefresh`, `Rotate`, `SettleRefresh`,
`SweepSessions`, `GrantRefresh`; `StartRevoke`, `RevokeLookup`, `Cascade`;
`Logout`. An `ok` parameter is a statement whose error the code swallows;
`Drop` is one whose error it does not, or the process ending. `granted` and
`seen` are history: the responses sent, and what was alive when a request came.
`Outcome` has no use for a user on reuse because the result of `rotate()` has
none. PKCE and the redirect URI are a Boolean, `proofs`, of the request.
`CredentialLine` is read off the tables and the requests: a link is a usable code, a
live refresh token, or a request that has consumed the one and not yet made the other
(from `Login` to `IssueCode`, from `TakeCode` to `GrantCode`, from a won consume to the
mint); a due is a request that has its new refresh token and not yet the session that
goes with it. A login is named by the session the callback issued, and a family's login
is found in `granted`, from the answer that earned it its first token (`LoginOf`).

*TokenProvider.* GitLab's side is `issued`, `revoked` and `rotates`: a refresh
token is renewable until it is spent or its grant is revoked. `GetAccount`,
`Refresh` or `Refuse`, and `Store` are `getAccessToken`'s three awaits, and
`Receive` the moment GitLab's answer arrives, when `ExpiresAtFrom` reads the clock
if the answer is not dated (`dated`); between `Refresh` and `Receive` (`wire`) GitLab
has served the request and the process does not know. `calls[c].account` is the row
read at first and still used in `tokens.refresh_token ?? account.refreshToken`.
`Exchange` and `Upsert` are the login's. `Fault` loses a statement, a request or an
answer, `Die` everything in flight; `lost` is history: the pairs that never reached
the row because of them.

*LoginFlow.* A cookie changes when the response arrives in the browser. A
state's row also holds the PKCE verifier towards GitLab, so one model value stands
for both; it names, too, the challenge of the client's request, as each request has
its own, and a verifier is the challenge it hashes to. `Register` is `registerClient`;
`Authorize` is `SaveState` behind the lookup and the redirect-URI check;
`Arrive` is the cookie check, the take and the 400s; `Exchange` to `IssueCode`
are the callback's awaits; `CallbackFails` is its catch, `Redeem` the exchange of a
code as far as client, redirect URI and PKCE go (`Proof`), `Die` a process that
ends, `SweepStates` and `SweepParked` two of the sweep's deletes. `startedBy`,
`parkedFor`, `sessionsOf`, `delivered` and `exchanged` are history.

*GitLabService and ToolCall.* A method is its verb, the helper that sends it and the
use it makes of the body; `Returned` is what comes of each answer GitLab may give,
the `TypeError` of a body that is missing and the `SyntaxError` of one that is cut
short included. A tool is a method, whether project access is checked first, and what
its handler throws on an empty list or a null (`Handled`). GitLab answers with the
statuses `mapError` tells apart, and carries a write out or not when the answer is a
5xx or lost. `Retry` is a client that was refused and makes the call again;
`Disconnect` one that leaves: the callback of the tool runs on, its reply is
`dropped`. `applied`, `audit` and `outcome` run over the attempts of one call.

*DiffPagination.* A diff lists files, each once; they are numbered in the order in
which it lists them, so a diff is an ascending sequence. `Request(next)` is one turn
of the loop for any `x-next-page`, GitLab's own or not.

*Encodings and Conversions.* A byte is its class for a UTF-8 decoder, a character
its bytes: ASCII, lead bytes of two to four bytes, continuation bytes, and bytes that
are valid nowhere; U+FFFD is a character with bytes of its own, so that a text
containing it and a decoder's mark are the same, as in the code. Base64 and hex are
scaled down in bits, not changed: 4-bit bytes, 3-bit base64 and 2-bit hex
digits keep what matters, that digits do not fill the bytes evenly and bits are
left over. One behaviour is one call of one of the four functions on one input.

## 3. Runs and what they show

| Run | Question | Result |
|---|---|---|
| RefreshTokenService | three concurrent `rotate()` calls, two users, two chains | never two usable tokens in a chain, nor one beside a mint in flight (`AtMostOneActive`); one winner (`SingleWinner`); identity kept (`FamilyBinding`); a dead chain stays dead (`DeadStaysDead`); `ImplementsRotation` |
| RefreshTokenReuseRace | is the family dead once reuse was detected? | **no**, see 4.1 |
| TokenEndpoint | two users, two clients, two concurrent requests of any kind | `GrantBinding`, `SingleUse`, `SupersededSessionsDie`, `RevokeCascades`, `OnlyLoginRevives`, `ReplaysRecognised`; the endpoints use the service as it is specified (`ImplementsService`) and keep the promise of a login's credentials (`ImplementsLine`) |
| TokenEndpointExpiry | the same with a clock, expiring credentials and swept codes | `RevokeCascades`, `OnlyLoginRevives` |
| EndpointReuse | do sessions die when a replay is detected? | **no**, 4.2 |
| TokenProvider | two concurrent calls or logins of one user, with and without rotation and dated answers, one failure or restart | `RowCoherent`, `SpentOnlyIfLost`, `HandedOutFresh` |
| TokenProviderRace | is nobody told to log in needlessly? | **no**, 4.3 |
| LoginFlow | two browsers, two clients, two logins, two concurrent requests, expiry, sweep, failures, restarts | `DeliveredToStarter`, `OneSessionPerLogin`, `SessionHasAccount`, `CodesToRegisteredUris`, `TokensToRequester`, `OnlyStarterClaims`, and the flow keeps the promise of a login (`ImplementsLogin`) |
| ToolCall | a call of each tool, tried twice, against every answer, with a client that may leave | `SafeToRetry`, `AuditHonest`, and, with fairness, `Answered` |
| DiffPagination | any headers, failures, a push | `Complete` and, with fairness, `Terminates` |
| Conversions | every text, file, tree of params and key up to a bound | `HeadExact`, `TailExact`, `FileExact`, `Sanitised`, `KeyExact` |
| SlicePromise | is every text cut as the comment of `sliceByBytes` says? | **no**, 4.4 |

Each module's type invariant is checked with it. The less obvious
properties: `OnlyLoginRevives` is an action property: from a state in which
nothing of a user is alive, nor about to be, only the session a callback issues
leads out. `ReplaysRecognised` says that a rotated token is never forgotten, which
holds because the sweep leaves refresh tokens alone. `ImplementsLine` is broken by
anything that lets two requests go on from one code or one token, or something go on
from what was revoked. `SpentOnlyIfLost` says which
failure it takes for the row to keep a spent refresh token: no interleaving
does it. `SafeToRetry` is what a caller may conclude over all its attempts: success
means the write happened, once; any error but `upstream_unavailable` and `internal`
means it did not. `RevokeCascades` holds each half of a revocation to what it was for,
whatever became of the other. `SliceExact` is what the comment of `sliceByBytes`
promises of every text, and fails; `HeadExact` and `TailExact` say the same, without
exception, of the texts for which the code keeps it: those without U+FFFD from the start,
and those without characters wider than two bytes, whose cut leaves one byte, from the
end. `KeyExact` states which strings are keys without decoding them, as numerals; of
base64 with too many or too few `=` it says only that nothing comes of it but the number
written.

Bounds. All are constants in the `.cfg` files. In RefreshTokenService, three tokens
and three calls let a chain rotate twice, or once with a second chain beside it,
while two more calls race; in TokenEndpoint, two tokens and two sessions let a code
grant be followed by a refresh. Two requests are enough for every race the properties
speak of, each being between two. With `MaxTime = 0` nothing expires;
`TokenEndpointExpiry` lets the clock pass every expiry in use. It has
one session token: a login, its exchange, a rotation and a revocation, at any times
relative to the expiries, but no second session, which `TokenEndpoint` has.
`TokenProvider` has three pairs over two grants: two refreshes race, or one races a
second login, and a third token is there to be refused or used; `TTL = 2`, `Skew = 1`,
`MaxTime = 2` reach a token that is good, within the skew, and expired; `MaxFaults = 1`
is one failure or one restart at any point. In `LoginFlow`, `MaxTime = 2` with
`TTL = 1` reaches valid, expired, and swept; one redirect URI is asked for, and a client
may or may not have registered it (one that registered others only has the empty
set), which is all that the checks tell apart. Rows are never reused after deletion
(`Deleted`), as random keys are not. `ToolCall` has a single call of at most two
attempts (`MaxAttempts`) and diffs of at most two pages (`Pages`): calls share
nothing but sessions and membership, which change at any time there. In
`DiffPagination`, up to five files (`MaxFiles`) at two a page make one, two or three
pages, full and not, and headers name one page more (`MaxPage`). In `Conversions`,
texts have up to four characters (`MaxChars`), files up to five bytes (`MaxRaw`) with a
limit of four (`FILE_MAX_BYTES`), so that a character of any width is whole, cut or
outside; keys are two bytes (`KeyLen`), which leaves spare bits over as 32 bytes do;
params nest two deep under the top level.
Symmetry is used in the safety runs only.

Deadlock is checked except in LoginFlow (all states used up, clock at its bound,
nobody logging in), DiffPagination and Conversions (both end).

Fairness. Only `ToolCall!FairSpec` and `DiffPagination!FairSpec` have any:
weak fairness of the next step of a call in progress. Node's event loop runs every
continuation whose promise has settled, a Prisma statement settles or times out,
`fetch` does too, and a diff has finitely many pages. No fairness is assumed of
users, clients, logins, the clock, or GitLab's answering *well*. A client that
disconnects does not stop a handler; the end of the process does (`Die`).

Crashes. The process holds nothing that outlives it, so a restart is every
request in flight vanishing between two statements; `RotateFail`, `Drop`, `Fault` and
`Die` are that, request by request or together. An unhandled rejection
ends the process too: Express 4 does not catch those of async handlers outside
their `try`.

## 4. Where code and documentation differ

Four that runs show:

1. *A race escapes the family revocation* (RefreshTokenReuseRace). Two requests
   present one token; the loser revokes the family before the winner has minted.
   The winner's token is usable afterwards.
   `auth/refreshTokenService.ts:12-13` says neither can keep rotating.
2. *A replay does not end the sessions* (EndpointReuse). `mcpOAuthProvider.ts:142`
   tests `result.userId`, which no reuse result carries.
3. *Two refreshes race* (TokenProviderRace). With rotating GitLab refresh tokens,
   the second of two concurrent calls is refused and its user is told to log in
   again, though the row holds good tokens; `docs/oauth.md:100-101` says users
   need not.
4. *A slice may begin with stray marks, and drop what is the text's own* (SlicePromise).
   A tail cut inside a character of three or four bytes begins with up to two
   replacement marks: the decoder makes one of every byte left, and
   `mcp/tools/common.ts:55` strips one. `common.ts:36-39` says that a cut leaves a single
   one and that no stray one is emitted. The marks are wider than the bytes they stand
   for: the last 2 bytes of one character of three come back as 3 bytes, over the limit.
   Secondly, a U+FFFD of the text itself that ends a head, or begins a tail, at the limit
   is taken for such a mark and dropped, though `common.ts:53-54` says it must survive.
   Both break `SliceExact`; the trace shows the first.

Others that the models contain, and that no run singles out:

- Expired refresh tokens rotate: `rotate()` does not look at `expiresAt`; `validate()`
  does, and only `/revoke` calls it (`docs/oauth.md:134`: "until the refresh token
  expires"; `docs/security.md:45`).
- A `/revoke` between a rotation's consume and its mint leaves the new token
  alive (`mcpOAuthProvider.ts:181`: "fully severed"). `RevokeCascades` is about
  what existed when the request came.
- `/auth/logout` revokes one session and no refresh token
  (`docs/security.md:43-44`).
- When the answer to a GitLab refresh, or the UPDATE after it, is lost, or the process
  ends between the two, the row keeps a spent refresh token until the next login;
  `SpentOnlyIfLost` says that nothing else leads there.
- A failed audit insert leaves a write unrecorded (`docs/security.md:109`).
- The GitLab token is obtained once per tool call, not "before each GitLab call"
  (`docs/oauth.md:98-100`), and may expire before the last request.
- A push between two pages of a diff can hide a file from the result.
- A key in base64 may end in any number of `=`, or lack the one it should have
  (`config/index.ts:42-46`: "strict base64", and to "reject anything that does not
  re-encode to the same value"): `decodeKey` strips them from both sides of its
  comparison. `KeyExact` asks that strict base64 is accepted, and that what is accepted
  is the number written; that nothing else is accepted would not hold.

## 5. Proofs

`RefreshTokenServiceProofs` proves, for all sets of users, clients, tokens,
families and calls and every clock bound:

| Theorem | Statement |
|---|---|
| `Invariance` | `Spec => []Inv` |
| `TypeCorrect`, `NoFork`, `OneWinner`, `ChainIdentity` | `Spec => []` of `TypeOK`, `AtMostOneActive`, `SingleWinner`, `FamilyBinding` |
| `DeadForever` | `Spec => DeadStaysDead` |
| `Implementation` | `Spec => ImplementsRotation`: every statement spends, mints, abandons or revokes, or stutters |

`TokenEndpointProofs` proves, for all of those and all sets of session tokens and
codes, and any number of concurrent requests:

| Theorem | Statement |
|---|---|
| `EndpointInvariance` | `EndpointSpec => [](Inv /\ EndpointInv)` |
| `EndpointTypes`, `GrantsBound`, `GrantedOnce` | `EndpointSpec => []` of `EndpointTypeOK`, `GrantBinding`, `SingleUse` |
| `ReplaysCaught` | `EndpointSpec => ReplaysRecognised` |
| `EndpointsImplementService` | `EndpointSpec => ImplementsService` |
| `ServiceUnderEndpoints` | so all of the first table holds under the endpoints: `EndpointSpec =>` `[]` of `AtMostOneActive`, `SingleWinner` and `FamilyBinding`, `DeadStaysDead`, `ImplementsRotation` |
| `EndsInvariance` | `EndpointSpec => []EndsInv` |
| `SupersededDie`, `RevocationCascades` | `EndpointSpec => []` of `SupersededSessionsDie`, `RevokeCascades` |
| `NothingRevives` | `EndpointSpec => OnlyLoginRevives` |
| `LineInvariance` | `EndpointSpec => []LineInv` |
| `EndpointsImplementLine` | `EndpointSpec => ImplementsLine` |
| `OneCredentialPerLogin` | so `EndpointSpec => []Line!OneLine`: a login has at most one usable code or refresh token, or request about to make one |
| `OnlyALoginBegins` | and `EndpointSpec => Line!OnlyLoginBegins`: nothing goes on for a user of whom nothing is left, but by a login |

`PromiseProofs` proves what the promises entail by themselves, under every step they
allow:

| Theorem | Statement |
|---|---|
| `ChainOfOne` | of `RotationFamily`: `Spec => []OneUsable`, a family never has two usable tokens, nor one while its next is being minted |
| `LineIsOne` | of `CredentialLine`: `Spec => []OneLine`, if a null is no user |
| `NothingResumes` | of `CredentialLine`: `Spec => OnlyLoginBegins`, if a null is no user |

`TokenProviderProofs` proves, for all sets of token pairs, grants and calls, every
lifetime, skew, clock bound and number of faults:

| Theorem | Statement |
|---|---|
| `ProviderInvariance` | `Spec => []ProviderInv` |
| `ProviderTypes`, `CoherentRow`, `NoSpentToken` | `Spec => []` of `TypeOK`, `RowCoherent`, `SpentOnlyIfLost` |
| `FreshOut` | `Spec => HandedOutFresh` |

`LoginFlowProofs` proves, for all sets of browsers, users, clients, redirect URIs,
states and calls, and every lifetime and clock bound:

| Theorem | Statement |
|---|---|
| `LoginInvariance` | `Spec => []LoginInv` |
| `LoginTypes`, `ToStarter`, `ToRegistered`, `ToRequester`, `OneSession`, `AccountLinked` | `Spec => []` of `TypeOK`, `DeliveredToStarter`, `CodesToRegisteredUris`, `TokensToRequester`, `OneSessionPerLogin`, `SessionHasAccount` |
| `StarterClaims` | `Spec => OnlyStarterClaims` |
| `FlowImplementsLogin` | `Spec => ImplementsLogin` |

`ToolCallProofs` proves, for all sets of users and calls and any bound on attempts and
pages:

| Theorem | Statement |
|---|---|
| `CallInvariance` | `Spec => []CallInv` |
| `CallTypes`, `SafeRetries`, `HonestAudit` | `Spec => []` of `TypeOK`, `SafeToRetry`, `AuditHonest` |

`DiffPaginationProofs` proves, for all sets of files, page sizes, bounds on files, page
numbers and pushes, and any headers:

| Theorem | Statement |
|---|---|
| `CompleteDiff` | `Spec => []Complete` |

`ConversionsProofs` proves, for texts and files of any length, every limit, every key
length with the remainder of 32, and all sets of keys and of secret keys:

| Theorem | Statement |
|---|---|
| `HeadIsExact`, `TailIsExact` | `Spec => []` of `HeadExact`, `TailExact` |
| `FileIsExact` | `Spec => []FileExact` |
| `ParamsAreSanitised` | `Spec => []Sanitised` |
| `KeyIsExact` | `Spec => []KeyExact` |

What these leave fixed is what the model fixes: bytes are the classes of `Encodings`,
with its 4-bit bytes, and params are as deep as `Trees` has them (two levels of arrays
and objects under the top one, arrays of at most two), though with any keys.

Assumptions: that times and bounds are naturals, and that a null, a deleted row and
an absent expiry are none of the values they stand beside. They are
`NoneAssumption` and `TimeAssumption` of the service, `EndpointAssumption` (which
also says that no string is both a refresh token and a code, as random
values are not), `ProviderAssumption`, `LoginAssumption`, `CallAssumption`, the
`NullAssumption` of `TokenProvider`, `LoginFlow` and `ToolCall`, `PageAssumption` (a page
has at least one entry; a missing header is no number), and `ConversionsAssumption`: the
limit of a file is a multiple of four, as 1 MiB is, so that base64 is cut between groups,
and a key's length leaves two over groups of three, as 32 does. TLC evaluates all of them.

Argument for the service. `AtMostOneActive` is not inductive: a mint adds a live token to the
family of the row *the call read*, and a consume revokes the token *the call
names*, so the two must be known to agree with the table. `Inv` therefore adds
`CallRow`: for a call past its lookup, the table still has its token's row,
with the user, client and family that were read (rows are never deleted and
only `revoked` changes). With it, a consume that wins revokes the family's one
live token, so the mint that follows is the family's only one, and nothing
live is beside it. `SingleWinner` and `FamilyBinding` are inductive beside these. One
lemma per action shows that it preserves `Inv`; `RevokedFrame` and `NewRowFrame`
say once what an update and an insert change. `DeadForever` and
`Implementation` go over the same actions, from `Inv`.

Argument for the endpoints. `EndpointStep` maps each step to one of the service,
so `Inv` is an invariant here too. `GrantBinding` needs, before a response is sent,
that what the request holds is already its user's and its client's: `Bound`, and
`CodeBound` for the codes a request can pick up. For a refresh this rests on
`FamilyBinding` and on the comparison of clients in `exchangeRefreshToken`.
`SingleUse` needs to know that whoever may yet answer for a token has consumed it,
alone: `HeldOnce` says that what is held is deleted or revoked for good (`Gone`),
by one request only, and that nobody still holds what was answered for. A step can
then begin to hold a token only if it found it not gone. `Grows` is what every step
leaves standing; `Proceeds` does the steps that answer nothing, `Answers` the two
that do, and the lemma of each action supplies what they ask for.

Argument for what requests end. A request that saw a session or a token (`seen`) has
to have made it dead by the time it answers, over several statements during which
others run. `Ends(c)` says of each point of a handler what is dead by then, and that
what was seen is still in the tables. It survives the steps of others because of
`Dying` and `RowsDying`: no step makes a live session or token of what was dead, or
loses a row. `NothingRevives` then needs of a user with nothing alive, and nothing
under way (`Over`), that no statement in flight creates something for that user
(`NothingNew`): the only ones that create are a login, a code's exchange and a mint, and
the last two need a code or a consumed row that was alive, so that the user was not
`Over`.

Argument for the line. That a login is found in a family needs `Rooted`: every family
that was started has an answer to a code's exchange whose refresh token is in it, and
one only, since a family is new when `GrantCode` starts it and a rotation's answer names
the token it was given. Then each link and each due is a function of the one thing that
carries it (`LinksCarried`, `DuesOwed`), a code, a token or a request, so that a
statement can only disturb the links of what it touches: `HandedOn` says how the links
change when it does, `LinksStand` and `LinksShrink` when nothing new is carried. One
lemma per statement says which step of `CredentialLine` it is; a revocation, a sweep or a
failure ends lines (`End`), a lookup moves none. `CallRow`, `FamilyBinding` and `Bound` make
the login, client and user of a link the same before and after it is handed on. The two
corollaries are the theorems of `PromiseProofs`, taken at the mapping.

Argument for the provider. `RowCoherent` is about whichever call writes last, so
what each call has in hand must be coherent on its own: `Answered` says that an answer
is of the grant of the row that was read and carries an expiry that fits, `ReadsKnown`
and `RowKnown` that what was read or stored was issued. `SpentOnlyIfLost` rests on
`HeldAlone`: a pair under way is in one call's hands and nobody has spent it, because
GitLab answers one of the calls that present a token, and the rest are refused.
`HandedOutFresh` follows from `RowCoherent` and the comparison in `NeedsRefresh`.

Argument for the login. `DeliveredToStarter` needs that a callback under way belongs to
the browser that drew its state: `CookiesHold` (a browser's cookie names only states
drawn for it), carried into `CallsHold` by the cookie check, and `RequestsHold` for
what is parked and coded. `OneSessionPerLogin` needs `ClaimedOnce`: a state whose row is
there has no callback under way, no session and no delivery, and at most one callback
works for a state. `Undrawn` says that nothing refers to a state nobody drew, `Linked`
what has been written when the session is issued. The refinement computes a login's
phase from the tables, the handlers and the histories (`Phase`); one lemma per action
shows that it stays, or takes a step of `LoginPromise`, for each login, using `LoginInv`
where a phase could be skipped or repeated.

Argument for tool calls. `Told(c)` relates, at each point of a call, how often its write
was carried out to what its attempts were told: before the request is sent nothing was,
since a retry follows a refusal only, and afterwards as the result says. It holds over a
retry because no answer that GitLab gives after carrying out a write is mapped to a
refusal: a body that is missing or cut becomes `internal`.

Argument for the audit. An outcome joins `outcome` when the attempt settles, before its
record is tried. `Recorded` says that while the record is to come the audit is a
subsequence of the outcomes before it, and of all of them at any other time; a kept
record adds to the one what was already added to the other (`SubsequenceGrows`), a lost
one to neither.

Argument for the diff. `Collected` says that, while nothing is pushed, every entry
collected stands in the diff before the page to be asked for (`Before`), so that the next
page, all of it beyond, keeps the result ascending whatever page a header names ahead;
and that with GitLab's own headers it is exactly the diff up to that page. The loop then
stops where GitLab says that no page follows. What is cut and joined is given index
by index (`PartFacts`, `DataFacts`, `PagesFollow`), so that no induction is needed.

Argument for slices. The decoder is read one byte at a time: `HasRead` says what it has
written after some bytes, and `ReadingText` that after whole characters it has written
exactly those. A limit cuts a text (`Cut`) into a head, one character `c` and the rest,
with `r` bytes of `c` on one side. From the start, what follows the head is one mark or
nothing, which `StripLast` takes away; from the end, the bytes left of `c` are at most
three continuation bytes, each a mark, of which `StripFirst` takes one away. `LongestBut`
and `TailOf` say what is so of every text, the two marks and the U+FFFD that may be left
or lost included; without U+FFFD (`LongestUnmarked`), or wide characters
(`TailUnmarked`), that is the longest run, without exception.

Argument for files. `TextIsWellFormed`: encoding what was decoded gives the file back
just when the file is well-formed, since whatever is not becomes a mark, of
other bytes than it stands for. For the others, base64 is taken three bytes, four digits at
a time (`DigitsOfBytes`, `BytesOfDigits`), so that `BytesBack` gives each byte back,
`Base64Whole` all of them, and `Base64Prefix` those before a cut between two groups. That
is where the limit must be a multiple of four.

Argument for keys. The value of a numeral is that of its bits, however they are grouped
(`HexNumber`, `Base64Number`). `KeyWrittenBack` shows that what is written in canonical
base64 passes the comparison in `decodeKey`, and `WrittenIsCanonical` that nothing else
does, but for the `=` that are stripped, as `Buffer`'s encoder writes no junk, no url-safe
digit and no spare bit (`KeyKept`). `KeyTaken` is the part of it that is promised.

Argument for params. Both `SanitizeParams` and `Paths`, by which `Sanitised` measures it,
are functions that call themselves; that they exist is shown level by level, from the
leaves (`SanitizeUnfold`, `PathsUnfold`). Then `LeafIsRight`, `ArrayIsRight` and
`ObjectIsRight` give the paths of a tree from those below it: under a step to an item or an
ordinary key what must be kept is kept (`KeptBelow`), and a step to a secret key is where
the path is cut (`KeptAtSecret`).

What Encode, the decoder and a numeral make of input of any length takes induction. The
rules that do it (`NatInduced`, `SeqInduced`, `Recursion`) take the property as a set,
since the prover cannot instantiate a rule that takes it as an operator; they follow
from the well-foundedness of the naturals.

Only model-checked: `Answered` and `Terminates`, as liveness under fairness is outside
what the proof system does. Every other property of a passing run is proved.

## 6. Plan

Done: `RotationFamily`, `RefreshTokenService`, `TokenEndpoint` (composed with the
service) and its abstract specification `CredentialLine`, `TokenProvider`, `LoginFlow`
with client registration and redirect URIs and its abstract specification
`LoginPromise`, `ToolCall` over `GitLabService`, `DiffPagination`, `Conversions` over
`Encodings`; proofs of every safety property of all of them, and of every
refinement.

Next:

1. `LoginFlow` composed with the end of `TokenEndpoint`'s callback, so that a
   session is one thing in both, and the code's expiry too.
2. `assertProjectAccess` next to a change of membership, as a property.
3. `TokenProvider` under `ToolCall`, in place of `GetAccessToken`'s set of expiries.

## 7. Mutants

The operators marked `mutant` in the modules are plausible slips in the lines they
stand for, one for each property of each passing run; put in place of the
definition they stand before, they make TLC find the property violated.

## 8. What is not modelled

- *Which keys and texts the sanitiser's regular expressions match*
  (`mcp/sanitize.ts`): taken as given sets; what is done with a match is modelled.
- *Cryptography* (`auth/crypto.ts`): hashes are injective, random values fresh,
  AES-GCM faithful, the cookie's HMAC unforgeable.
- *Configuration, but for `decodeKey`*: read once, checked field by field, constant.
- *HTTP assembly, the Prisma client, deployment*: no state that
  changes. A Prisma statement is atomic.
- *The MCP SDK's* transport, validation and batching, and Express: external.
- *Starting and draining the listener* (`index.ts`); its exit is modelled.
- *URLs, request bodies, the shapes of results*: data no property tells apart.
- *Bounded growth*: session and refresh-token rows are never deleted, here as in
  the code.
