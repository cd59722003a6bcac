----------------------------- MODULE TokenProvider -----------------------------
(***************************************************************************)
(* src/auth/tokenProvider.ts: the GitLab access token of one user, and its *)
(* transparent refresh, over oauthAccountRepository.ts and                 *)
(* refreshAccessToken of gitlabOAuth.ts.  (Accounts of different users     *)
(* share nothing.)  The login callback writes the same row.                *)
(*                                                                         *)
(* GitLab is external: it issues pairs of an access and a refresh token,   *)
(* a refresh token belongs to the grant of one login, and, when it rotates *)
(* refresh tokens, a refresh spends the one it is given and answers with   *)
(* another; when it does not, the answer has none.                         *)
(***************************************************************************)
EXTENDS Integers, FiniteSets

CONSTANTS
  Pairs,       \* token pairs GitLab can issue
  Grants,      \* logins at GitLab
  Calls,       \* concurrent getAccessToken() calls and login callbacks
  None,
  Never,       \* an expiresAt of null
  TTL,         \* expires_in of an access token
  Skew,        \* TOKEN_REFRESH_SKEW_SECONDS
  MaxTime,     \* bound on the clock
  MaxFaults    \* bound on failed statements and lost messages

ASSUME ProviderAssumption ==
  /\ TTL \in Nat /\ Skew \in Nat /\ MaxTime \in Nat /\ MaxFaults \in Nat
  /\ Never \notin Nat /\ None \notin Pairs

VARIABLES
  account,     \* the user's OAuthAccount row
  calls,       \* the calls in progress
  issued,      \* GitLab: the pairs it has issued
  revoked,     \* GitLab: grants the user has revoked
  rotates,     \* GitLab: does a refresh answer with a new refresh token?
  dated,       \* GitLab: do its answers have created_at?
  lost,        \* history: pairs issued to a call that failed before it wrote them
  now, faults

vars == <<account, calls, issued, revoked, rotates, dated, lost, now, faults>>

Expiry == Nat \cup {Never}

Account == [access : Pairs, refresh : Pairs \cup {None}, expiresAt : Expiry]

Issued == [grant : Grants, expiresAt : Expiry, spent : BOOLEAN]

\* "send": about to POST; "wire": GitLab has served it, its answer is under way;
\* "store", "upsert": holds the answer, about to write it.
Busy == {"send", "wire", "store", "upsert"}
Results == {"token", "unauthenticated", "token_expired", "error", "connected"}

Call == [pc : {"idle"} \cup Busy \cup Results,
         account : Account \cup {None},      \* the row read, stale from then on
         access : Pairs \cup {None},         \* the pair GitLab answered with
         expiresAt : Expiry \cup {None}]     \* what expiresAtFrom made of it

IdleCall == [pc |-> "idle", account |-> None, access |-> None, expiresAt |-> None]

\* null is neither a row nor a time.
ASSUME NullAssumption == None \notin Account \cup Issued \cup Expiry

TypeOK ==
  /\ account \in Account \cup {None}
  /\ calls \in [Calls -> Call]
  /\ issued \in [Pairs -> Issued \cup {None}]
  /\ revoked \subseteq Grants /\ lost \subseteq Pairs
  /\ rotates \in BOOLEAN /\ dated \in BOOLEAN
  /\ now \in 0..MaxTime /\ faults \in 0..MaxFaults
  /\ \A c \in Calls :
       /\ calls[c].pc \in {"send", "store"} => calls[c].account \in Account
       /\ calls[c].pc = "send" => calls[c].account.refresh # None
       /\ calls[c].pc \in {"wire", "store", "upsert"} =>
            calls[c].access # None /\ issued[calls[c].access] # None
       /\ calls[c].pc \in {"store", "upsert"} => calls[c].expiresAt # None

Init ==
  /\ account = None
  /\ calls = [c \in Calls |-> IdleCall]
  /\ issued = [p \in Pairs |-> None]
  /\ revoked = {} /\ lost = {}
  /\ rotates \in BOOLEAN /\ dated \in BOOLEAN
  /\ now = 0 /\ faults = 0

-----------------------------------------------------------------------------
(* GitLab                                                                  *)

Unused(g) == \A p \in Pairs : issued[p] # None => issued[p].grant # g

\* Does a refresh with the refresh token of pair p succeed?
Renewable(p) == issued[p] # None /\ ~issued[p].spent /\ issued[p].grant \notin revoked

\* expires_in may be missing from an answer (gitlabOAuth.ts:50).
Expiries == {now + TTL, Never}

\* Pair q answers a refresh with p.
Answer(p, q, e) ==
  [x \in Pairs |->
     CASE x = q -> [grant |-> issued[p].grant, expiresAt |-> e, spent |-> ~rotates]
       [] x = p /\ rotates -> [issued[p] EXCEPT !.spent = TRUE]
       [] OTHER -> issued[x]]

-----------------------------------------------------------------------------
(* getAccessToken                                                          *)

\* mutant: the skew is not counted
NoSkew(e) == e # Never /\ e - now < 0

NeedsRefresh(e) == e # Never /\ e - now <= Skew

Unchecked(a) == FALSE                             \* mutant: no refresh-token check

Unrefreshable(a) == a.refresh = None

\* getDecrypted, and the branches on what it returned.
GetAccount(c) ==
  /\ calls[c].pc = "idle"
  /\ calls' = [calls EXCEPT ![c] =
       [pc |-> IF account = None THEN "unauthenticated"
               ELSE IF ~NeedsRefresh(account.expiresAt) THEN "token"
               ELSE IF Unrefreshable(account) THEN "token_expired"
               ELSE "send",
        account |-> account, expiresAt |-> None,
        access |-> IF account = None THEN None ELSE account.access]]
  /\ UNCHANGED <<account, issued, revoked, rotates, dated, lost, now, faults>>

\* GitLab serves the POST with the refresh token that was read.
Refresh(c, q, e) ==
  /\ calls[c].pc = "send"
  /\ LET p == calls[c].account.refresh IN
     /\ Renewable(p)
     /\ issued[q] = None
     /\ issued' = Answer(p, q, e)
  /\ calls' = [calls EXCEPT ![c].pc = "wire", ![c].access = q]
  /\ UNCHANGED <<account, revoked, rotates, dated, lost, now, faults>>

\* expiresAtFrom: from created_at or, without it, from the clock at the arrival.
ExpiresAtFrom(e) ==
  IF e = Never THEN Never ELSE IF dated THEN e ELSE now + TTL

\* The answer arrives, to a refresh or (no row was read) to a login.
Receive(c) ==
  /\ calls[c].pc = "wire"
  /\ calls' = [calls EXCEPT
       ![c].pc = IF calls[c].account = None THEN "upsert" ELSE "store",
       ![c].expiresAt = ExpiresAtFrom(issued[calls[c].access].expiresAt)]
  /\ UNCHANGED <<account, issued, revoked, rotates, dated, lost, now, faults>>

\* GitLab refuses it (res.ok is false): every error becomes token_expired.
Refuse(c) ==
  /\ calls[c].pc = "send"
  /\ ~Renewable(calls[c].account.refresh)
  /\ calls' = [calls EXCEPT ![c].pc = "token_expired"]
  /\ UNCHANGED <<account, issued, revoked, rotates, dated, lost, now, faults>>

\* mutant: the refresh token of the answer is not stored
OldRefresh(c) == calls[c].account.refresh

\* mutant: "refreshToken: tokens.refresh_token ?? undefined"
ColumnRefresh(c) == IF rotates THEN calls[c].access ELSE account.refresh

\* tokens.refresh_token ?? account.refreshToken
StoredRefresh(c) == IF rotates THEN calls[c].access ELSE calls[c].account.refresh

StoredExpiry(c) == calls[c].expiresAt

\* updateTokens, whatever has become of the row since it was read.
Store(c) ==
  /\ calls[c].pc = "store"
  /\ account' = [access |-> calls[c].access, refresh |-> StoredRefresh(c),
                 expiresAt |-> StoredExpiry(c)]
  /\ calls' = [calls EXCEPT ![c].pc = "token"]
  /\ UNCHANGED <<issued, revoked, rotates, dated, lost, now, faults>>

\* Pairs whose calls in C have them from GitLab and will not write them.
Lost(C) ==
  lost \cup {calls[c].access : c \in {d \in C : calls[d].pc \in {"wire", "store", "upsert"}}}

\* The POST, its answer or the UPDATE fails: token_expired, like a refusal.  Before
\* the try block (getDecrypted), and in a login: an error.
Fault(c) ==
  /\ faults < MaxFaults
  /\ faults' = faults + 1
  /\ calls[c].pc \in {"idle"} \cup Busy
  /\ calls' = [calls EXCEPT ![c].pc =
       IF @ # "idle" /\ calls[c].account # None THEN "token_expired" ELSE "error"]
  /\ lost' = Lost({c})
  /\ UNCHANGED <<account, issued, revoked, rotates, dated, now>>

\* The process ends: every call in progress is gone, the row stays.
Die ==
  /\ faults < MaxFaults
  /\ faults' = faults + 1
  /\ \E c \in Calls : calls[c].pc \in Busy
  /\ calls' = [c \in Calls |-> IdleCall]
  /\ lost' = Lost(Calls)
  /\ UNCHANGED <<account, issued, revoked, rotates, dated, now>>

-----------------------------------------------------------------------------
(* The login callback, and the environment                                 *)

\* exchangeCode: GitLab issues the first pair of a grant.
Exchange(c, g, q, e) ==
  /\ calls[c].pc = "idle"
  /\ Unused(g) /\ g \notin revoked /\ issued[q] = None
  /\ issued' = [issued EXCEPT ![q] = [grant |-> g, expiresAt |-> e, spent |-> FALSE]]
  /\ calls' = [calls EXCEPT ![c] = [IdleCall EXCEPT !.pc = "wire", !.access = q]]
  /\ UNCHANGED <<account, revoked, rotates, dated, lost, now, faults>>

\* accounts.upsert
Upsert(c) ==
  /\ calls[c].pc = "upsert"
  /\ \E r \in {None, calls[c].access} :     \* refresh_token ?? null
       account' = [access |-> calls[c].access, refresh |-> r, expiresAt |-> StoredExpiry(c)]
  /\ calls' = [calls EXCEPT ![c].pc = "connected"]
  /\ UNCHANGED <<issued, revoked, rotates, dated, lost, now, faults>>

\* The result is returned.
Settle(c) ==
  /\ calls[c].pc \in Results
  /\ calls' = [calls EXCEPT ![c] = IdleCall]
  /\ UNCHANGED <<account, issued, revoked, rotates, dated, lost, now, faults>>

\* The user withdraws the application's authorization at GitLab.
RevokeGrant(g) ==
  /\ ~Unused(g) /\ g \notin revoked
  /\ revoked' = revoked \cup {g}
  /\ UNCHANGED <<account, calls, issued, rotates, dated, lost, now, faults>>

Tick ==
  /\ now < MaxTime
  /\ now' = now + 1
  /\ UNCHANGED <<account, calls, issued, revoked, rotates, dated, lost, faults>>

Next ==
  \/ \E c \in Calls :
       \/ GetAccount(c) \/ Refuse(c) \/ Receive(c) \/ Store(c) \/ Fault(c) \/ Upsert(c) \/ Settle(c)
       \/ \E q \in Pairs, e \in Expiries :
            Refresh(c, q, e) \/ \E g \in Grants : Exchange(c, g, q, e)
  \/ \E g \in Grants : RevokeGrant(g)
  \/ Die \/ Tick

Spec == Init /\ [][Next]_vars

-----------------------------------------------------------------------------
(* Properties                                                              *)

\* The row's access token, refresh token and expiry belong together, whatever
\* logins and refreshes overwrite each other: both tokens are of one grant, and
\* the expiry is the one GitLab gave for that access token, or later by the time its
\* answer took when GitLab does not date it.
RowCoherent ==
  account # None =>
    /\ LET e == issued[account.access].expiresAt IN
         IF dated \/ Never \in {e, account.expiresAt}
         THEN account.expiresAt = e ELSE account.expiresAt >= e
    /\ account.refresh # None =>
         issued[account.refresh].grant = issued[account.access].grant

\* A token handed out without a refresh is good for more than the skew, by
\* GitLab's own account of it, however long GitLab's answer was under way (when the
\* answer is dated, as GitLab's are).
HandedOutFresh ==
  [][\A c \in Calls : dated /\ calls[c].pc = "idle" /\ calls'[c].pc = "token" =>
       LET e == issued[calls'[c].access].expiresAt IN e = Never \/ e > now + Skew]_vars

\* The row keeps a refresh token that GitLab has spent only because the pair that
\* replaced it was lost on the way to the row, by a failure or a crash between
\* GitLab's step and the UPDATE: no interleaving of refreshes and logins alone gets
\* there, and a login, which begins another grant, repairs it.
SpentOnlyIfLost ==
  /\ account # None /\ account.refresh # None
  /\ issued[account.refresh].spent
  /\ \A c \in Calls : calls[c].pc \in {"wire", "store"} /\ calls[c].account # None =>
       calls[c].account.refresh # account.refresh
  => \E p \in lost : issued[p].grant = issued[account.refresh].grant

\* docs/oauth.md:100-101: "Users do not need to re-authenticate unless the refresh
\* token itself is revoked or expires": nobody is told to log in again while the
\* row holds a refresh token GitLab would accept.
NoNeedlessLogin ==
  \A c \in Calls : calls[c].pc = "token_expired" /\ faults = 0 =>
    account = None \/ account.refresh = None \/ ~Renewable(account.refresh)

=============================================================================
