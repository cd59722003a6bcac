-------------------------- MODULE RefreshTokenService --------------------------
(***************************************************************************)
(* src/auth/refreshTokenService.ts over                                    *)
(* src/repositories/oauthRefreshTokenRepository.ts.                        *)
(*                                                                         *)
(* A step is one SQL statement: the repository opens no transaction, so    *)
(* concurrent requests interleave between any two awaits of rotate().      *)
(* The table is keyed by the raw token (sha256 is taken as injective), and *)
(* randomToken() draws a token, or a family id, that no row carries yet.   *)
(* Rows are never deleted.                                                 *)
(***************************************************************************)
EXTENDS Integers, FiniteSets

CONSTANTS
  Users, Clients, Tokens, Families,
  Calls,        \* concurrent invocations of rotate()
  None,         \* the null of a lookup
  RefreshTTL,   \* OAUTH_REFRESH_TTL_HOURS
  MaxTime       \* bound on the clock

Row == [user : Users, client : Clients, family : Families,
        expiresAt : Nat, revoked : BOOLEAN]

ASSUME NoneAssumption == None \notin Row /\ None \notin Tokens
ASSUME TimeAssumption == RefreshTTL \in Nat /\ MaxTime \in Nat

VARIABLES
  rows,    \* table OAuthRefreshToken: raw token -> row, None if absent
  calls,   \* each rotate() call: where it is and what it has read
  now      \* the clock

vars == <<rows, calls, now>>

(***************************************************************************)
(* A rotate() call is idle, about to run one of its statements ("consume", *)
(* "kill", "mint"), or has settled with one of Results: the promise        *)
(* resolved to "unknown", "reuse" or "rotated", or rejected ("failed").    *)
(***************************************************************************)
Working == {"consume", "kill", "mint"}
Results == {"unknown", "reuse", "rotated", "failed"}

Call == [pc : {"idle"} \cup Working \cup Results,
         token : Tokens \cup {None},   \* oldToken
         row : Row \cup {None},        \* the row findByHash returned
         next : Tokens \cup {None}]    \* the token of the result

IdleCall == [pc |-> "idle", token |-> None, row |-> None, next |-> None]

TypeOK ==
  /\ rows \in [Tokens -> Row \cup {None}]
  /\ calls \in [Calls -> Call]
  /\ now \in 0..MaxTime
  /\ \A c \in Calls :
       calls[c].pc \in Working \cup {"reuse", "rotated"} =>
         calls[c].row \in Row /\ calls[c].token \in Tokens

Init ==
  /\ rows = [t \in Tokens |-> None]
  /\ calls = [c \in Calls |-> IdleCall]
  /\ now = 0

-----------------------------------------------------------------------------
(* Repository and helpers                                                  *)

NewRow(u, cl, f) ==
  [user |-> u, client |-> cl, family |-> f,
   expiresAt |-> now + RefreshTTL, revoked |-> FALSE]

FreshToken(t) == rows[t] = None

AnyFamily(f) == TRUE                              \* mutant: family id reused

FreshFamily(f) == \A t \in Tokens : rows[t] # None => rows[t].family # f

\* The three updateMany statements: set revokedAt on the rows selected.
Revoked(T) ==
  [t \in Tokens |-> IF t \in T /\ rows[t] # None
                    THEN [rows[t] EXCEPT !.revoked = TRUE]
                    ELSE rows[t]]

FamilyRows(f) == {t \in Tokens : rows[t] # None /\ rows[t].family = f}
UserRows(u)   == {t \in Tokens : rows[t] # None /\ rows[t].user = u}

\* updateMany without its "revokedAt: null" condition: the stale read decides.
StaleWon(c) == ~calls[c].row.revoked              \* mutant: lost update

\* revokeByHash's count: 1 iff the row is still unrevoked when it runs.
Won(c) == ~rows[calls[c].token].revoked

Goto(c, pc) == [calls EXCEPT ![c].pc = pc]

\* validate(token): a lookup that changes nothing; a state predicate here.
Valid(t) == rows[t] # None /\ ~rows[t].revoked /\ rows[t].expiresAt > now

-----------------------------------------------------------------------------
(* Operations                                                              *)

\* issue(): mint in a new family.
Issue(u, cl, f, t) ==
  /\ FreshToken(t) /\ FreshFamily(f)
  /\ rows' = [rows EXCEPT ![t] = NewRow(u, cl, f)]
  /\ UNCHANGED <<calls, now>>

\* revoke(token)
Revoke(t) ==
  /\ rows' = Revoked({t})
  /\ UNCHANGED <<calls, now>>

\* revokeAllForUser(userId)
RevokeAllForUser(u) ==
  /\ rows' = Revoked(UserRows(u))
  /\ UNCHANGED <<calls, now>>

\* mutant: the lookup's miss is not handled
UnguardedBranch(t) == IF rows[t] # None /\ rows[t].revoked THEN "kill" ELSE "consume"

\* mutant: a revoked token is refused like an unknown one
SilentBranch(t) == IF rows[t] = None \/ rows[t].revoked THEN "unknown" ELSE "consume"

\* Where rotate() goes after findByHash.  The row's expiresAt is not consulted.
Branch(t) ==
  IF rows[t] = None THEN "unknown"
  ELSE IF rows[t].revoked THEN "kill" ELSE "consume"

\* rotate(), first statement: findByHash and the branch on what it returned.
RotateFind(c, t) ==
  /\ calls[c].pc = "idle"
  /\ calls' = [calls EXCEPT ![c] =
       [pc |-> Branch(t), token |-> t, row |-> rows[t], next |-> None]]
  /\ UNCHANGED <<rows, now>>

\* The atomic consume; losing the race is treated as reuse.
RotateConsume(c) ==
  /\ calls[c].pc = "consume"
  /\ rows' = Revoked({calls[c].token})
  /\ calls' = Goto(c, IF Won(c) THEN "mint" ELSE "kill")
  /\ UNCHANGED now

\* revokeFamily, on either reuse path; returns { reuse: true } and nothing else.
RotateKill(c) ==
  /\ calls[c].pc = "kill"
  /\ rows' = Revoked(FamilyRows(calls[c].row.family))
  /\ calls' = Goto(c, "reuse")
  /\ UNCHANGED now

\* mutant: the successor is bound to whichever user the caller names
MintedFor(c) == {NewRow(u, calls[c].row.client, calls[c].row.family) : u \in Users}

\* What mint() stores for a rotation: the identity of the row that was read.
MintRows(c) ==
  {NewRow(calls[c].row.user, calls[c].row.client, calls[c].row.family)}

\* mint: the successor, in the same family.
RotateMint(c, t) ==
  /\ calls[c].pc = "mint"
  /\ FreshToken(t)
  /\ \E r \in MintRows(c) : rows' = [rows EXCEPT ![t] = r]
  /\ calls' = [calls EXCEPT ![c].pc = "rotated", ![c].next = t]
  /\ UNCHANGED now

\* A statement rejects, or the process goes down, before the next statement
\* takes effect: nothing already written is undone.
RotateFail(c) ==
  /\ calls[c].pc \in Working
  /\ calls' = Goto(c, "failed")
  /\ UNCHANGED <<rows, now>>

\* The caller has taken the result.
Return(c) ==
  /\ calls[c].pc \in Results
  /\ calls' = [calls EXCEPT ![c] = IdleCall]
  /\ UNCHANGED <<rows, now>>

Tick ==
  /\ now < MaxTime
  /\ now' = now + 1
  /\ UNCHANGED <<rows, calls>>

Next ==
  \/ \E u \in Users, cl \in Clients, f \in Families, t \in Tokens : Issue(u, cl, f, t)
  \/ \E t \in Tokens : Revoke(t)
  \/ \E u \in Users : RevokeAllForUser(u)
  \/ \E c \in Calls, t \in Tokens : RotateFind(c, t) \/ RotateMint(c, t)
  \/ \E c \in Calls : RotateConsume(c) \/ RotateKill(c) \/ RotateFail(c) \/ Return(c)
  \/ Tick

Spec == Init /\ [][Next]_vars

-----------------------------------------------------------------------------
(* Properties                                                              *)

Live(t) == rows[t] # None /\ ~rows[t].revoked

Minting(c) == calls[c].pc = "mint"

\* A family has at most one usable token, counting the one a call that won the
\* consume is about to create: whatever two requests do between the lookup, the
\* consume and the mint, the chain never forks.
AtMostOneActive ==
  /\ \A s, t \in Tokens :
       Live(s) /\ Live(t) /\ rows[s].family = rows[t].family => s = t
  /\ \A c \in Calls, t \in Tokens :
       Minting(c) /\ Live(t) => rows[t].family # calls[c].row.family
  /\ \A c, d \in Calls :
       Minting(c) /\ Minting(d) /\ calls[c].row.family = calls[d].row.family => c = d

\* "Exactly one caller can flip revokedAt": of all calls in flight that presented
\* one token, at most one rotates it, and the token is revoked by then.
SingleWinner ==
  \A c, d \in Calls :
    /\ calls[c].pc \in {"mint", "rotated"} => rows[calls[c].token].revoked
    /\ /\ calls[c].pc \in {"mint", "rotated"} /\ calls[d].pc \in {"mint", "rotated"}
       /\ calls[c].token = calls[d].token
       => c = d

\* The whole chain belongs to the user and the client it was first issued to,
\* and a rotation's result continues the chain of the token it was given.
FamilyBinding ==
  /\ \A s, t \in Tokens :
       rows[s] # None /\ rows[t] # None /\ rows[s].family = rows[t].family =>
         rows[s].user = rows[t].user /\ rows[s].client = rows[t].client
  /\ \A c \in Calls : calls[c].pc = "rotated" =>
       /\ calls[c].next \in Tokens /\ rows[calls[c].next] # None
       /\ rows[calls[c].next].family = rows[calls[c].token].family

\* A family that was started, has no usable token and no mint in flight.
Dead(f) ==
  /\ ~FreshFamily(f)
  /\ \A t \in Tokens : Live(t) => rows[t].family # f
  /\ \A c \in Calls : Minting(c) => calls[c].row.family # f

\* A dead family stays dead: a call that looked its token up while the family
\* was alive cannot bring the family back after a revocation.
DeadStaysDead == [][\A f \in Families : Dead(f) => Dead(f)']_vars

(* The rotation promise.                                                   *)
RF == INSTANCE RotationFamily WITH
  members <- [f \in Families |-> FamilyRows(f)],
  spent   <- {t \in Tokens : rows[t] # None /\ rows[t].revoked},
  minting <- {f \in Families : \E c \in Calls : Minting(c) /\ calls[c].row.family = f}

\* The service implements RotationFamily: each statement spends, mints, abandons
\* or revokes, or changes nothing the promise speaks of.
ImplementsRotation == RF!Spec

\* refreshTokenService.ts:12-13: on reuse "the entire family is revoked so
\* neither the attacker nor the legitimate client can keep rotating".
ReuseKillsFamily ==
  \A c \in Calls : calls[c].pc = "reuse" =>
    \A t \in Tokens : Live(t) => rows[t].family # calls[c].row.family

=============================================================================
