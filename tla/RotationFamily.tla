---------------------------- MODULE RotationFamily ----------------------------
(***************************************************************************)
(* What refresh-token rotation promises (src/auth/refreshTokenService.ts,  *)
(* header comment), with no table, no statement order and no callers: a    *)
(* family is a chain of tokens in which at most one token is usable, and   *)
(* the only way to a new token of a started family is to spend the one     *)
(* usable token.                                                           *)
(***************************************************************************)
EXTENDS Integers, FiniteSets

CONSTANTS Tokens, Families

VARIABLES
  members,   \* members[f]: every token ever issued in family f
  spent,     \* tokens that no longer rotate
  minting    \* families whose usable token was spent and not yet replaced

vars == <<members, spent, minting>>

Usable(f) == members[f] \ spent

Unissued(t) == \A f \in Families : t \notin members[f]

TypeOK ==
  /\ members \in [Families -> SUBSET Tokens]
  /\ spent \subseteq Tokens
  /\ minting \subseteq Families

Init ==
  /\ members = [f \in Families |-> {}]
  /\ spent = {}
  /\ minting = {}

\* The first token of a new family.
Start(f, t) ==
  /\ members[f] = {} /\ f \notin minting
  /\ Unissued(t) /\ t \notin spent
  /\ members' = [members EXCEPT ![f] = {t}]
  /\ UNCHANGED <<spent, minting>>

\* The usable token is spent by the one caller that will replace it.
Consume(f, t) ==
  /\ t \in Usable(f)
  /\ f \notin minting
  /\ spent' = spent \cup {t}
  /\ minting' = minting \cup {f}
  /\ UNCHANGED members

\* The replacement appears.
Mint(f, t) ==
  /\ f \in minting
  /\ Unissued(t) /\ t \notin spent
  /\ members' = [members EXCEPT ![f] = @ \cup {t}]
  /\ minting' = minting \ {f}
  /\ UNCHANGED spent

\* The caller dies between spending and replacing: the family is over.
Abandon(f) ==
  /\ f \in minting
  /\ minting' = minting \ {f}
  /\ UNCHANGED <<members, spent>>

\* Some issued tokens are revoked: one token, a family or all of a user's.
Revoke(T) ==
  /\ T \subseteq UNION {members[f] : f \in Families}
  /\ spent' = spent \cup T
  /\ UNCHANGED <<members, minting>>

Next ==
  \/ \E f \in Families, t \in Tokens : Start(f, t) \/ Consume(f, t) \/ Mint(f, t)
  \/ \E f \in Families : Abandon(f)
  \/ \E T \in SUBSET Tokens : Revoke(T)

Spec == Init /\ [][Next]_vars

\* A family never has two usable tokens, nor one while its replacement is being
\* minted: this is what makes a second use of any token detectable.
OneUsable ==
  \A f \in Families :
    /\ \A s, t \in Usable(f) : s = t
    /\ f \in minting => Usable(f) = {}

=============================================================================
