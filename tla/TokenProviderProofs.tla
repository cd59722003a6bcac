-------------------------- MODULE TokenProviderProofs --------------------------
(***************************************************************************)
(* Proofs about TokenProvider, for every number of token pairs, logins and *)
(* concurrent calls, every lifetime and skew, and every bound on the clock *)
(* and on faults.                                                          *)
(***************************************************************************)
EXTENDS TokenProvider, TLAPS

\* The expiry e of something written down, for one that GitLab gave as g.
Exact(e, g) == IF dated \/ Never \in {g, e} THEN e = g ELSE e >= g

\* What a call has from GitLab and has not written yet.
InHand(c) == calls[c].pc \in {"wire", "store", "upsert"}

\* A call whose answer will be written with its own refresh token.
Held(c) == InHand(c) /\ (rotates \/ calls[c].account = None)

\* A refresh token p that was read or written is one GitLab issued, and good for
\* ever when GitLab does not rotate (but for a revocation).
Good(p) == p # None => issued[p] # None /\ (~rotates => ~issued[p].spent)

\* No expiry lies further ahead than a lifetime.
Times ==
  \A p \in Pairs : issued[p] # None => issued[p].expiresAt = Never \/ issued[p].expiresAt <= now + TTL

RowKnown == account # None => issued[account.access] # None /\ Good(account.refresh)

ReadsKnown == \A c \in Calls : calls[c].account # None => Good(calls[c].account.refresh)

\* An answer to a refresh is of the grant of the refresh token that was sent, and
\* carries its expiry; an answer to a login came with nothing read.
Answered ==
  \A c \in Calls :
    /\ calls[c].pc \in {"store", "upsert"} =>
         Exact(calls[c].expiresAt, issued[calls[c].access].expiresAt)
    /\ InHand(c) /\ calls[c].account # None =>
         /\ calls[c].pc # "upsert"
         /\ calls[c].account.refresh # None
         /\ issued[calls[c].access].grant = issued[calls[c].account.refresh].grant

\* A new refresh token that is under way is unspent, and known to its call alone.
HeldAlone ==
  \A c \in Calls : Held(c) =>
    /\ ~issued[calls[c].access].spent
    /\ account # None => account.refresh # calls[c].access
    /\ \A d \in Calls :
         /\ calls[d].account # None => calls[d].account.refresh # calls[c].access
         /\ d # c /\ InHand(d) => calls[d].access # calls[c].access

LostIssued == \A p \in lost : issued[p] # None

ProviderInv ==
  /\ TypeOK /\ Times
  /\ RowKnown /\ ReadsKnown /\ Answered /\ HeldAlone /\ LostIssued
  /\ RowCoherent /\ SpentOnlyIfLost

\* getDecrypted reads a row that is known and coherent.
LEMMA GetAccountKeeps ==
  ASSUME ProviderInv, NEW c \in Calls, GetAccount(c)
  PROVE  ProviderInv'
<1> USE ProviderAssumption, NullAssumption DEF ProviderInv
<1>1. TypeOK'
  BY SMT DEF GetAccount, Unrefreshable, TypeOK, Call, Account, Busy, Results
<1>2. ReadsKnown'
  BY SMT DEF GetAccount, ReadsKnown, Good, RowKnown
<1>3. Answered'
  BY SMT DEF GetAccount, Answered, InHand, Exact
<1>4. HeldAlone'
  BY SMT DEF GetAccount, HeldAlone, Held, InHand
<1>5. SpentOnlyIfLost'
  BY SMT DEF GetAccount, SpentOnlyIfLost
<1>6. Times' /\ RowKnown' /\ LostIssued' /\ RowCoherent'
  BY DEF GetAccount, Times, RowKnown, Good, LostIssued, RowCoherent
<1> QED  BY <1>1, <1>2, <1>3, <1>4, <1>5, <1>6

\* A call that is given a program counter and one more field is a call.
LEMMA CallUpdates ==
  ASSUME NEW f \in [Calls -> Call], NEW c \in Calls, NEW s \in Busy
  PROVE  /\ \A p \in Pairs : [f EXCEPT ![c].pc = s, ![c].access = p] \in [Calls -> Call]
         /\ \A e \in Expiry : [f EXCEPT ![c].pc = s, ![c].expiresAt = e] \in [Calls -> Call]
BY ZenonT(40) DEF Call

\* The expiry that is made of an answer is GitLab's, or later when it is not dated:
\* GitLab counted from an earlier time.
LEMMA ReceiveKeeps ==
  ASSUME ProviderInv, NEW c \in Calls, Receive(c)
  PROVE  ProviderInv'
<1> USE ProviderAssumption, NullAssumption DEF ProviderInv
<1> DEFINE g == issued[calls[c].access].expiresAt
           e == ExpiresAtFrom(g)
           s == IF calls[c].account = None THEN "upsert" ELSE "store"
<1>1. g \in Expiry /\ (g = Never \/ g <= now + TTL) /\ now \in Nat
  BY SMT DEF Receive, TypeOK, Call, Issued, Times
<1>2. e \in Expiry /\ e # None /\ Exact(e, g)
  BY <1>1, SMTT(30) DEF ExpiresAtFrom, Exact, Expiry
<1>3. /\ calls' = [calls EXCEPT ![c].pc = s, ![c].expiresAt = e]
      /\ s \in {"store", "upsert"}
      /\ s = "upsert" <=> calls[c].account = None
  BY SMTT(30) DEF Receive
<1> HIDE DEF e, s
<1>4. TypeOK'
  <2>1. calls' \in [Calls -> Call]
    <3>1. calls \in [Calls -> Call] /\ s \in Busy
      BY <1>3 DEF TypeOK, Busy
    <3> QED  BY CallUpdates, <1>2, <1>3, <3>1
  <2>2. \A d \in Calls : calls'[d].account = calls[d].account /\ calls'[d].access = calls[d].access
    BY <1>3, SMT DEF TypeOK, Call
  <2>3. s = "store" => calls[c].account \in Account
    BY <1>3, SMT DEF TypeOK, Call
  <2>4. \A d \in Calls : d # c => calls'[d] = calls[d]
    BY <1>3 DEF TypeOK
  <2>5. calls'[c].pc = s /\ calls'[c].expiresAt = e
    BY <1>3, SMTT(30) DEF TypeOK, Call
  <2> QED  BY <1>2, <1>3, <2>1, <2>2, <2>3, <2>4, <2>5, SMT DEF Receive, TypeOK
<1>5. Answered'
  BY <1>2, <1>3, SMT DEF Receive, TypeOK, Call, Answered, InHand, Exact
<1>6. HeldAlone'
  BY <1>3, SMT DEF Receive, TypeOK, HeldAlone, Held, InHand
<1>7. SpentOnlyIfLost'
  BY <1>3, SMT DEF Receive, TypeOK, SpentOnlyIfLost
<1>8. ReadsKnown'
  BY <1>3, SMT DEF Receive, TypeOK, ReadsKnown, Good
<1>9. Times' /\ RowKnown' /\ LostIssued' /\ RowCoherent'
  BY SMT DEF Receive, Times, RowKnown, Good, LostIssued, RowCoherent
<1> QED  BY <1>4, <1>5, <1>6, <1>7, <1>8, <1>9

\* A refusal changes no table.
LEMMA RefuseKeeps ==
  ASSUME ProviderInv, NEW c \in Calls, Refuse(c)
  PROVE  ProviderInv'
<1> USE ProviderAssumption, NullAssumption DEF ProviderInv
<1>1. TypeOK'
  BY SMT DEF Refuse, TypeOK, Call, Results
<1>2. ReadsKnown'
  BY SMT DEF Refuse, ReadsKnown, Good
<1>3. Answered'
  BY SMT DEF Refuse, Answered, InHand, Exact
<1>4. HeldAlone'
  BY SMT DEF Refuse, HeldAlone, Held, InHand
<1>5. SpentOnlyIfLost'
  BY SMT DEF Refuse, SpentOnlyIfLost
<1>6. Times' /\ RowKnown' /\ LostIssued' /\ RowCoherent'
  BY DEF Refuse, Times, RowKnown, Good, LostIssued, RowCoherent
<1> QED  BY <1>1, <1>2, <1>3, <1>4, <1>5, <1>6

\* updateTokens writes a pair of one grant, whatever the row was; a new refresh token
\* is one nobody else has, so it is unspent.
LEMMA StoreKeeps ==
  ASSUME ProviderInv, NEW c \in Calls, Store(c)
  PROVE  ProviderInv'
<1> USE ProviderAssumption, NullAssumption DEF ProviderInv
<1>1. TypeOK'
  <2>1. calls' \in [Calls -> Call]
    BY SMT DEF Store, TypeOK, Call, Results
  <2>2. account' \in Account \cup {None} /\ issued' \in [Pairs -> Issued \cup {None}]
    BY SMT DEF Store, StoredRefresh, StoredExpiry, TypeOK, Call, Account
  <2>3. /\ revoked' \subseteq Grants /\ lost' \subseteq Pairs
        /\ now' \in 0..MaxTime /\ faults' \in 0..MaxFaults
    BY SMT DEF Store, TypeOK
  <2>4. ASSUME NEW d \in Calls PROVE
          /\ calls'[d].pc \in {"send", "store"} => calls'[d].account \in Account
          /\ calls'[d].pc = "send" => calls'[d].account.refresh # None
          /\ calls'[d].pc \in {"wire", "store", "upsert"} =>
               calls'[d].access # None /\ issued'[calls'[d].access] # None
          /\ calls'[d].pc \in {"store", "upsert"} => calls'[d].expiresAt # None
    BY SMT DEF Store, TypeOK
  <2> QED  BY <2>1, <2>2, <2>3, <2>4 DEF Store, TypeOK
<1>2. RowKnown'
  BY SMT DEF Store, StoredRefresh, TypeOK, RowKnown, Good, ReadsKnown
<1>3. ReadsKnown'
  BY SMT DEF Store, ReadsKnown, Good
<1>4. Answered'
  BY SMT DEF Store, Answered, InHand, Exact
<1>5. HeldAlone'
  BY SMT DEF Store, StoredRefresh, TypeOK, HeldAlone, Held, InHand
<1>6. RowCoherent'
  BY SMT DEF Store, StoredRefresh, StoredExpiry, TypeOK, RowCoherent, Answered, Exact, InHand
<1>7. SpentOnlyIfLost'
  BY SMT DEF Store, StoredRefresh, TypeOK, SpentOnlyIfLost, ReadsKnown, Good, HeldAlone, Held,
             InHand
<1>8. Times' /\ LostIssued'
  BY DEF Store, Times, LostIssued
<1> QED  BY <1>1, <1>2, <1>3, <1>4, <1>5, <1>6, <1>7, <1>8

\* The login's upsert writes the first pair of a grant.
LEMMA UpsertKeeps ==
  ASSUME ProviderInv, NEW c \in Calls, Upsert(c)
  PROVE  ProviderInv'
<1> USE ProviderAssumption, NullAssumption DEF ProviderInv
<1>1. TypeOK'
  <2>1. calls' \in [Calls -> Call]
    BY SMT DEF Upsert, TypeOK, Call, Results
  <2>2. account' \in Account \cup {None} /\ issued' \in [Pairs -> Issued \cup {None}]
    BY SMT DEF Upsert, StoredExpiry, TypeOK, Call, Account
  <2>3. /\ revoked' \subseteq Grants /\ lost' \subseteq Pairs
        /\ now' \in 0..MaxTime /\ faults' \in 0..MaxFaults
    BY SMT DEF Upsert, TypeOK
  <2>4. ASSUME NEW d \in Calls PROVE
          /\ calls'[d].pc \in {"send", "store"} => calls'[d].account \in Account
          /\ calls'[d].pc = "send" => calls'[d].account.refresh # None
          /\ calls'[d].pc \in {"wire", "store", "upsert"} =>
               calls'[d].access # None /\ issued'[calls'[d].access] # None
          /\ calls'[d].pc \in {"store", "upsert"} => calls'[d].expiresAt # None
    BY SMT DEF Upsert, TypeOK
  <2> QED  BY <2>1, <2>2, <2>3, <2>4 DEF Upsert, TypeOK
<1>2. RowKnown'
  BY SMT DEF Upsert, TypeOK, RowKnown, Good, HeldAlone, Held, InHand, Answered
<1>3. ReadsKnown'
  BY SMT DEF Upsert, ReadsKnown, Good
<1>4. Answered'
  BY SMT DEF Upsert, Answered, InHand, Exact
<1>5. HeldAlone'
  <2>1. PICK r \in {None, calls[c].access} :
          account' = [access |-> calls[c].access, refresh |-> r, expiresAt |-> StoredExpiry(c)]
    BY DEF Upsert
  <2>2. calls[c].account = None
    BY DEF Upsert, Answered, InHand
  <2> QED  BY <2>1, <2>2, SMT DEF Upsert, TypeOK, HeldAlone, Held, InHand
<1>6. RowCoherent'
  BY SMT DEF Upsert, StoredExpiry, RowCoherent, Answered, Exact
<1>7. SpentOnlyIfLost'
  BY SMT DEF Upsert, SpentOnlyIfLost, Answered, HeldAlone, Held, InHand
<1>8. Times' /\ LostIssued'
  BY DEF Upsert, Times, LostIssued
<1> QED  BY <1>1, <1>2, <1>3, <1>4, <1>5, <1>6, <1>7, <1>8

\* A call that fails with a pair in hand leaves it among the lost.
LEMMA FaultKeeps ==
  ASSUME ProviderInv, NEW c \in Calls, Fault(c)
  PROVE  ProviderInv'
<1> USE ProviderAssumption, NullAssumption DEF ProviderInv
<1>1. TypeOK'
  <2>1. calls' \in [Calls -> Call]
    BY SMT DEF Fault, TypeOK, Call, Results
  <2>2. account' \in Account \cup {None} /\ issued' \in [Pairs -> Issued \cup {None}]
    BY SMT DEF Fault, TypeOK
  <2>3. /\ revoked' \subseteq Grants /\ lost' \subseteq Pairs
        /\ now' \in 0..MaxTime /\ faults' \in 0..MaxFaults
    BY SMT DEF Fault, Lost, TypeOK, Call
  <2>4. ASSUME NEW d \in Calls PROVE
          /\ calls'[d].pc \in {"send", "store"} => calls'[d].account \in Account
          /\ calls'[d].pc = "send" => calls'[d].account.refresh # None
          /\ calls'[d].pc \in {"wire", "store", "upsert"} =>
               calls'[d].access # None /\ issued'[calls'[d].access] # None
          /\ calls'[d].pc \in {"store", "upsert"} => calls'[d].expiresAt # None
    BY SMT DEF Fault, TypeOK
  <2> QED  BY <2>1, <2>2, <2>3, <2>4 DEF Fault, TypeOK
<1>2. ReadsKnown'
  BY SMT DEF Fault, ReadsKnown, Good
<1>3. Answered'
  BY SMT DEF Fault, Answered, InHand, Exact
<1>4. HeldAlone'
  BY SMT DEF Fault, HeldAlone, Held, InHand
<1>5. LostIssued'
  BY SMT DEF Fault, Lost, TypeOK, LostIssued
<1>6. SpentOnlyIfLost'
  BY SMT DEF Fault, Lost, SpentOnlyIfLost, Answered, InHand
<1>7. Times' /\ RowKnown' /\ RowCoherent'
  BY DEF Fault, Times, RowKnown, Good, RowCoherent
<1> QED  BY <1>1, <1>2, <1>3, <1>4, <1>5, <1>6, <1>7

\* The end of the process loses every pair in hand.
LEMMA DieKeeps ==
  ASSUME ProviderInv, Die
  PROVE  ProviderInv'
<1> USE ProviderAssumption, NullAssumption DEF ProviderInv
<1>1. TypeOK'
  <2>1. calls' \in [Calls -> Call]
    BY SMT DEF Die, IdleCall, Call
  <2>2. account' \in Account \cup {None} /\ issued' \in [Pairs -> Issued \cup {None}]
    BY SMT DEF Die, TypeOK
  <2>3. /\ revoked' \subseteq Grants /\ lost' \subseteq Pairs
        /\ now' \in 0..MaxTime /\ faults' \in 0..MaxFaults
    BY SMT DEF Die, Lost, TypeOK, Call
  <2>4. ASSUME NEW d \in Calls PROVE
          /\ calls'[d].pc \in {"send", "store"} => calls'[d].account \in Account
          /\ calls'[d].pc = "send" => calls'[d].account.refresh # None
          /\ calls'[d].pc \in {"wire", "store", "upsert"} =>
               calls'[d].access # None /\ issued'[calls'[d].access] # None
          /\ calls'[d].pc \in {"store", "upsert"} => calls'[d].expiresAt # None
    BY SMT DEF Die, IdleCall
  <2> QED  BY <2>1, <2>2, <2>3, <2>4 DEF Die, TypeOK
<1>2. ReadsKnown'
  BY SMT DEF Die, IdleCall, ReadsKnown
<1>3. Answered'
  BY SMT DEF Die, IdleCall, Answered
<1>4. HeldAlone'
  BY SMT DEF Die, IdleCall, HeldAlone, Held, InHand
<1>5. LostIssued'
  BY SMT DEF Die, Lost, TypeOK, LostIssued
<1>6. SpentOnlyIfLost'
  BY SMT DEF Die, Lost, SpentOnlyIfLost, Answered, InHand
<1>7. Times' /\ RowKnown' /\ RowCoherent'
  BY DEF Die, Times, RowKnown, Good, RowCoherent
<1> QED  BY <1>1, <1>2, <1>3, <1>4, <1>5, <1>6, <1>7

\* A call that returned had nothing in hand.
LEMMA SettleKeeps ==
  ASSUME ProviderInv, NEW c \in Calls, Settle(c)
  PROVE  ProviderInv'
<1> USE ProviderAssumption, NullAssumption DEF ProviderInv
<1>1. TypeOK'
  BY SMT DEF Settle, IdleCall, TypeOK, Call
<1>2. ReadsKnown'
  BY SMT DEF Settle, IdleCall, ReadsKnown, Good
<1>3. Answered'
  BY SMT DEF Settle, IdleCall, Answered, InHand, Exact
<1>4. HeldAlone'
  BY SMT DEF Settle, IdleCall, HeldAlone, Held, InHand
<1>5. SpentOnlyIfLost'
  BY SMT DEF Settle, Results, SpentOnlyIfLost
<1>6. Times' /\ RowKnown' /\ LostIssued' /\ RowCoherent'
  BY DEF Settle, Times, RowKnown, Good, LostIssued, RowCoherent
<1> QED  BY <1>1, <1>2, <1>3, <1>4, <1>5, <1>6

\* The revocation of a grant at GitLab changes no pair.
LEMMA RevokeGrantKeeps ==
  ASSUME ProviderInv, NEW g \in Grants, RevokeGrant(g)
  PROVE  ProviderInv'
<1> USE DEF ProviderInv
<1>1. TypeOK'
  BY SMT DEF RevokeGrant, TypeOK
<1>2. Times' /\ RowKnown' /\ ReadsKnown' /\ LostIssued' /\ RowCoherent' /\ SpentOnlyIfLost'
  BY DEF RevokeGrant, Times, RowKnown, ReadsKnown, Good, LostIssued, RowCoherent, SpentOnlyIfLost
<1>3. Answered' /\ HeldAlone'
  BY DEF RevokeGrant, Answered, HeldAlone, Held, InHand, Exact
<1> QED  BY <1>1, <1>2, <1>3

\* The clock leaves the expiries where they are.
LEMMA TickKeeps ==
  ASSUME ProviderInv, Tick
  PROVE  ProviderInv'
<1> USE ProviderAssumption DEF ProviderInv
<1>1. TypeOK'
  BY SMT DEF Tick, TypeOK
<1>2. Times'
  BY SMT DEF Tick, Times, TypeOK, Issued, Expiry
<1>3. RowKnown' /\ ReadsKnown' /\ LostIssued' /\ RowCoherent' /\ SpentOnlyIfLost'
  BY DEF Tick, RowKnown, ReadsKnown, Good, LostIssued, RowCoherent, SpentOnlyIfLost
<1>4. Answered' /\ HeldAlone'
  BY DEF Tick, Answered, HeldAlone, Held, InHand, Exact
<1> QED  BY <1>1, <1>2, <1>3, <1>4

\* GitLab serves a refresh: what it had issued stays as it was, but for the refresh
\* token it was given, which is spent if it rotates.  That token was read from the
\* row, so it is not the one of a pair still under way.
LEMMA RefreshKeeps ==
  ASSUME ProviderInv, NEW c \in Calls, NEW q \in Pairs, NEW e \in Expiries, Refresh(c, q, e)
  PROVE  ProviderInv'
<1> USE ProviderAssumption, NullAssumption DEF ProviderInv
<1> DEFINE p == calls[c].account.refresh
<1>1. /\ p \in Pairs /\ p # q /\ issued[p] # None /\ issued[q] = None
      /\ ~issued[p].spent /\ issued[p] \in Issued
      /\ calls[c].pc = "send" /\ calls[c].account # None
  BY SMT DEF Refresh, Renewable, TypeOK, Account
<1>2. e \in Expiry /\ (e = Never \/ e <= now + TTL) /\ now \in Nat
  BY SMTT(30) DEF Expiries, TypeOK, Expiry
<1>3. /\ issued' = [x \in Pairs |-> issued'[x]]
      /\ issued'[q] = [grant |-> issued[p].grant, expiresAt |-> e, spent |-> ~rotates]
      /\ rotates => issued'[p] = [issued[p] EXCEPT !.spent = TRUE]
      /\ \A x \in Pairs : x # q /\ ~(x = p /\ rotates) => issued'[x] = issued[x]
  BY <1>1 DEF Refresh, Answer
<1>4. /\ issued'[q] \in Issued
      /\ issued'[q].grant = issued[p].grant
      /\ issued'[q].expiresAt = e
      /\ rotates => ~issued'[q].spent
  BY <1>1, <1>2, <1>3 DEF Issued
<1>5. rotates => /\ issued'[p] \in Issued
                 /\ issued'[p].grant = issued[p].grant
                 /\ issued'[p].expiresAt = issued[p].expiresAt
  BY <1>1, <1>3 DEF Issued
<1>6. /\ issued' \in [Pairs -> Issued \cup {None}]
      /\ issued'[q] # None
  <2>1. ASSUME NEW x \in Pairs PROVE issued'[x] \in Issued \cup {None}
    BY <1>3, <1>4, <1>5 DEF TypeOK
  <2> QED  BY <1>3, <1>4, <2>1
<1>7. \A x \in Pairs : issued[x] # None =>
        /\ x # q
        /\ issued'[x] # None
        /\ issued'[x].grant = issued[x].grant
        /\ issued'[x].expiresAt = issued[x].expiresAt
        /\ ~(x = p /\ rotates) => issued'[x].spent = issued[x].spent
  BY <1>1, <1>3, <1>5
<1>8. /\ calls' = [calls EXCEPT ![c].pc = "wire", ![c].access = q]
      /\ calls' \in [Calls -> Call]
      /\ UNCHANGED <<account, revoked, rotates, dated, lost, now, faults>>
  <2>1. calls \in [Calls -> Call] /\ "wire" \in Busy
    BY DEF TypeOK, Busy
  <2> QED  BY CallUpdates, <2>1 DEF Refresh
<1>9. /\ calls'[c].pc = "wire" /\ calls'[c].access = q
      /\ \A d \in Calls : calls'[d].account = calls[d].account /\ calls'[d].expiresAt = calls[d].expiresAt
      /\ \A d \in Calls : d # c => calls'[d] = calls[d]
  BY <1>8, SMT DEF TypeOK, Call
<1> HIDE DEF p
<1>10. TypeOK'
  BY <1>4, <1>6, <1>7, <1>8, <1>9, SMT DEF TypeOK, Call
<1>11. Times'
  <2>1. \A x \in Pairs : issued'[x] # None => x = q \/ issued[x] # None
    BY <1>1, <1>3
  <2> QED  BY <1>2, <1>4, <1>7, <1>8, <2>1 DEF Times
<1>12. RowKnown'
  BY <1>7, <1>8, SMT DEF RowKnown, Good, TypeOK, Account
<1>13. ReadsKnown'
  BY <1>7, <1>8, <1>9, SMT DEF ReadsKnown, Good, TypeOK, Call, Account
<1>14. Answered'
  <2>1. \A d \in Calls : InHand(d) => calls[d].access \in Pairs /\ issued[calls[d].access] # None
    BY SMT DEF TypeOK, Call, InHand
  <2>2. \A d \in Calls : calls[d].account # None /\ calls[d].account.refresh # None =>
          calls[d].account.refresh \in Pairs /\ issued[calls[d].account.refresh] # None
    BY SMT DEF TypeOK, Call, Account, ReadsKnown, Good
  <2>3. ASSUME NEW d \in Calls, calls'[d].pc \in {"store", "upsert"}
        PROVE  Exact(calls[d].expiresAt, issued[calls[d].access].expiresAt)'
    BY <1>7, <1>8, <1>9, <2>1, <2>3 DEF Answered, InHand, Exact
  <2>4. ASSUME NEW d \in Calls, InHand(d)', calls'[d].account # None
        PROVE  /\ calls'[d].pc # "upsert"
               /\ calls'[d].account.refresh # None
               /\ issued'[calls'[d].access].grant = issued'[calls'[d].account.refresh].grant
    <3>1. CASE d = c
      BY <1>1, <1>4, <1>7, <1>9, <3>1 DEF p
    <3>2. CASE d # c
      BY <1>7, <1>9, <2>1, <2>2, <2>4, <3>2, SMTT(30) DEF Answered, InHand
    <3> QED  BY <3>1, <3>2
  <2> QED  BY <2>3, <2>4 DEF Answered
<1>15. HeldAlone'
  <2>1. \A d \in Calls : calls[d].account # None => calls[d].account.refresh # q
    BY <1>1, SMT DEF ReadsKnown, Good
  <2>2. account # None => account.refresh # q
    BY <1>1, SMT DEF RowKnown, Good
  <2>3. \A d \in Calls : InHand(d) => calls[d].access \in Pairs /\ issued[calls[d].access] # None
    BY SMT DEF TypeOK, Call, InHand
  <2>4. \A d \in Calls : Held(d) => calls[d].access # p
    BY <1>1 DEF HeldAlone, p
  <2>5. ~InHand(c) /\ InHand(c)' /\ (Held(c)' => rotates)
    BY <1>1, <1>8, <1>9 DEF InHand, Held
  <2>6. \A d \in Calls : d # c => (InHand(d)' <=> InHand(d)) /\ (Held(d)' <=> Held(d))
    BY <1>8, <1>9 DEF InHand, Held
  <2>7. ASSUME NEW d \in Calls, Held(d)' PROVE ~issued'[calls'[d].access].spent
    BY <1>4, <1>6, <1>7, <1>9, <2>3, <2>4, <2>5, <2>6, <2>7, SMT DEF HeldAlone, Held
  <2>8. ASSUME NEW d \in Calls, Held(d)'
        PROVE  /\ account' # None => account'.refresh # calls'[d].access
               /\ \A x \in Calls :
                    /\ calls'[x].account # None => calls'[x].account.refresh # calls'[d].access
                    /\ x # d /\ InHand(x)' => calls'[x].access # calls'[d].access
    BY <1>1, <1>8, <1>9, <2>1, <2>2, <2>3, <2>6, <2>8, SMT DEF HeldAlone, Held
  <2> QED  BY <2>7, <2>8 DEF HeldAlone
<1>16. LostIssued'
  BY <1>7, <1>8, SMT DEF LostIssued, TypeOK
<1>17. RowCoherent'
  BY <1>7, <1>8, SMT DEF RowCoherent, RowKnown, Good, TypeOK, Account
<1>18. SpentOnlyIfLost'
  BY <1>1, <1>7, <1>8, <1>9, SMT DEF SpentOnlyIfLost, RowKnown, Good, LostIssued, TypeOK, Account,
                                     p
<1> QED  BY <1>10, <1>11, <1>12, <1>13, <1>14, <1>15, <1>16, <1>17, <1>18

\* A login's first pair is of a new grant, and known to the login's call alone.
LEMMA ExchangeKeeps ==
  ASSUME ProviderInv, NEW c \in Calls, NEW g \in Grants, NEW q \in Pairs, NEW e \in Expiries,
         Exchange(c, g, q, e)
  PROVE  ProviderInv'
<1> USE ProviderAssumption, NullAssumption DEF ProviderInv
<1>1. e \in Expiry /\ (e = Never \/ e <= now + TTL)
  BY SMT DEF Expiries, TypeOK, Expiry
<1>2. TypeOK'
  <2>1. [IdleCall EXCEPT !.pc = "wire", !.access = q] \in Call
    BY DEF IdleCall, Call, Busy
  <2>2. [grant |-> g, expiresAt |-> e, spent |-> FALSE] \in Issued
    BY <1>1 DEF Issued
  <2>3. issued' \in [Pairs -> Issued \cup {None}]
    BY <2>2, SMT DEF Exchange, TypeOK
  <2>4. calls' \in [Calls -> Call]
    BY <2>1, SMT DEF Exchange, TypeOK
  <2>5. issued' = [issued EXCEPT ![q] = [grant |-> g, expiresAt |-> e, spent |-> FALSE]]
    BY DEF Exchange
  <2>6. issued'[q] # None /\ \A x \in Pairs : issued[x] # None => issued'[x] # None
    BY <2>2, <2>5 DEF TypeOK
  <2>7. calls'[c].pc = "wire" /\ calls'[c].access = q
    BY SMT DEF Exchange, IdleCall, TypeOK
  <2>8. \A d \in Calls : d # c => calls'[d] = calls[d]
    BY SMT DEF Exchange, TypeOK
  <2> QED  BY <2>3, <2>4, <2>6, <2>7, <2>8, SMT DEF Exchange, TypeOK, Call
<1>3. Times'
  BY <1>1, SMT DEF Exchange, Times, TypeOK
<1>4. RowKnown' /\ RowCoherent'
  BY SMT DEF Exchange, RowKnown, Good, RowCoherent
<1>5. ReadsKnown'
  BY SMT DEF Exchange, IdleCall, ReadsKnown, Good
<1>6. Answered'
  BY SMT DEF Exchange, IdleCall, TypeOK, Answered, InHand, Exact, ReadsKnown, Good
<1>7. HeldAlone'
  BY SMT DEF Exchange, IdleCall, TypeOK, HeldAlone, Held, InHand, ReadsKnown, RowKnown, Good
<1>8. LostIssued'
  BY SMT DEF Exchange, TypeOK, LostIssued
<1>9. SpentOnlyIfLost'
  BY SMT DEF Exchange, SpentOnlyIfLost, LostIssued
<1> QED  BY <1>2, <1>3, <1>4, <1>5, <1>6, <1>7, <1>8, <1>9

-----------------------------------------------------------------------------

\* At the start there is no row, no call and no pair.
LEMMA InitHolds ==
  ASSUME Init
  PROVE  ProviderInv
<1> USE ProviderAssumption, NullAssumption
<1>1. TypeOK
  BY SMT DEF Init, TypeOK, Call, IdleCall
<1>2. Times /\ RowKnown /\ LostIssued /\ RowCoherent /\ SpentOnlyIfLost
  BY DEF Init, Times, RowKnown, LostIssued, RowCoherent, SpentOnlyIfLost
<1>3. ReadsKnown /\ Answered /\ HeldAlone
  BY SMT DEF Init, IdleCall, ReadsKnown, Answered, HeldAlone, Held, InHand
<1> QED  BY <1>1, <1>2, <1>3 DEF ProviderInv

LEMMA StepKeeps ==
  ASSUME ProviderInv, [Next]_vars
  PROVE  ProviderInv'
<1>1. ASSUME NEW c \in Calls,
             \/ GetAccount(c) \/ Refuse(c) \/ Receive(c) \/ Store(c)
             \/ Fault(c) \/ Upsert(c) \/ Settle(c)
      PROVE  ProviderInv'
  BY <1>1, GetAccountKeeps, RefuseKeeps, ReceiveKeeps, StoreKeeps, FaultKeeps, UpsertKeeps, SettleKeeps
<1>2. ASSUME NEW c \in Calls, NEW q \in Pairs, NEW e \in Expiries,
             Refresh(c, q, e) \/ \E g \in Grants : Exchange(c, g, q, e)
      PROVE  ProviderInv'
  BY <1>2, RefreshKeeps, ExchangeKeeps
<1>3. ASSUME \/ \E g \in Grants : RevokeGrant(g)
             \/ Die \/ Tick
      PROVE  ProviderInv'
  BY <1>3, RevokeGrantKeeps, DieKeeps, TickKeeps
<1>4. CASE UNCHANGED vars
  BY <1>4 DEF vars, ProviderInv, TypeOK, Times, RowKnown, ReadsKnown, Good, Answered, HeldAlone,
              Held, InHand, Exact, LostIssued, RowCoherent, SpentOnlyIfLost
<1> QED  BY <1>1, <1>2, <1>3, <1>4 DEF Next

\* Whatever refreshes and logins overwrite each other, and whatever is lost.
THEOREM ProviderInvariance == Spec => []ProviderInv
<1>1. Init => ProviderInv
  BY InitHolds
<1>2. ProviderInv /\ [Next]_vars => ProviderInv'
  BY StepKeeps
<1> QED  BY <1>1, <1>2, PTL DEF Spec

\* The row, the calls and GitLab's side have their types.
THEOREM ProviderTypes == Spec => []TypeOK
<1>1. ProviderInv => TypeOK
  BY DEF ProviderInv
<1> QED  BY <1>1, ProviderInvariance, PTL

\* The three fields of the row belong together.
THEOREM CoherentRow == Spec => []RowCoherent
<1>1. ProviderInv => RowCoherent
  BY DEF ProviderInv
<1> QED  BY <1>1, ProviderInvariance, PTL

\* Only a failure leaves a spent refresh token in the row.
THEOREM NoSpentToken == Spec => []SpentOnlyIfLost
<1>1. ProviderInv => SpentOnlyIfLost
  BY DEF ProviderInv
<1> QED  BY <1>1, ProviderInvariance, PTL

\* Only a row that was just read yields a token at once.
LEMMA AtOnce ==
  ASSUME TypeOK, [Next]_vars, NEW c \in Calls, calls[c].pc = "idle", calls'[c].pc = "token"
  PROVE  GetAccount(c)
<1>1. ASSUME NEW d \in Calls, d # c, GetAccount(d) PROVE FALSE
  BY <1>1, SMT DEF GetAccount, TypeOK
<1>2. ASSUME NEW d \in Calls, Refuse(d) \/ Fault(d) \/ Settle(d) PROVE FALSE
  <2>1. ~Refuse(d)
    BY SMT DEF Refuse, TypeOK, Call
  <2>2. ~Fault(d)
    BY SMT DEF Fault, TypeOK, Call
  <2>3. ~Settle(d)
    BY SMT DEF Settle, IdleCall, TypeOK
  <2> QED  BY <1>2, <2>1, <2>2, <2>3
<1>3. ASSUME NEW d \in Calls, Receive(d) \/ Store(d) \/ Upsert(d) PROVE FALSE
  <2>1. ~Receive(d)
    BY SMT DEF Receive, TypeOK, Call
  <2>2. ~Store(d)
    BY SMT DEF Store, TypeOK, Call
  <2>3. ~Upsert(d)
    BY SMT DEF Upsert, TypeOK, Call
  <2> QED  BY <1>3, <2>1, <2>2, <2>3
<1>4. ASSUME NEW d \in Calls, NEW q \in Pairs, NEW e \in Expiries, Refresh(d, q, e) PROVE FALSE
  BY <1>4, SMT DEF Refresh, TypeOK, Call
<1>5. ASSUME NEW d \in Calls, NEW g \in Grants, NEW q \in Pairs, NEW e \in Expiries,
             Exchange(d, g, q, e)
      PROVE  FALSE
  BY <1>5, SMT DEF Exchange
<1>6. ASSUME NEW g \in Grants, RevokeGrant(g) PROVE FALSE
  BY <1>6, SMT DEF RevokeGrant
<1>7. ASSUME Die PROVE FALSE
  BY <1>7, SMT DEF Die, IdleCall
<1>8. ASSUME Tick \/ UNCHANGED vars PROVE FALSE
  BY <1>8 DEF Tick, vars
<1> QED  BY <1>1, <1>2, <1>3, <1>4, <1>5, <1>6, <1>7, <1>8 DEF Next

\* A call that is told "token" at once was given the row's, which has more than the
\* skew to go.
LEMMA FreshStep ==
  ASSUME ProviderInv, [Next]_vars, NEW c \in Calls,
         dated, calls[c].pc = "idle", calls'[c].pc = "token"
  PROVE  LET e == issued[calls'[c].access].expiresAt IN e = Never \/ e > now + Skew
<1> USE ProviderAssumption, NullAssumption DEF ProviderInv
<1>1. GetAccount(c)
  BY AtOnce
<1>2. account # None /\ calls'[c].access = account.access /\ ~NeedsRefresh(account.expiresAt)
  BY <1>1, SMT DEF GetAccount, TypeOK
<1>3. account.expiresAt = issued[account.access].expiresAt
  BY <1>2, SMT DEF RowCoherent
<1> QED  BY <1>2, <1>3, SMT DEF NeedsRefresh, TypeOK, Account, Expiry

\* A token handed out without a refresh is good for more than the skew.
THEOREM FreshOut == Spec => HandedOutFresh
<1>1. ProviderInv /\ [Next]_vars =>
        [\A c \in Calls : dated /\ calls[c].pc = "idle" /\ calls'[c].pc = "token" =>
           LET e == issued[calls'[c].access].expiresAt IN e = Never \/ e > now + Skew]_vars
  BY FreshStep
<1> QED  BY <1>1, ProviderInvariance, PTL DEF Spec, HandedOutFresh

=============================================================================
