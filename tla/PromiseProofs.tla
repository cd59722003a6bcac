------------------------------ MODULE PromiseProofs ------------------------------
(***************************************************************************)
(* What the two promises made of refresh tokens entail, under every step   *)
(* they allow: RotationFamily's of the service, CredentialLine's of the    *)
(* endpoints.                                                              *)
(***************************************************************************)
EXTENDS Integers, FiniteSets, TLAPS

CONSTANTS Users, Clients, SessionTokens, Codes, Tokens, Families, Calls, None

VARIABLES members, spent, minting,          \* of a rotation
          user, alive, links, drawn, due    \* of a line

RF == INSTANCE RotationFamily
CL == INSTANCE CredentialLine

-----------------------------------------------------------------------------
(* A family is a chain.                                                    *)

\* A chain never has two usable tokens, and none while its next one is being
\* minted, under every step the promise allows: the detectability of reuse that
\* the header of refreshTokenService.ts claims follows from the promise.
THEOREM ChainOfOne == RF!Spec => []RF!OneUsable
<1> DEFINE IInv == RF!TypeOK /\ RF!OneUsable
<1>1. RF!Init => IInv
  BY DEF RF!Init, RF!TypeOK, RF!OneUsable, RF!Usable
<1>2. IInv /\ [RF!Next]_(RF!vars) => IInv'
  <2> SUFFICES ASSUME RF!TypeOK, RF!OneUsable, [RF!Next]_(RF!vars)
               PROVE  RF!TypeOK' /\ RF!OneUsable'
    OBVIOUS
  <2>1. CASE UNCHANGED RF!vars
    BY <2>1 DEF RF!vars, RF!TypeOK, RF!OneUsable, RF!Usable
  <2>2. ASSUME NEW f \in Families, NEW t \in Tokens, RF!Start(f, t)
        PROVE  RF!TypeOK' /\ RF!OneUsable'
    BY <2>2 DEF RF!Start, RF!TypeOK, RF!OneUsable, RF!Usable
  <2>3. ASSUME NEW f \in Families, NEW t \in Tokens, RF!Consume(f, t)
        PROVE  RF!TypeOK' /\ RF!OneUsable'
    BY <2>3 DEF RF!Consume, RF!TypeOK, RF!OneUsable, RF!Usable
  <2>4. ASSUME NEW f \in Families, NEW t \in Tokens, RF!Mint(f, t)
        PROVE  RF!TypeOK' /\ RF!OneUsable'
    BY <2>4 DEF RF!Mint, RF!TypeOK, RF!OneUsable, RF!Usable
  <2>5. ASSUME NEW f \in Families, RF!Abandon(f)
        PROVE  RF!TypeOK' /\ RF!OneUsable'
    BY <2>5 DEF RF!Abandon, RF!TypeOK, RF!OneUsable, RF!Usable
  <2>6. ASSUME NEW T \in SUBSET Tokens, RF!Revoke(T)
        PROVE  RF!TypeOK' /\ RF!OneUsable'
    BY <2>6 DEF RF!Revoke, RF!TypeOK, RF!OneUsable, RF!Usable
  <2>7. QED
    BY <2>1, <2>2, <2>3, <2>4, <2>5, <2>6 DEF RF!Next
<1>3. IInv => RF!OneUsable
  OBVIOUS
<1>4. QED
  BY <1>1, <1>2, <1>3, PTL DEF RF!Spec

-----------------------------------------------------------------------------
(* A login goes on along one line.                                         *)

\* What is alive, carried or owed is of somebody.
Owned ==
  /\ \A s \in alive : user[s] # None
  /\ \A a \in links : user[a.login] # None
  /\ \A d \in due : user[d.login] # None

\* A request carries the line that a request is said to carry.
Held == \A a \in links : a.at \in CL!InRequest => a.by \in Calls

CLInv == CL!TypeOK /\ Owned /\ Held /\ CL!OneLine

\* A line handed on is the one line of its login still.
LEMMA PassedOn ==
  ASSUME CLInv, NEW a \in links, NEW at \in CL!InRequest \cup CL!AtClient,
         NEW x \in Calls \cup Codes \cup Tokens, NEW cl \in Clients \cup {None},
         at \in CL!InRequest => x \in Calls,
         links' = (links \ {a}) \cup {CL!Carried(a.login, at, x, cl)},
         user' = user
  PROVE  /\ links' \subseteq CL!Link
         /\ \A b \in links' : user'[b.login] # None
         /\ Held' /\ CL!OneLine'
<1> DEFINE b == CL!Carried(a.login, at, x, cl)
<1>1. a \in CL!Link /\ a.login \in SessionTokens
  BY DEF CLInv, CL!TypeOK, CL!Link
<1>2. b \in CL!Link /\ b.login = a.login /\ (b.at \in CL!InRequest => b.by \in Calls)
  BY <1>1 DEF CL!Carried, CL!Link
<1> HIDE DEF b
<1>3. links' = (links \ {a}) \cup {b}
  BY DEF b
<1> QED  BY <1>2, <1>3 DEF CLInv, CL!TypeOK, Owned, Held, CL!OneLine

\* A session made for a user leaves those of the others as they were.
LEMMA SessionAdded ==
  ASSUME CLInv, None \notin Users, NEW s \in SessionTokens, NEW u \in Users,
         CL!MakeSession(s, u)
  PROVE  /\ user' \in [SessionTokens -> Users \cup {None}]
         /\ alive' \subseteq SessionTokens
         /\ user'[s] = u /\ u # None
         /\ \A r \in SessionTokens : user[r] # None => r # s /\ user'[r] = user[r]
         /\ \A r \in alive' : user'[r] # None
BY DEF CLInv, CL!TypeOK, Owned, CL!MakeSession

LEMMA LineStart == CL!Init => CLInv
BY DEF CL!Init, CLInv, CL!TypeOK, Owned, Held, CL!OneLine

LEMMA LineKept ==
  ASSUME None \notin Users, CLInv, [CL!Next]_(CL!vars)
  PROVE  CLInv'
<1>0. /\ user \in [SessionTokens -> Users \cup {None}] /\ alive \subseteq SessionTokens
      /\ links \subseteq CL!Link /\ drawn \subseteq Codes \cup Tokens
      /\ due \subseteq [request : Calls, login : SessionTokens]
  BY DEF CLInv, CL!TypeOK
<1>1. CASE UNCHANGED CL!vars
  BY <1>1 DEF CL!vars, CLInv, CL!TypeOK, Owned, Held, CL!OneLine
<1>2. ASSUME NEW c \in Calls, NEW u \in Users, NEW s \in SessionTokens, CL!Login(c, u, s)
      PROVE  CLInv'
  <2> DEFINE b == CL!Carried(s, "begun", c, None)
  <2>1. CL!MakeSession(s, u) /\ links' = links \cup {b} /\ UNCHANGED <<drawn, due>>
    BY <1>2 DEF CL!Login
  <2>2. b \in CL!Link /\ b.login = s /\ b.by = c
    BY DEF CL!Carried, CL!Link, CL!InRequest
  <2> HIDE DEF b
  <2>3. \A a \in links : a.login \in SessionTokens /\ user[a.login] # None
    BY <1>0 DEF CL!Link, CLInv, Owned
  <2>4. \A d \in due : d.login \in SessionTokens /\ user[d.login] # None
    BY <1>0 DEF CLInv, Owned
  <2> QED  BY <1>0, <2>1, <2>2, <2>3, <2>4, SessionAdded
           DEF CLInv, CL!TypeOK, Owned, Held, CL!OneLine
<1>3. ASSUME NEW a \in links, NEW k \in Codes, NEW cl \in Clients, CL!MakeCode(a, k, cl)
      PROVE  CLInv'
  BY <1>0, <1>3, PassedOn
     DEF CL!MakeCode, CL!Draw, CL!AtClient, CL!InRequest, CLInv, CL!TypeOK, Owned
<1>4. ASSUME NEW a \in links, NEW c \in Calls, CL!TakeCode(a, c) \/ CL!Spend(a, c)
      PROVE  CLInv'
  <2>1. a.client \in Clients \cup {None}
    BY <1>0 DEF CL!Link
  <2> QED  BY <1>0, <1>4, <2>1, PassedOn
           DEF CL!TakeCode, CL!Spend, CL!Pass, CL!InRequest, CLInv, CL!TypeOK, Owned
<1>5. ASSUME NEW a \in links, NEW t \in Tokens, CL!Exchange(a, t)
      PROVE  CLInv'
  <2>1. a.client \in Clients \cup {None}
    BY <1>0 DEF CL!Link
  <2> QED  BY <1>0, <1>5, <2>1, PassedOn
           DEF CL!Exchange, CL!Pass, CL!Draw, CL!AtClient, CL!InRequest, CLInv, CL!TypeOK, Owned
<1>6. ASSUME NEW a \in links, NEW t \in Tokens, CL!Succeed(a, t)
      PROVE  CLInv'
  <2> DEFINE d == [request |-> a.by, login |-> a.login]
  <2>1. a.client \in Clients \cup {None} /\ a.login \in SessionTokens
    BY <1>0 DEF CL!Link
  <2>2. /\ a.at = "rotating" /\ CL!Draw(t) /\ CL!Pass(a, "kept", t)
        /\ due' = due \cup {d} /\ UNCHANGED <<user, alive>>
    BY <1>6 DEF CL!Succeed
  <2>3. d \in [request : Calls, login : SessionTokens] /\ user[d.login] # None
    BY <2>1, <2>2 DEF CLInv, Owned, Held, CL!InRequest
  <2> HIDE DEF d
  <2>4. /\ links' \subseteq CL!Link /\ \A b \in links' : user'[b.login] # None
        /\ Held' /\ CL!OneLine'
    BY <2>1, <2>2, PassedOn DEF CL!Pass, CL!InRequest, CL!AtClient
  <2>5. drawn' \subseteq Codes \cup Tokens
    BY <1>0, <2>2 DEF CL!Draw
  <2> QED  BY <1>0, <2>2, <2>3, <2>4, <2>5 DEF CLInv, CL!TypeOK, Owned
<1>7. ASSUME NEW d \in due, CL!Forgo(d)
      PROVE  CLInv'
  BY <1>7 DEF CL!Forgo, CLInv, CL!TypeOK, Owned, Held, CL!OneLine
<1>8. ASSUME NEW d \in due, NEW s \in SessionTokens, CL!Renew(d, s)
      PROVE  CLInv'
  <2>1. user[d.login] \in Users
    BY <1>0 DEF CLInv, Owned
  <2>2. CL!MakeSession(s, user[d.login]) /\ due' = due \ {d} /\ UNCHANGED <<links, drawn>>
    BY <1>8 DEF CL!Renew
  <2>3. \A a \in links : a.login \in SessionTokens /\ user[a.login] # None
    BY <1>0 DEF CL!Link, CLInv, Owned
  <2>4. \A e \in due : e.login \in SessionTokens /\ user[e.login] # None
    BY <1>0 DEF CLInv, Owned
  <2> QED  BY <1>0, <2>1, <2>2, <2>3, <2>4, SessionAdded
           DEF CLInv, CL!TypeOK, Owned, Held, CL!OneLine
<1>9. ASSUME NEW A \in SUBSET links, CL!End(A)
      PROVE  CLInv'
  BY <1>9 DEF CL!End, CLInv, CL!TypeOK, Owned, Held, CL!OneLine
<1>10. ASSUME NEW S \in SUBSET alive, CL!Revoke(S)
       PROVE  CLInv'
  BY <1>10 DEF CL!Revoke, CLInv, CL!TypeOK, Owned, Held, CL!OneLine
<1> QED
  BY <1>1, <1>2, <1>3, <1>4, <1>5, <1>6, <1>7, <1>8, <1>9, <1>10 DEF CL!Next

\* Under the promise a login has one usable credential or request at a time: a code or a
\* refresh token that two requests present is one line's, and one of them gets nothing.
THEOREM LineIsOne == None \notin Users => (CL!Spec => []CL!OneLine)
<1> SUFFICES ASSUME None \notin Users PROVE CL!Spec => []CL!OneLine
  OBVIOUS
<1>1. CLInv => CL!OneLine
  BY DEF CLInv
<1> QED  BY <1>1, LineStart, LineKept, PTL DEF CL!Spec

\* Under the promise a user who has nothing alive, nothing carried and nothing owed gets
\* nothing but by logging in: what a revocation or a logout ended does not come back.
THEOREM NothingResumes == None \notin Users => (CL!Spec => CL!OnlyLoginBegins)
<1> SUFFICES ASSUME None \notin Users PROVE CL!Spec => CL!OnlyLoginBegins
  OBVIOUS
<1> DEFINE Begins == \A u \in Users : CL!Over(u) =>
                       \/ CL!Over(u)'
                       \/ \E c \in Calls, s \in SessionTokens : CL!Login(c, u, s)
<1>1. CLInv /\ [CL!Next]_(CL!vars) => [Begins]_(CL!vars)
  <2> SUFFICES ASSUME CLInv, CL!Next, NEW u \in Users, CL!Over(u), ~CL!Over(u)'
               PROVE  \E c \in Calls, s \in SessionTokens : CL!Login(c, u, s)
    BY DEF CL!vars
  <2>1. /\ \A s \in alive : s \in SessionTokens /\ user[s] # u
        /\ \A a \in links : a.login \in SessionTokens /\ user[a.login] # u
        /\ \A d \in due : d.login \in SessionTokens /\ user[d.login] # u
    BY DEF CLInv, CL!TypeOK, CL!Link, CL!Over
  <2>2. ASSUME alive' \subseteq alive, user' = user, due' \subseteq due,
               \A b \in links' : \E a \in links : b.login = a.login
        PROVE  FALSE
    BY <2>1, <2>2 DEF CL!Over
  <2>3. ASSUME NEW s \in SessionTokens, NEW v \in Users, CL!MakeSession(s, v), v # u,
               due' \subseteq due, \A b \in links' : b \in links \/ b.login = s
        PROVE  FALSE
    <3>1. /\ user'[s] = v /\ \A r \in SessionTokens : user[r] # None => user'[r] = user[r]
          /\ alive' = alive \cup {s}
      BY <2>3, SessionAdded DEF CL!MakeSession
    <3>2. /\ \A r \in alive : user'[r] = user[r]
          /\ \A a \in links : user'[a.login] = user[a.login]
          /\ \A d \in due : user'[d.login] = user[d.login]
      BY <2>1, <3>1 DEF CLInv, Owned
    <3> QED  BY <2>1, <2>3, <3>1, <3>2 DEF CL!Over
  <2>4. ASSUME NEW c \in Calls, NEW v \in Users, NEW s \in SessionTokens, CL!Login(c, v, s)
        PROVE  v = u
    BY <2>3, <2>4 DEF CL!Login, CL!Carried
  <2>5. ASSUME NEW a \in links
        PROVE  /\ \A k \in Codes, cl \in Clients : ~CL!MakeCode(a, k, cl)
               /\ \A c \in Calls : ~CL!TakeCode(a, c) /\ ~CL!Spend(a, c)
               /\ \A t \in Tokens : ~CL!Exchange(a, t)
    BY <2>2, <2>5 DEF CL!MakeCode, CL!TakeCode, CL!Spend, CL!Exchange, CL!Pass, CL!Carried
  <2>6. ASSUME NEW a \in links, NEW t \in Tokens, CL!Succeed(a, t)
        PROVE  FALSE
    <3>1. /\ alive' = alive /\ user' = user
          /\ \A b \in links' : \E e \in links : b.login = e.login
          /\ \A d \in due' : d \in due \/ d.login = a.login
      BY <2>6 DEF CL!Succeed, CL!Pass, CL!Carried
    <3> QED  BY <2>1, <3>1 DEF CL!Over
  <2>7. ASSUME NEW d \in due, NEW s \in SessionTokens, CL!Renew(d, s)
        PROVE  FALSE
    <3>1. user[d.login] \in Users /\ user[d.login] # u
      BY <2>1 DEF CLInv, CL!TypeOK, Owned
    <3> QED  BY <2>3, <2>7, <3>1 DEF CL!Renew
  <2>8. /\ \A d \in due : ~CL!Forgo(d)
        /\ \A A \in SUBSET links : ~CL!End(A)
        /\ \A S \in SUBSET alive : ~CL!Revoke(S)
    BY <2>2 DEF CL!Forgo, CL!End, CL!Revoke
  <2> QED  BY <2>4, <2>5, <2>6, <2>7, <2>8 DEF CL!Next
<1> QED  BY <1>1, LineStart, LineKept, PTL DEF CL!Spec, CL!OnlyLoginBegins

=============================================================================
