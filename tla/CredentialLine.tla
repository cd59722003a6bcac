---------------------------- MODULE CredentialLine ----------------------------
(***************************************************************************)
(* What the endpoints promise of a login's credentials, whatever tables,   *)
(* statements and schedules they are made of: a login, named by its first  *)
(* session, goes on along one line.  A line is carried by one thing at a   *)
(* time, the request that logged in, the code it made, the request that    *)
(* took the code, a refresh token, the request that spent it, the next     *)
(* refresh token, and so on; it is handed on or ended, never split and     *)
(* never resumed.  A session is made by a login, or once by a request that *)
(* carried a line from one refresh token to the next; it is of the user    *)
(* who logged in, and once it is revoked it stays so.                      *)
(***************************************************************************)
CONSTANTS Users, Clients, SessionTokens, Codes, Tokens, Calls, None

VARIABLES
  user,    \* the user of each session ever made
  alive,   \* the sessions that are not revoked
  links,   \* what carries on each login, for which client
  drawn,   \* the codes and refresh tokens ever made
  due      \* requests owed a session, and for which login

vars == <<user, alive, links, drawn, due>>

InRequest == {"begun", "exchanging", "rotating"}   \* carried by a request
AtClient == {"coded", "kept"}                      \* by a code, by a refresh token

Link == [login : SessionTokens, at : InRequest \cup AtClient,
         by : Calls \cup Codes \cup Tokens, client : Clients \cup {None}]

TypeOK ==
  /\ user \in [SessionTokens -> Users \cup {None}]
  /\ alive \subseteq SessionTokens
  /\ links \subseteq Link
  /\ drawn \subseteq Codes \cup Tokens
  /\ due \subseteq [request : Calls, login : SessionTokens]

Init ==
  /\ user = [s \in SessionTokens |-> None]
  /\ alive = {} /\ links = {} /\ drawn = {} /\ due = {}

Free(c) ==
  /\ \A a \in links : a.at \in InRequest => a.by # c
  /\ \A d \in due : d.request # c

MakeSession(s, u) ==
  /\ user[s] = None
  /\ user' = [user EXCEPT ![s] = u]
  /\ alive' = alive \cup {s}

Carried(l, at, x, cl) == [login |-> l, at |-> at, by |-> x, client |-> cl]

\* The line a goes on at the place at, carried by x.
Pass(a, at, x) == links' = (links \ {a}) \cup {Carried(a.login, at, x, a.client)}

Draw(x) == x \notin drawn /\ drawn' = drawn \cup {x}

Login(c, u, s) ==
  /\ Free(c)
  /\ MakeSession(s, u)
  /\ links' = links \cup {Carried(s, "begun", c, None)}
  /\ UNCHANGED <<drawn, due>>

\* The code is for the client whose request was parked.
MakeCode(a, k, cl) ==
  /\ a.at = "begun" /\ Draw(k)
  /\ links' = (links \ {a}) \cup {Carried(a.login, "coded", k, cl)}
  /\ UNCHANGED <<user, alive, due>>

TakeCode(a, c) ==
  /\ a.at = "coded" /\ Free(c)
  /\ Pass(a, "exchanging", c)
  /\ UNCHANGED <<user, alive, drawn, due>>

Exchange(a, t) ==
  /\ a.at = "exchanging" /\ Draw(t)
  /\ Pass(a, "kept", t)
  /\ UNCHANGED <<user, alive, due>>

Spend(a, c) ==
  /\ a.at = "kept" /\ Free(c)
  /\ Pass(a, "rotating", c)
  /\ UNCHANGED <<user, alive, drawn, due>>

\* The request that hands the line to the next refresh token is owed a session.
Succeed(a, t) ==
  /\ a.at = "rotating" /\ Draw(t)
  /\ Pass(a, "kept", t)
  /\ due' = due \cup {[request |-> a.by, login |-> a.login]}
  /\ UNCHANGED <<user, alive>>

Renew(d, s) ==
  /\ MakeSession(s, user[d.login])
  /\ due' = due \ {d}
  /\ UNCHANGED <<links, drawn>>

\* The request fails, or its client is not the token's.
Forgo(d) ==
  /\ due' = due \ {d}
  /\ UNCHANGED <<user, alive, links, drawn>>

\* Lines end: by a revocation, a sweep, a refusal or a failure.
End(A) ==
  /\ links' = links \ A
  /\ UNCHANGED <<user, alive, drawn, due>>

Revoke(S) ==
  /\ alive' = alive \ S
  /\ UNCHANGED <<user, links, drawn, due>>

Next ==
  \/ \E c \in Calls, u \in Users, s \in SessionTokens : Login(c, u, s)
  \/ \E a \in links :
       \/ \E k \in Codes, cl \in Clients : MakeCode(a, k, cl)
       \/ \E c \in Calls : TakeCode(a, c) \/ Spend(a, c)
       \/ \E t \in Tokens : Exchange(a, t) \/ Succeed(a, t)
  \/ \E d \in due : Forgo(d) \/ \E s \in SessionTokens : Renew(d, s)
  \/ \E A \in SUBSET links : End(A)
  \/ \E S \in SUBSET alive : Revoke(S)

Spec == Init /\ [][Next]_vars

-----------------------------------------------------------------------------
(* What follows from it                                                    *)

\* A login has at most one usable code or refresh token, or request about to make
\* one: nothing that is handed out to two.
OneLine == \A a, b \in links : a.login = b.login => a = b

\* Nothing of the user is alive, or about to be.
Over(u) ==
  /\ \A s \in alive : user[s] # u
  /\ \A a \in links : user[a.login] # u
  /\ \A d \in due : user[d.login] # u

\* A user of whom nothing is alive gets nothing but by a login.
OnlyLoginBegins ==
  [][\A u \in Users : Over(u) =>
       \/ Over(u)'
       \/ \E c \in Calls, s \in SessionTokens : Login(c, u, s)]_vars

=============================================================================
