----------------------------- MODULE LoginPromise -----------------------------
(***************************************************************************)
(* What the login flow promises of each login, whatever tables, cookies,   *)
(* requests and sweeps it is made of: a login is begun by one browser, is  *)
(* claimed once, yields one session, and that session, or a code for it,   *)
(* is handed once, to the browser that began it.  A code is exchanged      *)
(* after that, at most once.  A login that ended does not come back.       *)
(***************************************************************************)
EXTENDS Integers

CONSTANTS Logins, Browsers, None

VARIABLE login

Phases == {"none", "begun", "claimed", "granted", "delivered", "exchanged", "ended"}

\* A login: how far it is, who began it, who was handed its result, its sessions.
Login == [phase : Phases, owner : Browsers \cup {None}, to : SUBSET Browsers, sessions : 0..1]

NoLogin == [phase |-> "none", owner |-> None, to |-> {}, sessions |-> 0]

Begun(l) == {[l EXCEPT !.phase = "begun", !.owner = b] : b \in Browsers}

Claimed(l) == [l EXCEPT !.phase = "claimed"]

Granted(l) == [l EXCEPT !.phase = "granted", !.sessions = 1]

Delivered(l) == [l EXCEPT !.phase = "delivered", !.to = {l.owner}]

Exchanged(l) == [l EXCEPT !.phase = "exchanged"]

Ended(l) == [l EXCEPT !.phase = "ended"]

\* What may become of l in a step.
Successors(l) ==
  CASE l.phase = "none"      -> Begun(l)
    [] l.phase = "begun"     -> {Claimed(l), Ended(l)}
    [] l.phase = "claimed"   -> {Granted(l), Ended(l)}
    [] l.phase = "granted"   -> {Delivered(l), Ended(l)}
    [] l.phase = "delivered" -> {Exchanged(l)}
    [] OTHER                 -> {}

Init == login = [x \in Logins |-> NoLogin]

\* Several logins may end at once: the process dies, or expired rows are swept.
Next ==
  /\ DOMAIN login' = Logins
  /\ \A x \in Logins : login'[x] \in {login[x]} \cup Successors(login[x])

Spec == Init /\ [][Next]_login

=============================================================================
