---------------------- MODULE RefreshTokenServiceProofs ----------------------
(***************************************************************************)
(* Proofs about RefreshTokenService, for every number of users, clients,   *)
(* tokens, families and concurrent calls.                                  *)
(***************************************************************************)
EXTENDS RefreshTokenService, TLAPS

Started == Working \cup {"reuse", "rotated"}

\* What a call read at its lookup is still what the table says of its token,
\* revocation apart: rows are never deleted and their identity never changes.
CallRow ==
  \A c \in Calls : calls[c].pc \in Started =>
    /\ rows[calls[c].token] # None
    /\ rows[calls[c].token].user = calls[c].row.user
    /\ rows[calls[c].token].client = calls[c].row.client
    /\ rows[calls[c].token].family = calls[c].row.family

Inv == TypeOK /\ CallRow /\ AtMostOneActive /\ SingleWinner /\ FamilyBinding

-----------------------------------------------------------------------------
(* What an updateMany does to the table.                                   *)

\* An updateMany keeps every row, its identity and its type, and revokes
\* exactly the rows selected: the frame condition of the three revocations.
LEMMA RevokedFrame ==
  ASSUME rows \in [Tokens -> Row \cup {None}], NEW T, rows' = Revoked(T)
  PROVE  /\ rows' \in [Tokens -> Row \cup {None}]
         /\ \A t \in Tokens :
              /\ rows'[t] = None <=> rows[t] = None
              /\ rows[t] # None =>
                   /\ rows'[t].user = rows[t].user
                   /\ rows'[t].client = rows[t].client
                   /\ rows'[t].family = rows[t].family
                   /\ rows'[t].expiresAt = rows[t].expiresAt
                   /\ rows'[t].revoked <=> rows[t].revoked \/ t \in T
  <1>1. \A t \in Tokens : rows[t] # None =>
          /\ rows[t] \in Row
          /\ [rows[t] EXCEPT !.revoked = TRUE] \in Row
    BY DEF Row
  <1>2. \A t \in Tokens : rows'[t] \in Row \cup {None}
    BY <1>1 DEF Revoked
  <1>3. rows' \in [Tokens -> Row \cup {None}]
    BY <1>2 DEF Revoked
  <1>4. ASSUME NEW t \in Tokens
        PROVE  /\ rows'[t] = None <=> rows[t] = None
               /\ rows[t] # None =>
                   /\ rows'[t].user = rows[t].user
                   /\ rows'[t].client = rows[t].client
                   /\ rows'[t].family = rows[t].family
                   /\ rows'[t].expiresAt = rows[t].expiresAt
                   /\ rows'[t].revoked <=> rows[t].revoked \/ t \in T
    <2>1. CASE t \in T /\ rows[t] # None
      <3>1. rows'[t] = [rows[t] EXCEPT !.revoked = TRUE] /\ rows[t] \in Row
        BY <2>1, <1>1 DEF Revoked
      <3>2. rows'[t] # None
        BY <3>1, <1>1, <2>1, NoneAssumption
      <3>3. QED
        BY <2>1, <3>1, <3>2 DEF Row
    <2>2. CASE ~(t \in T /\ rows[t] # None)
      BY <2>2 DEF Revoked
    <2>3. QED
      BY <2>1, <2>2
  <1>5. QED
    BY <1>3, <1>4

\* A statement that only revokes preserves the invariant, as long as the calls
\* do not move: Revoke and RevokeAllForUser.
LEMMA RevokePreserves ==
  ASSUME Inv, NEW T, rows' = Revoked(T), UNCHANGED <<calls, now>>
  PROVE  Inv'
  <1>1. /\ rows' \in [Tokens -> Row \cup {None}]
        /\ \A t \in Tokens :
             /\ rows'[t] = None <=> rows[t] = None
             /\ rows[t] # None =>
                  /\ rows'[t].user = rows[t].user
                  /\ rows'[t].client = rows[t].client
                  /\ rows'[t].family = rows[t].family
                  /\ rows'[t].revoked <=> rows[t].revoked \/ t \in T
    BY RevokedFrame DEF Inv, TypeOK
  <1>2. TypeOK'
    BY <1>1 DEF Inv, TypeOK
  <1>3. CallRow'
    BY <1>1 DEF Inv, TypeOK, CallRow, Started, Working
  <1>4. AtMostOneActive'
    BY <1>1 DEF Inv, TypeOK, AtMostOneActive, Live, Minting
  <1>5. SingleWinner'
    BY <1>1 DEF Inv, TypeOK, CallRow, SingleWinner, Started, Working
  <1>6. FamilyBinding'
    BY <1>1 DEF Inv, TypeOK, CallRow, FamilyBinding, Started, Working
  <1>7. QED
    BY <1>2, <1>3, <1>4, <1>5, <1>6 DEF Inv

-----------------------------------------------------------------------------
(* The operations, one lemma each.                                         *)

\* A new row is a row, and every other row is as it was.
LEMMA NewRowFrame ==
  ASSUME TypeOK, NEW t \in Tokens, NEW r \in Row, rows' = [rows EXCEPT ![t] = r]
  PROVE  /\ rows' \in [Tokens -> Row \cup {None}]
         /\ rows'[t] = r /\ r # None
         /\ \A s \in Tokens : s # t => rows'[s] = rows[s]
  BY NoneAssumption DEF TypeOK

\* What mint() stores for a given user, client and family is a row.
LEMMA NewRowType ==
  ASSUME TypeOK, NEW u \in Users, NEW cl \in Clients, NEW f \in Families
  PROVE  /\ NewRow(u, cl, f) \in Row
         /\ NewRow(u, cl, f).user = u
         /\ NewRow(u, cl, f).client = cl
         /\ NewRow(u, cl, f).family = f
         /\ ~NewRow(u, cl, f).revoked
  BY TimeAssumption DEF NewRow, Row, TypeOK

\* issue() preserves the invariant: the fresh family has no other token and no call
\* is minting in it.
LEMMA IssuePreserves ==
  ASSUME Inv, NEW u \in Users, NEW cl \in Clients, NEW f \in Families,
         NEW t \in Tokens, Issue(u, cl, f, t)
  PROVE  Inv'
  <1> DEFINE r == NewRow(u, cl, f)
  <1>1. r \in Row /\ r.user = u /\ r.client = cl /\ r.family = f /\ ~r.revoked
    <2>1. TypeOK
      BY DEF Inv
    <2>2. QED
      BY <2>1, NewRowType
  <1>2. /\ rows' \in [Tokens -> Row \cup {None}]
        /\ rows'[t] = r /\ r # None
        /\ \A s \in Tokens : s # t => rows'[s] = rows[s]
    BY <1>1, NewRowFrame DEF Inv, Issue
  <1>3. rows[t] = None /\ FreshFamily(f) /\ UNCHANGED <<calls, now>>
    BY DEF Issue, FreshToken
  <1> HIDE DEF r
  <1>4. TypeOK'
    BY <1>2, <1>3 DEF Inv, TypeOK
  <1>5. CallRow'
    BY <1>2, <1>3 DEF Inv, TypeOK, CallRow, Started, Working
  <1>6. AtMostOneActive'
    BY <1>1, <1>2, <1>3
       DEF Inv, TypeOK, CallRow, Started, Working, AtMostOneActive, Live, Minting, FreshFamily
  <1>7. SingleWinner'
    BY <1>2, <1>3 DEF Inv, TypeOK, CallRow, Started, Working, SingleWinner
  <1>8. FamilyBinding'
    BY <1>1, <1>2, <1>3
       DEF Inv, TypeOK, CallRow, Started, Working, FamilyBinding, FreshFamily
  <1>9. QED
    BY <1>4, <1>5, <1>6, <1>7, <1>8 DEF Inv

\* rotate()'s lookup preserves the invariant: it records the row as it is.
LEMMA FindPreserves ==
  ASSUME Inv, NEW c \in Calls, NEW t \in Tokens, RotateFind(c, t)
  PROVE  Inv'
  <1>1. /\ UNCHANGED <<rows, now>>
        /\ calls' = [calls EXCEPT ![c] =
             [pc |-> Branch(t), token |-> t, row |-> rows[t], next |-> None]]
    BY DEF RotateFind
  <1>2. /\ rows[t] \in Row \cup {None}
        /\ Branch(t) \in {"unknown", "kill", "consume"}
        /\ Branch(t) # "unknown" => rows[t] # None /\ rows[t] \in Row
    BY DEF Inv, TypeOK, Branch
  <1>3. [pc |-> Branch(t), token |-> t, row |-> rows[t], next |-> None] \in Call
    BY <1>2 DEF Call, Working, Results
  <1>4. /\ calls' \in [Calls -> Call]
        /\ calls'[c].pc = Branch(t) /\ calls'[c].token = t /\ calls'[c].row = rows[t]
        /\ \A d \in Calls : d # c => calls'[d] = calls[d]
    BY <1>1, <1>3 DEF Inv, TypeOK
  <1>5. TypeOK'
    BY <1>1, <1>2, <1>4 DEF Inv, TypeOK, Working
  <1>6. CallRow'
    BY <1>1, <1>2, <1>4 DEF Inv, CallRow, Started, Working
  <1>7. AtMostOneActive'
    BY <1>1, <1>2, <1>4 DEF Inv, AtMostOneActive, Live, Minting
  <1>8. SingleWinner'
    BY <1>1, <1>2, <1>4 DEF Inv, SingleWinner
  <1>9. FamilyBinding'
    BY <1>1, <1>2, <1>4 DEF Inv, FamilyBinding
  <1>10. QED
    BY <1>5, <1>6, <1>7, <1>8, <1>9 DEF Inv

\* A call moves on: its own record stays well typed and the others stand still.
LEMMA GotoFrame ==
  ASSUME TypeOK, NEW c \in Calls, NEW pc \in Working \cup Results, calls' = Goto(c, pc)
  PROVE  /\ calls' \in [Calls -> Call]
         /\ calls'[c].pc = pc
         /\ calls'[c].token = calls[c].token
         /\ calls'[c].row = calls[c].row
         /\ calls'[c].next = calls[c].next
         /\ \A d \in Calls : d # c => calls'[d] = calls[d]
  BY DEF Goto, TypeOK, Call

\* The atomic consume preserves the invariant: the one call that finds its token
\* unrevoked leaves its family without a usable token, so no other can win.
LEMMA ConsumePreserves ==
  ASSUME Inv, NEW c \in Calls, RotateConsume(c)
  PROVE  Inv'
  <1> DEFINE tok == calls[c].token
             after == IF Won(c) THEN "mint" ELSE "kill"
  <1>1. calls[c].pc = "consume" /\ now' = now
    BY DEF RotateConsume
  <1>2. /\ calls[c].row \in Row /\ tok \in Tokens /\ rows[tok] # None
        /\ rows[tok].user = calls[c].row.user
        /\ rows[tok].client = calls[c].row.client
        /\ rows[tok].family = calls[c].row.family
    BY <1>1 DEF Inv, TypeOK, CallRow, Started, Working
  <1>3. /\ rows' \in [Tokens -> Row \cup {None}]
        /\ \A t \in Tokens :
             /\ rows'[t] = None <=> rows[t] = None
             /\ rows[t] # None =>
                  /\ rows'[t].user = rows[t].user
                  /\ rows'[t].client = rows[t].client
                  /\ rows'[t].family = rows[t].family
                  /\ rows'[t].revoked <=> rows[t].revoked \/ t = tok
    <2>1. PICK T : rows' = Revoked(T) /\ (\A t \in Tokens : t \in T <=> t = tok)
      BY DEF RotateConsume
    <2>2. QED
      BY <2>1, RevokedFrame DEF Inv, TypeOK
  <1>4. /\ calls' \in [Calls -> Call]
        /\ calls'[c].pc = after
        /\ calls'[c].token = calls[c].token /\ calls'[c].row = calls[c].row
        /\ \A d \in Calls : d # c => calls'[d] = calls[d]
    <2>1. calls' = Goto(c, after) /\ after \in Working \cup Results
      BY DEF RotateConsume, Working
    <2>2. QED
      BY <2>1, GotoFrame DEF Inv
  <1>5. /\ after \in {"mint", "kill"}
        /\ after = "mint" => ~rows[tok].revoked
    BY DEF Won
  <1> HIDE DEF after, tok
  <1>6. TypeOK'
    BY <1>1, <1>2, <1>3, <1>4, <1>5 DEF Inv, TypeOK, Working, tok
  <1>7. CallRow'
    BY <1>2, <1>3, <1>4, <1>5 DEF Inv, TypeOK, CallRow, Started, Working, tok
  <1>8. AtMostOneActive'
    <2>1. \A s, t \in Tokens :
            (Live(s) /\ Live(t) /\ rows[s].family = rows[t].family)' => s = t
      BY <1>3 DEF Inv, AtMostOneActive, Live
    <2>2. ASSUME NEW d \in Calls, NEW t \in Tokens, Minting(d)', Live(t)'
          PROVE  (rows[t].family # calls[d].row.family)'
      <3>1. Live(t) /\ rows'[t].family = rows[t].family /\ t # tok
        BY <1>3, <2>2 DEF Live
      <3>2. CASE d = c
        <4>1. Live(tok) /\ rows[tok].family = calls[c].row.family
          BY <1>2, <1>4, <1>5, <2>2, <3>2 DEF Live, Minting
        <4>2. QED
          BY <1>2, <1>4, <3>1, <3>2, <4>1 DEF Inv, AtMostOneActive
      <3>3. CASE d # c
        BY <1>4, <2>2, <3>1, <3>3 DEF Inv, AtMostOneActive, Minting
      <3>4. QED
        BY <3>2, <3>3
    <2>3. ASSUME NEW d \in Calls, NEW e \in Calls, Minting(d)', Minting(e)', d # e,
                 (calls[d].row.family = calls[e].row.family)'
          PROVE  FALSE
      <3>1. ASSUME NEW x \in Calls, x # c, Minting(x)'
            PROVE  Minting(x) /\ calls'[x].row = calls[x].row
        BY <1>4, <3>1 DEF Minting
      <3>2. CASE c \notin {d, e}
        BY <2>3, <3>1, <3>2 DEF Inv, AtMostOneActive
      <3>3. ASSUME NEW x \in Calls, x # c, Minting(x)', Minting(c)',
                   calls'[x].row.family = calls[c].row.family
            PROVE  FALSE
        <4>1. Live(tok) /\ rows[tok].family = calls[c].row.family
          BY <1>2, <1>4, <1>5, <3>3 DEF Live, Minting
        <4>2. QED
          BY <1>2, <3>1, <3>3, <4>1 DEF Inv, AtMostOneActive
      <3>4. QED
        BY <1>4, <2>3, <3>2, <3>3
    <2>4. QED
      BY <2>1, <2>2, <2>3 DEF AtMostOneActive
  <1>9. SingleWinner'
    BY <1>2, <1>3, <1>4, <1>5
       DEF Inv, TypeOK, CallRow, SingleWinner, Started, Working, tok
  <1>10. FamilyBinding'
    BY <1>3, <1>4, <1>5 DEF Inv, TypeOK, CallRow, Started, Working, FamilyBinding
  <1>11. QED
    BY <1>6, <1>7, <1>8, <1>9, <1>10 DEF Inv

\* The family revocation of a detected reuse preserves the invariant, also when it
\* overtakes the mint of another call.
LEMMA KillPreserves ==
  ASSUME Inv, NEW c \in Calls, RotateKill(c)
  PROVE  Inv'
  <1>1. calls[c].pc = "kill" /\ now' = now
    BY DEF RotateKill
  <1>2. /\ rows' \in [Tokens -> Row \cup {None}]
        /\ \A t \in Tokens :
             /\ rows'[t] = None <=> rows[t] = None
             /\ rows[t] # None =>
                  /\ rows'[t].user = rows[t].user
                  /\ rows'[t].client = rows[t].client
                  /\ rows'[t].family = rows[t].family
                  /\ rows[t].revoked => rows'[t].revoked
    <2>1. rows' = Revoked(FamilyRows(calls[c].row.family))
      BY DEF RotateKill
    <2>2. QED
      BY <2>1, RevokedFrame DEF Inv, TypeOK
  <1>3. /\ calls' \in [Calls -> Call]
        /\ calls'[c].pc = "reuse"
        /\ calls'[c].token = calls[c].token /\ calls'[c].row = calls[c].row
        /\ \A d \in Calls : d # c => calls'[d] = calls[d]
    BY GotoFrame DEF Inv, RotateKill, Results
  <1>4. TypeOK'
    BY <1>1, <1>2, <1>3 DEF Inv, TypeOK, Working
  <1>5. CallRow'
    BY <1>1, <1>2, <1>3 DEF Inv, TypeOK, CallRow, Started, Working
  <1>6. AtMostOneActive'
    BY <1>2, <1>3 DEF Inv, AtMostOneActive, Live, Minting
  <1>7. SingleWinner'
    BY <1>2, <1>3 DEF Inv, TypeOK, CallRow, SingleWinner, Started, Working
  <1>8. FamilyBinding'
    BY <1>2, <1>3 DEF Inv, TypeOK, CallRow, Started, Working, FamilyBinding
  <1>9. QED
    BY <1>4, <1>5, <1>6, <1>7, <1>8 DEF Inv

\* Minting the successor preserves the invariant: until then the family had neither
\* a usable token nor another mint in flight.
LEMMA MintPreserves ==
  ASSUME Inv, NEW c \in Calls, NEW t \in Tokens, RotateMint(c, t)
  PROVE  Inv'
  <1> DEFINE row == calls[c].row
             r == NewRow(row.user, row.client, row.family)
             tok == calls[c].token
  <1>1. calls[c].pc = "mint" /\ now' = now /\ rows[t] = None
    BY DEF RotateMint, FreshToken
  <1>2. /\ row \in Row /\ tok \in Tokens /\ rows[tok] # None /\ rows[tok].revoked
        /\ rows[tok].user = row.user
        /\ rows[tok].client = row.client
        /\ rows[tok].family = row.family
    BY <1>1 DEF Inv, TypeOK, CallRow, Started, Working, SingleWinner
  <1>3. /\ r \in Row /\ ~r.revoked
        /\ r.user = row.user /\ r.client = row.client /\ r.family = row.family
    <2>1. TypeOK /\ row.user \in Users /\ row.client \in Clients /\ row.family \in Families
      BY <1>2 DEF Inv, Row
    <2> HIDE DEF row
    <2>2. QED
      BY <2>1, NewRowType
  <1>4. rows' = [rows EXCEPT ![t] = r]
    BY DEF RotateMint, MintRows
  <1> HIDE DEF r
  <1>5. /\ rows' \in [Tokens -> Row \cup {None}]
        /\ rows'[t] = r /\ r # None
        /\ \A s \in Tokens : s # t => rows'[s] = rows[s]
    BY <1>3, <1>4, NewRowFrame DEF Inv
  <1>6. /\ calls' \in [Calls -> Call]
        /\ calls'[c].pc = "rotated" /\ calls'[c].next = t
        /\ calls'[c].token = tok /\ calls'[c].row = row
        /\ \A d \in Calls : d # c => calls'[d] = calls[d]
    <2>1. calls' = [calls EXCEPT ![c].pc = "rotated", ![c].next = t]
      BY DEF RotateMint
    <2>2. QED
      BY <2>1 DEF Inv, TypeOK, Call, Results
  <1>7. TypeOK'
    BY <1>1, <1>2, <1>5, <1>6 DEF Inv, TypeOK, Working
  <1>8. CallRow'
    BY <1>1, <1>2, <1>5, <1>6 DEF Inv, TypeOK, CallRow, Started, Working
  <1> HIDE DEF tok, row
  <1>9. AtMostOneActive'
    <2>1. \A s \in Tokens : s # t /\ Live(s)' => Live(s) /\ rows'[s] = rows[s]
      BY <1>5 DEF Live
    <2>2. \A d \in Calls : Minting(d)' => d # c /\ Minting(d) /\ calls'[d] = calls[d]
      BY <1>6 DEF Minting
    <2>3. Minting(c) /\ rows'[t].family = calls[c].row.family
      BY <1>1, <1>3, <1>5 DEF Minting, row
    <2>4. QED
      BY <2>1, <2>2, <2>3 DEF Inv, AtMostOneActive
  <1>10. SingleWinner'
    BY <1>1, <1>2, <1>5, <1>6
       DEF Inv, TypeOK, CallRow, SingleWinner, Started, Working, tok
  <1>11. FamilyBinding'
    <2>1. ASSUME NEW s \in Tokens, s # t, rows[s] # None, rows[s].family = r.family
          PROVE  rows[s].user = r.user /\ rows[s].client = r.client
      BY <1>2, <1>3, <2>1 DEF Inv, FamilyBinding
    <2>2. \A x, y \in Tokens :
            (rows[x] # None /\ rows[y] # None /\ rows[x].family = rows[y].family)' =>
              (rows[x].user = rows[y].user /\ rows[x].client = rows[y].client)'
      BY <1>5, <2>1 DEF Inv, FamilyBinding
    <2>3. ASSUME NEW d \in Calls, (calls[d].pc = "rotated")'
          PROVE  (/\ calls[d].next \in Tokens /\ rows[calls[d].next] # None
                  /\ rows[calls[d].next].family = rows[calls[d].token].family)'
      <3>1. CASE d = c
        BY <1>1, <1>2, <1>3, <1>5, <1>6, <3>1
      <3>2. CASE d # c
        BY <1>1, <1>5, <1>6, <2>3, <3>2
           DEF Inv, TypeOK, CallRow, Started, FamilyBinding
      <3>3. QED
        BY <3>1, <3>2
    <2>4. QED
      BY <2>2, <2>3 DEF FamilyBinding
  <1>12. QED
    BY <1>7, <1>8, <1>9, <1>10, <1>11 DEF Inv

\* A call that dies between two of its statements preserves the invariant.
LEMMA FailPreserves ==
  ASSUME Inv, NEW c \in Calls, RotateFail(c)
  PROVE  Inv'
  <1>1. UNCHANGED <<rows, now>>
    BY DEF RotateFail
  <1>2. /\ calls' \in [Calls -> Call]
        /\ calls'[c].pc = "failed"
        /\ \A d \in Calls : d # c => calls'[d] = calls[d]
    BY GotoFrame DEF Inv, RotateFail, Results
  <1>3. TypeOK'
    BY <1>1, <1>2 DEF Inv, TypeOK, Working
  <1>4. CallRow'
    BY <1>1, <1>2 DEF Inv, CallRow, Started, Working
  <1>5. AtMostOneActive' /\ SingleWinner' /\ FamilyBinding'
    BY <1>1, <1>2 DEF Inv, AtMostOneActive, SingleWinner, FamilyBinding, Live, Minting
  <1>6. QED
    BY <1>3, <1>4, <1>5 DEF Inv

\* The caller taking rotate()'s result preserves the invariant.
LEMMA ReturnPreserves ==
  ASSUME Inv, NEW c \in Calls, Return(c)
  PROVE  Inv'
  <1>1. UNCHANGED <<rows, now>>
    BY DEF Return
  <1>2. /\ calls' \in [Calls -> Call]
        /\ calls'[c].pc = "idle"
        /\ \A d \in Calls : d # c => calls'[d] = calls[d]
    <2>1. IdleCall \in Call /\ IdleCall.pc = "idle"
      BY DEF IdleCall, Call
    <2>2. QED
      BY <2>1 DEF Return, Inv, TypeOK
  <1>3. TypeOK'
    BY <1>1, <1>2 DEF Inv, TypeOK, Working
  <1>4. CallRow'
    BY <1>1, <1>2 DEF Inv, CallRow, Started, Working
  <1>5. AtMostOneActive' /\ SingleWinner' /\ FamilyBinding'
    BY <1>1, <1>2 DEF Inv, AtMostOneActive, SingleWinner, FamilyBinding, Live, Minting
  <1>6. QED
    BY <1>3, <1>4, <1>5 DEF Inv

\* A step that changes neither the table nor the calls preserves the invariant: the
\* clock, and stuttering.
LEMMA StandStill ==
  ASSUME Inv, UNCHANGED <<rows, calls>>, now' \in 0..MaxTime
  PROVE  Inv'
  BY DEF Inv, TypeOK, CallRow, AtMostOneActive, SingleWinner, FamilyBinding, Live, Minting

-----------------------------------------------------------------------------
(* The invariant, and the safety properties it implies.                    *)

\* Inv is inductive: it holds initially and no operation of the service, at
\* whichever statement of whichever call, breaks it.
LEMMA InvInductive == (Init => Inv) /\ (Inv /\ [Next]_vars => Inv')
  <1>1. ASSUME Init PROVE Inv
    <2>1. TypeOK
      BY <1>1, TimeAssumption DEF Init, TypeOK, Call, IdleCall, Working
    <2>2. CallRow /\ AtMostOneActive /\ SingleWinner /\ FamilyBinding
      BY <1>1 DEF Init, IdleCall, CallRow, Started, Working, AtMostOneActive,
                  SingleWinner, FamilyBinding, Live, Minting
    <2>3. QED
      BY <2>1, <2>2 DEF Inv
  <1>2. ASSUME Inv, [Next]_vars PROVE Inv'
    <2>1. CASE \E u \in Users, cl \in Clients, f \in Families, t \in Tokens :
                 Issue(u, cl, f, t)
      BY <1>2, <2>1, IssuePreserves
    <2>2. CASE \E t \in Tokens : Revoke(t)
      BY <1>2, <2>2, RevokePreserves DEF Revoke
    <2>3. CASE \E u \in Users : RevokeAllForUser(u)
      BY <1>2, <2>3, RevokePreserves DEF RevokeAllForUser
    <2>4. CASE \E c \in Calls, t \in Tokens : RotateFind(c, t) \/ RotateMint(c, t)
      BY <1>2, <2>4, FindPreserves, MintPreserves
    <2>5. CASE \E c \in Calls :
                 RotateConsume(c) \/ RotateKill(c) \/ RotateFail(c) \/ Return(c)
      BY <1>2, <2>5, ConsumePreserves, KillPreserves, FailPreserves, ReturnPreserves
    <2>6. CASE Tick
      BY <1>2, <2>6, StandStill, TimeAssumption DEF Tick, Inv, TypeOK
    <2>7. CASE UNCHANGED vars
      BY <1>2, <2>7, StandStill DEF vars, Inv, TypeOK
    <2>8. QED
      BY <1>2, <2>1, <2>2, <2>3, <2>4, <2>5, <2>6, <2>7 DEF Next
  <1>3. QED
    BY <1>1, <1>2

\* The inductive invariant holds in every behaviour.
THEOREM Invariance == Spec => []Inv
  BY InvInductive, PTL DEF Spec

\* Every column, call record and clock value stays in its type, and a call past
\* its lookup always carries the row it looked up.
THEOREM TypeCorrect == Spec => []TypeOK
  <1>1. Inv => TypeOK
    BY DEF Inv
  <1>2. QED
    BY <1>1, Invariance, PTL

\* The rotation chain never forks, however many calls race on it.
THEOREM NoFork == Spec => []AtMostOneActive
  <1>1. Inv => AtMostOneActive
    BY DEF Inv
  <1>2. QED
    BY <1>1, Invariance, PTL

\* A token is rotated by at most one of the calls that present it.
THEOREM OneWinner == Spec => []SingleWinner
  <1>1. Inv => SingleWinner
    BY DEF Inv
  <1>2. QED
    BY <1>1, Invariance, PTL

\* A chain never changes its user or its client.
THEOREM ChainIdentity == Spec => []FamilyBinding
  <1>1. Inv => FamilyBinding
    BY DEF Inv
  <1>2. QED
    BY <1>1, Invariance, PTL

-----------------------------------------------------------------------------
(* Families that ended.                                                    *)

\* No step takes a family with no usable token and no mint in flight back to life.
LEMMA DeadStep ==
  ASSUME Inv, [Next]_vars, NEW f \in Families, Dead(f)
  PROVE  Dead(f)'
  <1>1. TypeOK
    BY DEF Inv
  <1>2. ASSUME NEW T, rows' = Revoked(T), \A c \in Calls : Minting(c)' =>
                 Minting(c) /\ calls'[c].row = calls[c].row
        PROVE  Dead(f)'
    BY <1>1, <1>2, RevokedFrame DEF TypeOK, Dead, FreshFamily, Live
  <1>3. ASSUME NEW u \in Users, NEW cl \in Clients, NEW g \in Families,
               NEW t \in Tokens, Issue(u, cl, g, t)
        PROVE  Dead(f)'
    <2> DEFINE r == NewRow(u, cl, g)
    <2>1. r \in Row /\ r.family = g /\ UNCHANGED calls /\ FreshFamily(g) /\ rows[t] = None
      BY <1>1, <1>3, NewRowType DEF Issue, FreshToken
    <2>2. /\ rows'[t] = r /\ r # None
          /\ \A s \in Tokens : s # t => rows'[s] = rows[s]
      BY <1>1, <1>3, <2>1, NewRowFrame DEF Issue
    <2> HIDE DEF r
    <2>3. QED
      BY <2>1, <2>2 DEF Dead, FreshFamily, Live, Minting
  <1>4. ASSUME NEW c \in Calls, NEW t \in Tokens, RotateMint(c, t)
        PROVE  Dead(f)'
    <2> DEFINE row == calls[c].row
               r == NewRow(row.user, row.client, row.family)
    <2>1. Minting(c) /\ rows[t] = None /\ row \in Row
      BY <1>1, <1>4 DEF RotateMint, Minting, FreshToken, TypeOK, Working
    <2>2. r \in Row /\ r.family = row.family
      <3>1. row.user \in Users /\ row.client \in Clients /\ row.family \in Families
        BY <2>1 DEF Row
      <3> HIDE DEF row
      <3>2. QED
        BY <1>1, <3>1, NewRowType
    <2>3. rows' = [rows EXCEPT ![t] = r]
      BY <1>4 DEF RotateMint, MintRows
    <2> HIDE DEF r
    <2>4. /\ rows'[t] = r /\ r # None
          /\ \A s \in Tokens : s # t => rows'[s] = rows[s]
      BY <1>1, <2>2, <2>3, NewRowFrame
    <2>5. \A d \in Calls : Minting(d)' => Minting(d) /\ calls'[d].row = calls[d].row
      BY <1>1, <1>4 DEF RotateMint, Minting, TypeOK, Call
    <2>6. row.family # f
      BY <2>1 DEF Dead
    <2>7. QED
      BY <2>1, <2>2, <2>4, <2>5, <2>6 DEF Dead, FreshFamily, Live
  <1>5. ASSUME NEW c \in Calls, RotateConsume(c)
        PROVE  Dead(f)'
    <2> DEFINE tok == calls[c].token
    <2>1. /\ calls[c].pc = "consume" /\ tok \in Tokens /\ rows[tok] # None
          /\ rows[tok].family = calls[c].row.family
      BY <1>1, <1>5 DEF RotateConsume, Inv, CallRow, Started, Working, TypeOK
    <2>2. /\ calls'[c].pc = (IF Won(c) THEN "mint" ELSE "kill")
          /\ calls'[c].row = calls[c].row
          /\ \A d \in Calls : d # c => calls'[d] = calls[d]
      BY <1>1, <1>5 DEF RotateConsume, Goto, TypeOK, Call
    <2>3. \A d \in Calls : Minting(d)' =>
            calls'[d].row = calls[d].row /\ (Minting(d) \/ (d = c /\ Live(tok)))
      BY <2>1, <2>2 DEF Minting, Won, Live
    <2>4. PICK T : rows' = Revoked(T)
      BY <1>5 DEF RotateConsume
    <2> HIDE DEF tok
    <2>5. \A t \in Tokens :
            /\ rows'[t] = None <=> rows[t] = None
            /\ rows[t] # None => rows'[t].family = rows[t].family
            /\ Live(t)' => Live(t)
      BY <1>1, <2>4, RevokedFrame DEF TypeOK, Live
    <2>6. \A d \in Calls : Minting(d)' => calls'[d].row.family # f
      <3>1. Live(tok) => calls[c].row.family # f
        BY <2>1 DEF Dead
      <3>2. QED
        BY <2>3, <3>1 DEF Dead
    <2>7. QED
      BY <2>5, <2>6 DEF Dead, FreshFamily, Live
  <1>6. ASSUME NEW c \in Calls, NEW t \in Tokens, RotateFind(c, t)
        PROVE  Dead(f)'
    <2>1. /\ UNCHANGED rows
          /\ calls'[c].pc # "mint"
          /\ \A d \in Calls : d # c => calls'[d] = calls[d]
      BY <1>1, <1>6 DEF RotateFind, Branch, TypeOK, Call
    <2>2. QED
      BY <2>1 DEF Dead, FreshFamily, Live, Minting
  <1>7. ASSUME NEW c \in Calls, RotateKill(c) PROVE Dead(f)'
    <2>1. \A d \in Calls : Minting(d)' => Minting(d) /\ calls'[d].row = calls[d].row
      BY <1>1, <1>7 DEF RotateKill, Goto, Minting, TypeOK, Call
    <2>2. rows' = Revoked(FamilyRows(calls[c].row.family))
      BY <1>7 DEF RotateKill
    <2>3. QED
      BY <1>2, <2>1, <2>2
  <1>8. ASSUME NEW c \in Calls, RotateFail(c) \/ Return(c) PROVE Dead(f)'
    <2>1. /\ UNCHANGED rows
          /\ \A d \in Calls : Minting(d)' => Minting(d) /\ calls'[d] = calls[d]
      BY <1>1, <1>8 DEF RotateFail, Return, Goto, IdleCall, Minting, TypeOK, Call
    <2>2. QED
      BY <2>1 DEF Dead, FreshFamily, Live
  <1>9. ASSUME UNCHANGED <<rows, calls>> PROVE Dead(f)'
    BY <1>9 DEF Dead, FreshFamily, Live, Minting
  <1>10. CASE \E t \in Tokens : Revoke(t)
    BY <1>2, <1>10 DEF Revoke, Minting
  <1>11. CASE \E u \in Users : RevokeAllForUser(u)
    BY <1>2, <1>11 DEF RevokeAllForUser, Minting
  <1>12. QED
    BY <1>3, <1>4, <1>5, <1>6, <1>7, <1>8, <1>9, <1>10, <1>11 DEF Next, Tick, vars

\* A family with no usable token and no mint in flight never yields one again,
\* whatever lookups are still in flight.
THEOREM DeadForever == Spec => DeadStaysDead
  <1>1. Inv /\ [Next]_vars => [\A f \in Families : Dead(f) => Dead(f)']_vars
    BY DeadStep
  <1>2. QED
    BY <1>1, Invariance, PTL DEF Spec, DeadStaysDead

-----------------------------------------------------------------------------
(* Implementation of RotationFamily.                                       *)

Members == [f \in Families |-> FamilyRows(f)]
Spent   == {t \in Tokens : rows[t] # None /\ rows[t].revoked}
MintingFamilies == {f \in Families : \E c \in Calls : Minting(c) /\ calls[c].row.family = f}

\* An updateMany leaves every family its members and adds to the spent tokens
\* exactly the selected rows that exist.
LEMMA RevokedMapped ==
  ASSUME TypeOK, NEW T, rows' = Revoked(T)
  PROVE  /\ Members' = Members
         /\ Spent' = Spent \cup {t \in Tokens : rows[t] # None /\ t \in T}
         /\ {t \in Tokens : rows[t] # None /\ t \in T} \subseteq
              UNION {Members[f] : f \in Families}
  <1>1. \A t \in Tokens :
          /\ rows'[t] = None <=> rows[t] = None
          /\ rows[t] # None => /\ rows'[t].family = rows[t].family
                               /\ rows'[t].revoked <=> rows[t].revoked \/ t \in T
    BY RevokedFrame DEF TypeOK
  <1>2. \A f \in Families : FamilyRows(f)' = FamilyRows(f)
    BY <1>1 DEF FamilyRows
  <1>3. \A t \in Tokens : rows[t] # None =>
          rows[t].family \in Families /\ t \in FamilyRows(rows[t].family)
    BY DEF TypeOK, Row, FamilyRows
  <1>4. Members' = Members
    BY <1>2 DEF Members
  <1>5. Spent' = Spent \cup {t \in Tokens : rows[t] # None /\ t \in T}
    BY <1>1 DEF Spent
  <1>6. ASSUME NEW t \in Tokens, rows[t] # None
        PROVE  t \in UNION {Members[f] : f \in Families}
    <2>1. rows[t].family \in Families /\ t \in Members[rows[t].family]
      BY <1>3, <1>6 DEF Members
    <2>2. QED
      BY <2>1
  <1>7. QED
    BY <1>4, <1>5, <1>6

\* Inserting a row adds its token to its family and spends nothing.
LEMMA InsertMapped ==
  ASSUME TypeOK, NEW t \in Tokens, NEW r \in Row, rows[t] = None, ~r.revoked,
         rows' = [rows EXCEPT ![t] = r]
  PROVE  /\ Members' = [Members EXCEPT ![r.family] = @ \cup {t}]
         /\ Spent' = Spent
         /\ t \notin Spent
         /\ \A f \in Families : t \notin Members[f]
  <1>1. /\ rows'[t] = r /\ r # None
        /\ \A s \in Tokens : s # t => rows'[s] = rows[s]
    BY NewRowFrame
  <1>2. r.family \in Families
    BY DEF Row
  <1>3. \A f \in Families : FamilyRows(f)' =
          IF f = r.family THEN FamilyRows(f) \cup {t} ELSE FamilyRows(f)
    BY <1>1 DEF FamilyRows
  <1>4. Members' = [Members EXCEPT ![r.family] = @ \cup {t}]
    BY <1>2, <1>3 DEF Members
  <1>5. Spent' = Spent /\ t \notin Spent
    BY <1>1 DEF Spent
  <1>6. \A f \in Families : t \notin Members[f]
    BY DEF Members, FamilyRows
  <1>7. QED
    BY <1>4, <1>5, <1>6

\* The empty table is the initial state of the promise.
LEMMA RotationInit == Init => RF!Init
  <1> SUFFICES ASSUME Init PROVE RF!Init
    OBVIOUS
  <1>1. \A f \in Families : FamilyRows(f) = {}
    BY DEF Init, FamilyRows
  <1>2. Spent = {} /\ MintingFamilies = {}
    BY DEF Init, Spent, MintingFamilies, Minting, IdleCall
  <1>3. QED
    BY <1>1, <1>2 DEF RF!Init, Spent, MintingFamilies

\* Each statement is a step of the promise, or leaves it alone.
LEMMA RotationStep == Inv /\ [Next]_vars => [RF!Next]_(RF!vars)
  <1> SUFFICES ASSUME Inv, [Next]_vars PROVE [RF!Next]_(RF!vars)
    OBVIOUS
  <1>1. TypeOK
    BY DEF Inv
  <1>2. ASSUME UNCHANGED <<Members, Spent, MintingFamilies>>
        PROVE  [RF!Next]_(RF!vars)
    BY <1>2 DEF RF!vars, Members, Spent, MintingFamilies
  <1>3. ASSUME NEW T, rows' = Revoked(T), UNCHANGED MintingFamilies
        PROVE  [RF!Next]_(RF!vars)
    <2>1. PICK S \in SUBSET Tokens : S = {t \in Tokens : rows[t] # None /\ t \in T}
      OBVIOUS
    <2>2. /\ Members' = Members /\ Spent' = Spent \cup S
          /\ S \subseteq UNION {Members[f] : f \in Families}
      BY <1>1, <1>3, <2>1, RevokedMapped
    <2>3. RF!Revoke(S)
      BY <1>3, <2>2 DEF RF!Revoke, Members, Spent, MintingFamilies
    <2>4. QED
      BY <2>3 DEF RF!Next
  <1>4. ASSUME NEW u \in Users, NEW cl \in Clients, NEW f \in Families,
               NEW t \in Tokens, Issue(u, cl, f, t)
        PROVE  [RF!Next]_(RF!vars)
    <2> DEFINE r == NewRow(u, cl, f)
    <2>1. r \in Row /\ r.family = f /\ ~r.revoked
      BY <1>1, NewRowType
    <2> HIDE DEF r
    <2>2. rows[t] = None /\ FreshFamily(f) /\ UNCHANGED calls
          /\ rows' = [rows EXCEPT ![t] = r]
      BY <1>4 DEF Issue, FreshToken, r
    <2>3. /\ Members' = [Members EXCEPT ![f] = @ \cup {t}] /\ Spent' = Spent
          /\ t \notin Spent /\ \A g \in Families : t \notin Members[g]
      BY <1>1, <2>1, <2>2, InsertMapped
    <2>4. Members[f] = {}
      BY <2>2 DEF Members, FamilyRows, FreshFamily
    <2>5. f \notin MintingFamilies
      BY <2>2 DEF MintingFamilies, Minting, Inv, CallRow, Started, Working, TypeOK, FreshFamily
    <2>6. MintingFamilies' = MintingFamilies
      BY <2>2 DEF MintingFamilies, Minting
    <2>7. Members' = [Members EXCEPT ![f] = {t}]
      BY <2>3, <2>4 DEF Members
    <2>8. RF!Start(f, t)
      BY <2>3, <2>4, <2>5, <2>6, <2>7
         DEF RF!Start, RF!Unissued, Members, Spent, MintingFamilies
    <2>9. QED
      BY <2>8 DEF RF!Next
  <1>5. ASSUME NEW c \in Calls, NEW t \in Tokens, RotateMint(c, t)
        PROVE  [RF!Next]_(RF!vars)
    <2> DEFINE row == calls[c].row
               r == NewRow(row.user, row.client, row.family)
               f == row.family
    <2>1. Minting(c) /\ rows[t] = None /\ row \in Row
      BY <1>1, <1>5 DEF RotateMint, Minting, FreshToken, TypeOK, Working
    <2>2. r \in Row /\ r.family = f /\ ~r.revoked /\ f \in Families
      <3>1. row.user \in Users /\ row.client \in Clients /\ row.family \in Families
        BY <2>1 DEF Row
      <3> HIDE DEF row
      <3>2. QED
        BY <1>1, <3>1, NewRowType
    <2>3. rows' = [rows EXCEPT ![t] = r]
      BY <1>5 DEF RotateMint, MintRows
    <2>4. /\ calls'[c].pc = "rotated"
          /\ \A d \in Calls : d # c => calls'[d] = calls[d]
      BY <1>1, <1>5 DEF RotateMint, TypeOK, Call
    <2>5. MintingFamilies' = MintingFamilies \ {f}
      BY <2>1, <2>4 DEF MintingFamilies, Minting, Inv, AtMostOneActive
    <2>6. f \in MintingFamilies
      BY <2>1, <2>2 DEF MintingFamilies
    <2> HIDE DEF r, f
    <2>7. /\ Members' = [Members EXCEPT ![f] = @ \cup {t}] /\ Spent' = Spent
          /\ t \notin Spent /\ \A g \in Families : t \notin Members[g]
      BY <1>1, <2>1, <2>2, <2>3, InsertMapped
    <2>8. PICK g \in Families : g = f
      BY <2>2
    <2>9. RF!Mint(g, t)
      BY <2>5, <2>6, <2>7, <2>8
         DEF RF!Mint, RF!Unissued, Members, Spent, MintingFamilies
    <2>10. QED
      BY <2>9 DEF RF!Next
  <1>6. ASSUME NEW c \in Calls, RotateConsume(c)
        PROVE  [RF!Next]_(RF!vars)
    <2> DEFINE tok == calls[c].token
               f == calls[c].row.family
    <2>1. /\ calls[c].pc = "consume" /\ tok \in Tokens /\ rows[tok] # None
          /\ rows[tok].family = f /\ f \in Families
      BY <1>1, <1>6 DEF RotateConsume, Inv, CallRow, Started, Working, TypeOK, Row
    <2>2. /\ calls'[c].pc = (IF Won(c) THEN "mint" ELSE "kill")
          /\ calls'[c].row = calls[c].row
          /\ \A d \in Calls : d # c => calls'[d] = calls[d]
      BY <1>1, <1>6 DEF RotateConsume, Goto, TypeOK, Call
    <2>3. rows' = Revoked({tok})
      BY <1>6 DEF RotateConsume
    <2>4. CASE ~Won(c)
      <3>1. MintingFamilies' = MintingFamilies
        BY <2>1, <2>2, <2>4 DEF MintingFamilies, Minting
      <3>2. QED
        BY <1>3, <2>3, <3>1
    <2>5. CASE Won(c)
      <3>1. Live(tok)
        BY <2>1, <2>5 DEF Live, Won
      <3>2. MintingFamilies' = MintingFamilies \cup {f}
        BY <2>1, <2>2, <2>5 DEF MintingFamilies, Minting
      <3>3. f \notin MintingFamilies
        BY <2>1, <3>1 DEF MintingFamilies, Inv, AtMostOneActive
      <3> DEFINE S == {t \in Tokens : rows[t] # None /\ t \in {tok}}
      <3>4. S = {tok}
        BY <2>1
      <3>5. Members' = Members /\ Spent' = Spent \cup S
        BY <1>1, <2>3, RevokedMapped
      <3>6. tok \in Members[f] \ Spent
        BY <2>1, <3>1 DEF Members, FamilyRows, Spent, Live
      <3> HIDE DEF S, tok, f
      <3>7. PICK g \in Families, t \in Tokens : g = f /\ t = tok
        BY <2>1
      <3>8. RF!Consume(g, t)
        BY <3>2, <3>3, <3>4, <3>5, <3>6, <3>7
           DEF RF!Consume, RF!Usable, Members, Spent, MintingFamilies
      <3>9. QED
        BY <3>8 DEF RF!Next
    <2>6. QED
      BY <2>4, <2>5
  <1>7. ASSUME NEW c \in Calls, RotateFail(c)
        PROVE  [RF!Next]_(RF!vars)
    <2>1. /\ UNCHANGED rows /\ calls'[c].pc = "failed" /\ calls[c].pc \in Working
          /\ \A d \in Calls : d # c => calls'[d] = calls[d]
      BY <1>1, <1>7 DEF RotateFail, Goto, TypeOK, Call
    <2>2. Members' = Members /\ Spent' = Spent
      BY <2>1 DEF Members, FamilyRows, Spent
    <2>3. CASE ~Minting(c)
      <3>1. MintingFamilies' = MintingFamilies
        BY <2>1, <2>3 DEF MintingFamilies, Minting
      <3>2. QED
        BY <1>2, <2>2, <3>1
    <2>4. CASE Minting(c)
      <3> DEFINE f == calls[c].row.family
      <3>1. f \in Families
        BY <1>1, <2>1 DEF TypeOK, Row
      <3>2. f \in MintingFamilies /\ MintingFamilies' = MintingFamilies \ {f}
        BY <2>1, <2>4, <3>1 DEF MintingFamilies, Minting, Inv, AtMostOneActive
      <3> HIDE DEF f
      <3>3. PICK g \in Families : g = f
        BY <3>1
      <3>4. RF!Abandon(g)
        BY <2>2, <3>2, <3>3 DEF RF!Abandon, Members, Spent, MintingFamilies
      <3>5. QED
        BY <3>4 DEF RF!Next
    <2>5. QED
      BY <2>3, <2>4
  <1>8. ASSUME NEW c \in Calls, NEW t \in Tokens, RotateFind(c, t)
        PROVE  [RF!Next]_(RF!vars)
    <2>1. /\ UNCHANGED rows /\ calls[c].pc = "idle" /\ calls'[c].pc # "mint"
          /\ \A d \in Calls : d # c => calls'[d] = calls[d]
      BY <1>1, <1>8 DEF RotateFind, Branch, TypeOK, Call
    <2>2. UNCHANGED <<Members, Spent, MintingFamilies>>
      BY <2>1 DEF Members, FamilyRows, Spent, MintingFamilies, Minting
    <2>3. QED
      BY <1>2, <2>2
  <1>9. ASSUME NEW c \in Calls, RotateKill(c)
        PROVE  [RF!Next]_(RF!vars)
    <2>1. /\ calls[c].pc = "kill" /\ calls'[c].pc = "reuse"
          /\ \A d \in Calls : d # c => calls'[d] = calls[d]
      BY <1>1, <1>9 DEF RotateKill, Goto, TypeOK, Call
    <2>2. MintingFamilies' = MintingFamilies
      BY <2>1 DEF MintingFamilies, Minting
    <2>3. rows' = Revoked(FamilyRows(calls[c].row.family))
      BY <1>9 DEF RotateKill
    <2>4. QED
      BY <1>3, <2>2, <2>3
  <1>10. ASSUME NEW c \in Calls, Return(c)
         PROVE  [RF!Next]_(RF!vars)
    <2>1. /\ UNCHANGED rows /\ calls[c].pc # "mint" /\ calls'[c].pc = "idle"
          /\ \A d \in Calls : d # c => calls'[d] = calls[d]
      BY <1>1, <1>10 DEF Return, IdleCall, Results, TypeOK, Call
    <2>2. UNCHANGED <<Members, Spent, MintingFamilies>>
      BY <2>1 DEF Members, FamilyRows, Spent, MintingFamilies, Minting
    <2>3. QED
      BY <1>2, <2>2
  <1>11. ASSUME UNCHANGED <<rows, calls>>
         PROVE  [RF!Next]_(RF!vars)
    <2>1. UNCHANGED <<Members, Spent, MintingFamilies>>
      BY <1>11 DEF Members, FamilyRows, Spent, MintingFamilies, Minting
    <2>2. QED
      BY <1>2, <2>1
  <1>12. ASSUME NEW T, rows' = Revoked(T), UNCHANGED calls
         PROVE  [RF!Next]_(RF!vars)
    <2>1. MintingFamilies' = MintingFamilies
      BY <1>12 DEF MintingFamilies, Minting
    <2>2. QED
      BY <1>3, <1>12, <2>1
  <1>13. CASE \E t \in Tokens : Revoke(t)
    BY <1>12, <1>13 DEF Revoke
  <1>14. CASE \E u \in Users : RevokeAllForUser(u)
    BY <1>12, <1>14 DEF RevokeAllForUser
  <1>15. QED
    BY <1>4, <1>5, <1>6, <1>7, <1>8, <1>9, <1>10, <1>11, <1>13, <1>14
       DEF Next, Tick, vars

\* The service, statement by statement and with every crash between two
\* statements, implements the rotation promise.
THEOREM Implementation == Spec => ImplementsRotation
  <1>1. Spec => RF!Spec
    BY RotationInit, RotationStep, Invariance, PTL DEF Spec, RF!Spec
  <1>2. QED
    BY <1>1 DEF ImplementsRotation

=============================================================================
