------------------------------- MODULE ToolCall -------------------------------
(***************************************************************************)
(* A tool call: bearerAuth (src/middleware/bearerAuth.ts), the wrapper of  *)
(* every tool (registerTool in src/mcp/server.ts), the handlers under      *)
(* src/mcp/tools/ over src/services/gitlabService.ts, mapError             *)
(* (src/middleware/errors.ts) and the audit record.                        *)
(*                                                                         *)
(* A step is one statement or one GitLab exchange with the synchronous     *)
(* code after it.  A handler is known by what it asks of GitLab (Tools).   *)
(* GitLab is external: it answers as the HTTP statuses the code tells      *)
(* apart, and holds who may see the project.                               *)
(***************************************************************************)
EXTENDS Integers, Sequences, SequencesExt

CONSTANTS
  Users, Calls, None, Never,
  TTL, Skew,   \* expires_in of a GitLab token, TOKEN_REFRESH_SKEW_SECONDS
  Pages,       \* bound on the pages of a diff
  MaxAttempts, \* bound on how often a client tries one call
  MaxTime      \* bound on the clock

ASSUME CallAssumption ==
  /\ TTL \in Nat /\ Skew \in Nat /\ MaxTime \in Nat
  /\ Pages \in Nat \ {0} /\ MaxAttempts \in Nat \ {0}
  /\ None \notin Users /\ Never \notin Nat /\ None # Never

VARIABLES
  sessions,   \* users with a valid session
  members,    \* GitLab: users who can see the project
  calls,      \* tool calls being served
  applied,    \* GitLab: how often the write of a call was carried out
  audit,      \* table AuditLog: the records of a call, over its attempts
  outcome,    \* history: how the handler settled, over the attempts
  now

vars == <<sessions, members, calls, applied, audit, outcome, now>>

GitLab == INSTANCE GitLabService

-----------------------------------------------------------------------------
(* The tools                                                               *)

Kinds == {"unauthenticated", "token_expired", "forbidden", "not_found", "rate_limited",
          "upstream_unavailable", "bad_request", "internal"}

\* A tool: does it begin with assertProjectAccess, what does it then ask, and
\* what does it throw on an empty list (get_merge_request_versions) or on the
\* null a list method can return (result.items.map)?
Tool(m) == [checks |-> TRUE, method |-> m, onEmpty |-> None, onNull |-> None]

ListTool(m) == [Tool(m) EXCEPT !.onNull = "TypeError"]

MergeRequestTools == {Tool(GitLab!createMergeRequest), Tool(GitLab!updateMergeRequest),
                      Tool(GitLab!getMergeRequest), ListTool(GitLab!listMergeRequests)}

CommentTools == {Tool(GitLab!addNote)}

PipelineTools == {Tool(GitLab!getPipeline), ListTool(GitLab!listPipelines),
                  ListTool(GitLab!listPipelineJobs), Tool(GitLab!getJobTrace),
                  Tool(GitLab!retryJob)}

FileTools == {Tool(GitLab!getFile)}

ReviewerLabelTools == {Tool(GitLab!updateMergeRequest)}

UserTools == {[Tool(m) EXCEPT !.checks = FALSE] :
                m \in {GitLab!getCurrentUser, GitLab!findUserByUsername}}

DiffTools == {Tool(GitLab!getMergeRequestDiffs),
              [Tool(GitLab!getMergeRequestVersions) EXCEPT !.onEmpty = "404"]}

DiscussionTools == {ListTool(GitLab!listDiscussions), Tool(GitLab!replyToDiscussion)}

ApprovalTools == {Tool(GitLab!approveMergeRequest), Tool(GitLab!unapproveMergeRequest)}

TOOLS == MergeRequestTools \cup CommentTools \cup PipelineTools \cup FileTools
         \cup ReviewerLabelTools \cup UserTools \cup DiffTools \cup DiscussionTools
         \cup ApprovalTools

-----------------------------------------------------------------------------
(* State                                                                   *)

Working == {"loadUser", "token", "access", "main", "audit"}
Replies == {"unauthorized", "reply", "dropped"}

Results == Kinds \cup {"success"}

ASSUME NullAssumption == None \notin Results

Call == [pc : {"idle"} \cup Working \cup Replies,
         user : Users \cup {None},
         tool : TOOLS \cup {None},
         pages : 0..Pages,                     \* pages of the answer still to come
         expiresAt : Nat \cup {Never, None},   \* of the GitLab token in use
         result : Results \cup {None},
         gone : BOOLEAN,                       \* the client closed the connection
         attempt : 0..MaxAttempts]

IdleCall == [pc |-> "idle", user |-> None, tool |-> None, pages |-> 0,
             expiresAt |-> None, result |-> None, gone |-> FALSE, attempt |-> 0]

TypeOK ==
  /\ sessions \subseteq Users /\ members \subseteq Users
  /\ calls \in [Calls -> Call]
  /\ applied \in [Calls -> 0..MaxAttempts]   \* an attempt sends a request once
  /\ audit \in [Calls -> Seq(Results)] /\ outcome \in [Calls -> Seq(Results)]
  /\ now \in 0..MaxTime
  /\ \A c \in Calls : calls[c].pc \in {"audit", "reply", "dropped"} <=> calls[c].result # None

Init ==
  /\ sessions = {} /\ members = Users
  /\ calls = [c \in Calls |-> IdleCall]
  /\ applied = [c \in Calls |-> 0]
  /\ audit = [c \in Calls |-> <<>>]
  /\ outcome = [c \in Calls |-> <<>>]
  /\ now = 0

-----------------------------------------------------------------------------
(* bearerAuth                                                              *)

\* sessions.validate
Validate(c, u, tool, pages, attempt) ==
  /\ calls' = [calls EXCEPT ![c] =
       [IdleCall EXCEPT !.pc = IF u \in sessions THEN "loadUser" ELSE "unauthorized",
                        !.user = u, !.tool = tool, !.attempt = attempt,
                        !.pages = IF tool.method.uses = "pages" THEN pages ELSE 1]]
  /\ UNCHANGED <<sessions, members, applied, audit, outcome, now>>

Arrive(c, u, tool, pages) ==
  /\ calls[c].pc = "idle"
  /\ Validate(c, u, tool, pages, 1)

\* What a client may take for a refusal: nothing was done.
Refusals == Kinds \ {"upstream_unavailable", "internal"}

\* The client, told that its call was refused, makes it again.
Retry(c, pages) ==
  /\ \/ calls[c].pc = "unauthorized"
     \/ calls[c].pc = "reply" /\ calls[c].result \in Refusals
  /\ calls[c].attempt < MaxAttempts
  /\ Validate(c, calls[c].user, calls[c].tool, pages, calls[c].attempt + 1)

\* users.findById: no code deletes a user, so the row is there.
LoadUser(c) ==
  /\ calls[c].pc = "loadUser"
  /\ calls' = [calls EXCEPT ![c].pc = "token"]
  /\ UNCHANGED <<sessions, members, applied, audit, outcome, now>>

\* res.on("close"): transport and server close; the callback of the tool runs on.
Disconnect(c) ==
  /\ calls[c].pc \in Working /\ ~calls[c].gone
  /\ calls' = [calls EXCEPT ![c].gone = TRUE]
  /\ UNCHANGED <<sessions, members, applied, audit, outcome, now>>

-----------------------------------------------------------------------------
(* registerTool                                                            *)

\* The handler returned, or threw and was mapped.
Settle(c, r) ==
  /\ calls' = [calls EXCEPT ![c].pc = "audit", ![c].result = r]
  /\ outcome' = [outcome EXCEPT ![c] = Append(@, r)]

\* tokens.getAccessToken: a stored token good for more than the skew, or a
\* refreshed one (see TokenProvider).
GetAccessToken(c, e) ==
  /\ calls[c].pc = "token"
  /\ e = Never \/ e = now + TTL \/ e \in now + Skew + 1 .. now + TTL
  /\ calls' = [calls EXCEPT ![c].pc = IF calls[c].tool.checks THEN "access" ELSE "main",
                            ![c].expiresAt = e]
  /\ UNCHANGED <<sessions, members, applied, audit, outcome, now>>

\* It throws: no account, no refresh, or the database failed (mapError takes
\* ECONNREFUSED in the message for an unreachable GitLab).
NoAccessToken(c, r) ==
  /\ calls[c].pc = "token"
  /\ r \in {"unauthenticated", "token_expired", "internal", "upstream_unavailable"}
  /\ Settle(c, r)
  /\ UNCHANGED <<sessions, members, applied, audit, now>>

\* The answers GitLab may give to a call that sends m: a token that is revoked (by
\* the user, or because another call refreshed it) is refused as an expired one is.
Answers(c, m) ==
  {"401", "429", "5xx", "unreachable"} \cup
  (IF calls[c].expiresAt # Never /\ calls[c].expiresAt <= now THEN {}
   ELSE IF calls[c].tool.checks /\ calls[c].user \notin members THEN {"403", "404"}
   ELSE {"403", "404", "4xx"} \cup GitLab!BodiesOf(m))

\* mutant: no case for status >= 500
LaxMapError(e) ==
  CASE e = "401" -> "token_expired"
    [] e = "403" -> "forbidden"
    [] e = "404" -> "not_found"
    [] e = "429" -> "rate_limited"
    [] e = "unreachable" -> "upstream_unavailable"
    [] e \in {"SyntaxError", "TypeError"} -> "internal"
    [] OTHER -> "bad_request"

MapError(e) ==
  CASE e = "401" -> "token_expired"
    [] e = "403" -> "forbidden"
    [] e = "404" -> "not_found"
    [] e = "429" -> "rate_limited"
    [] e \in {"5xx", "unreachable"} -> "upstream_unavailable"
    [] e = "4xx" -> "bad_request"
    [] e \in {"SyntaxError", "TypeError"} -> "internal"

Refused == {"401", "403", "404", "429", "4xx"}

\* How often GitLab carries out the write m it answers with a.
Effects(m, a) ==
  IF ~GitLab!Writes(m) \/ a \in Refused THEN {0}
  ELSE IF a \in {"5xx", "unreachable"} THEN {0, 1} ELSE {1}

\* await ctx.gitlab.assertProjectAccess(input.project_id)
AssertProjectAccess(c, a) ==
  LET v == GitLab!Returned(GitLab!assertProjectAccess, a) IN
  /\ calls[c].pc = "access"
  /\ a \in Answers(c, GitLab!assertProjectAccess)
  /\ IF v \in GitLab!Thrown
     THEN Settle(c, MapError(v))
     ELSE calls' = [calls EXCEPT ![c].pc = "main"] /\ UNCHANGED outcome
  /\ UNCHANGED <<sessions, members, applied, audit, now>>

\* What the handler makes of the value its method returned.
Handled(tool, v) ==
  CASE v = "[]" /\ tool.onEmpty # None -> tool.onEmpty
    [] v = "null" /\ tool.onNull # None -> tool.onNull
    [] OTHER -> v

\* The request of the tool itself, or the next page of the diff.
ToolRequest(c, a) ==
  LET tool == calls[c].tool
      v == Handled(tool, GitLab!Returned(tool.method, a)) IN
  /\ calls[c].pc = "main"
  /\ a \in Answers(c, tool.method)
  /\ \E n \in Effects(tool.method, a) : applied' = [applied EXCEPT ![c] = @ + n]
  /\ CASE v \in GitLab!Thrown -> Settle(c, MapError(v))
       [] v \notin GitLab!Thrown /\ calls[c].pages > 1 ->
            calls' = [calls EXCEPT ![c].pages = @ - 1] /\ UNCHANGED outcome
       [] OTHER -> Settle(c, "success")
  /\ UNCHANGED <<sessions, members, audit, now>>

Replied(c) == IF calls[c].gone THEN "dropped" ELSE "reply"

\* mutant: audit.record is not wrapped, its error is caught like the handler's
Unwrapped(c, ok) ==
  IF ok \/ calls[c].result # "success"
  THEN [calls EXCEPT ![c].pc = Replied(c)]
  ELSE [calls EXCEPT ![c].result = "internal"]

\* mutant: the rejection of audit.record reaches nobody, and no reply is sent
Unsent(c, ok) == [calls EXCEPT ![c].pc = IF ok THEN Replied(c) ELSE "lost"]

\* A failed record is logged and no more; a reply to a closed transport is lost.
Audited(c, ok) == [calls EXCEPT ![c].pc = Replied(c)]

\* recordAudit, then the reply.
RecordAudit(c, ok) ==
  /\ calls[c].pc = "audit"
  /\ audit' = [audit EXCEPT ![c] = IF ok THEN Append(@, calls[c].result) ELSE @]
  /\ calls' = Audited(c, ok)
  /\ UNCHANGED <<sessions, members, applied, outcome, now>>

-----------------------------------------------------------------------------
(* The rest                                                                *)

Forget(C) ==
  /\ calls' = [c \in Calls |-> IF c \in C THEN IdleCall ELSE calls[c]]
  /\ applied' = [c \in Calls |-> IF c \in C THEN 0 ELSE applied[c]]
  /\ audit' = [c \in Calls |-> IF c \in C THEN <<>> ELSE audit[c]]
  /\ outcome' = [c \in Calls |-> IF c \in C THEN <<>> ELSE outcome[c]]

\* The response has gone out.
Finish(c) ==
  /\ calls[c].pc \in Replies
  /\ Forget({c})
  /\ UNCHANGED <<sessions, members, now>>

\* The process ends: a signal, or bearerAuth's rejection when a lookup fails.
Die ==
  /\ \E c \in Calls : calls[c].pc \in Working
  /\ Forget(Calls)
  /\ UNCHANGED <<sessions, members, now>>

\* Logins, logouts and expiries; GitLab's administration of the project.
Session(u) ==
  /\ sessions' = (sessions \ {u}) \cup ({u} \ sessions)
  /\ UNCHANGED <<members, calls, applied, audit, outcome, now>>

Membership(u) ==
  /\ members' = (members \ {u}) \cup ({u} \ members)
  /\ UNCHANGED <<sessions, calls, applied, audit, outcome, now>>

Tick ==
  /\ now < MaxTime
  /\ now' = now + 1
  /\ UNCHANGED <<sessions, members, calls, applied, audit, outcome>>

\* What the process does next for a call it is serving.
Advance(c) ==
  \/ LoadUser(c)
  \/ \E e \in {Never} \cup 0..(MaxTime + TTL) : GetAccessToken(c, e)
  \/ \E r \in Kinds : NoAccessToken(c, r)
  \/ \E a \in GitLab!Bodies \cup GitLab!Failures : AssertProjectAccess(c, a) \/ ToolRequest(c, a)
  \/ \E ok \in BOOLEAN : RecordAudit(c, ok)

Next ==
  \/ \E c \in Calls, u \in Users, tool \in TOOLS, pages \in 1..Pages : Arrive(c, u, tool, pages)
  \/ \E c \in Calls, pages \in 1..Pages : Retry(c, pages)
  \/ \E c \in Calls : Advance(c) \/ Disconnect(c) \/ Finish(c)
  \/ Die
  \/ \E u \in Users : Session(u) \/ Membership(u)
  \/ Tick

Spec == Init /\ [][Next]_vars

\* The event loop runs every continuation, every statement and GitLab request
\* settles (fetch times out), and a diff has finitely many pages.
FairSpec == Spec /\ \A c \in Calls : WF_vars(Advance(c))

-----------------------------------------------------------------------------
(* Properties                                                              *)

\* What the caller may conclude from a reply (mapError): success means that the
\* write was carried out, once, over all the attempts the caller made; any error
\* but upstream_unavailable and internal means that none carried it out, so trying
\* again repeats nothing (a 204, a lost answer and a body that is cut short or is
\* not JSON are failures after the write).
SafeToRetry ==
  \A c \in Calls : calls[c].pc = "reply" /\ GitLab!Writes(calls[c].tool.method) =>
    /\ calls[c].result = "success" => applied[c] = 1
    /\ calls[c].result \in Refusals => applied[c] = 0

\* s is what is left of t when some of its entries are dropped.
Subsequence(s, t) ==
  \E at \in [1..Len(s) -> 1..Len(t)] :
    /\ \A i, j \in 1..Len(s) : i < j => at[i] < at[j]
    /\ \A i \in 1..Len(s) : s[i] = t[at[i]]

\* server.ts:60-63: a failed audit insert changes nothing of what the caller is
\* told; and of the attempts whose record was kept, also those whose client had
\* left, the audit has what became of them, once each and in order: a write that
\* was carried out is recorded as one unless its insert or its answer was lost.
AuditHonest ==
  \A c \in Calls : calls[c].pc \in {"reply", "dropped"} =>
    /\ outcome[c] # <<>> /\ calls[c].result = Last(outcome[c])
    /\ Subsequence(audit[c], outcome[c])

\* A call let through by bearerAuth is carried to its end, unless the process ends,
\* even if its session or its access ends meanwhile, its client leaves or the audit
\* insert fails.
Answered ==
  \A c \in Calls : calls[c].pc \in Working ~> calls[c].pc \in Replies \cup {"idle"}

=============================================================================
