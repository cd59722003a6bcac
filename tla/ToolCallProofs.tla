----------------------------- MODULE ToolCallProofs -----------------------------
(***************************************************************************)
(* Proofs about ToolCall, for any number of users, calls, pages and        *)
(* attempts, and every lifetime of a GitLab token.                         *)
(***************************************************************************)
EXTENDS ToolCall, TLAPS

\* The fields of a tool.
LEMMA ToolFields ==
  ASSUME NEW m
  PROVE  /\ Tool(m).method = m /\ Tool(m).onEmpty = None /\ Tool(m).onNull = None
         /\ ListTool(m).method = m /\ ListTool(m).onEmpty = None
         /\ ListTool(m).onNull = "TypeError"
         /\ [Tool(m) EXCEPT !.checks = FALSE].method = m
         /\ [Tool(m) EXCEPT !.checks = FALSE].onEmpty = None
         /\ [Tool(m) EXCEPT !.checks = FALSE].onNull = None
         /\ [Tool(m) EXCEPT !.onEmpty = "404"].method = m
         /\ [Tool(m) EXCEPT !.onEmpty = "404"].onEmpty = "404"
         /\ [Tool(m) EXCEPT !.onEmpty = "404"].onNull = None
BY DEF Tool, ListTool

\* The methods that only read, and those that write, none of which collects pages.
LEMMA MethodFacts ==
  /\ \A m \in {GitLab!getMergeRequest, GitLab!listMergeRequests, GitLab!getPipeline,
               GitLab!listPipelines, GitLab!listPipelineJobs, GitLab!getJobTrace, GitLab!getFile,
               GitLab!getCurrentUser, GitLab!findUserByUsername, GitLab!getMergeRequestDiffs,
               GitLab!getMergeRequestVersions, GitLab!listDiscussions} : ~GitLab!Writes(m)
  /\ \A m \in {GitLab!createMergeRequest, GitLab!updateMergeRequest, GitLab!addNote,
               GitLab!retryJob, GitLab!replyToDiscussion, GitLab!approveMergeRequest,
               GitLab!unapproveMergeRequest} : m.uses # "pages"
BY DEF GitLab!Writes, GitLab!Data, GitLab!Plain,
       GitLab!createMergeRequest, GitLab!updateMergeRequest, GitLab!getMergeRequest,
       GitLab!listMergeRequests, GitLab!addNote, GitLab!getPipeline, GitLab!listPipelines,
       GitLab!listPipelineJobs, GitLab!getJobTrace, GitLab!retryJob, GitLab!getFile,
       GitLab!getCurrentUser, GitLab!findUserByUsername, GitLab!getMergeRequestDiffs,
       GitLab!getMergeRequestVersions, GitLab!listDiscussions, GitLab!replyToDiscussion,
       GitLab!approveMergeRequest, GitLab!unapproveMergeRequest

\* A tool that writes uses what its method returns as it is, and asks once.
LEMMA ToolFacts ==
  ASSUME NEW tool \in TOOLS
  PROVE  /\ tool.onEmpty \in {None, "404"} /\ tool.onNull \in {None, "TypeError"}
         /\ GitLab!Writes(tool.method) =>
              tool.onEmpty = None /\ tool.onNull = None /\ tool.method.uses # "pages"
<1> DEFINE Fine == /\ tool.onEmpty \in {None, "404"} /\ tool.onNull \in {None, "TypeError"}
                   /\ GitLab!Writes(tool.method) =>
                        tool.onEmpty = None /\ tool.onNull = None /\ tool.method.uses # "pages"
<1>1. CASE tool \in MergeRequestTools
  BY <1>1, ToolFields, MethodFacts DEF MergeRequestTools
<1>2. CASE tool \in CommentTools \cup FileTools \cup ReviewerLabelTools
  BY <1>2, ToolFields, MethodFacts DEF CommentTools, FileTools, ReviewerLabelTools
<1>3. CASE tool \in PipelineTools
  BY <1>3, ToolFields, MethodFacts DEF PipelineTools
<1>4. CASE tool \in UserTools
  <2>1. PICK m \in {GitLab!getCurrentUser, GitLab!findUserByUsername} :
          tool = [Tool(m) EXCEPT !.checks = FALSE]
    BY <1>4 DEF UserTools
  <2>2. tool.method = m /\ tool.onEmpty = None /\ tool.onNull = None
    BY <2>1, ToolFields, Zenon
  <2> QED  BY <2>2, MethodFacts
<1>5. CASE tool \in DiffTools
  <2>1. CASE tool = Tool(GitLab!getMergeRequestDiffs)
    BY <2>1, ToolFields, MethodFacts
  <2>2. CASE tool = [Tool(GitLab!getMergeRequestVersions) EXCEPT !.onEmpty = "404"]
    <3>1. tool.method = GitLab!getMergeRequestVersions /\ tool.onEmpty = "404" /\ tool.onNull = None
      BY <2>2, ToolFields, Zenon
    <3> QED  BY <3>1, MethodFacts
  <2> QED  BY <1>5, <2>1, <2>2 DEF DiffTools
<1>6. CASE tool \in DiscussionTools \cup ApprovalTools
  BY <1>6, ToolFields, MethodFacts DEF DiscussionTools, ApprovalTools
<1> QED  BY <1>1, <1>2, <1>3, <1>4, <1>5, <1>6 DEF TOOLS

\* What is thrown is mapped to a kind, to one of the refusals only if it is a
\* status below 500.
LEMMA MapErrorFacts ==
  ASSUME NEW e \in GitLab!Thrown
  PROVE  MapError(e) \in Kinds /\ (MapError(e) \in Refusals <=> e \in Refused)
BY DEF GitLab!Thrown, GitLab!Failures, MapError, Kinds, Refusals, Refused

\* One exchange of a write: a value comes back only of what was carried out, a
\* refusal only of what was not.
LEMMA WriteAnswered ==
  ASSUME NEW m, GitLab!Writes(m), NEW a \in GitLab!Bodies \cup GitLab!Failures,
         NEW n \in Effects(m, a)
  PROVE  LET v == GitLab!Returned(m, a) IN
         /\ n \in {0, 1}
         /\ v \in Refused => n = 0
         /\ v \notin GitLab!Thrown => n = 1
<1>1. CASE a \in GitLab!Failures
  <2>1. GitLab!Parsed(m, a) # "null" /\ GitLab!Parsed(m, a) # "[]"
    BY <1>1 DEF GitLab!Parsed, GitLab!Failures
  <2>2. GitLab!Returned(m, a) = a
    BY <1>1, <2>1 DEF GitLab!Returned
  <2> QED  BY <1>1, <2>2 DEF GitLab!Failures, GitLab!Thrown, Effects, Refused
<1>2. CASE a \in GitLab!Bodies
  <2>1. n = 1
    BY <1>2 DEF GitLab!Bodies, Effects, Refused
  <2>2. GitLab!Returned(m, a) \notin Refused
    BY <1>2 DEF GitLab!Bodies, GitLab!Failures, GitLab!Returned, GitLab!Parsed, Refused
  <2> QED  BY <2>1, <2>2
<1> QED  BY <1>1, <1>2

-----------------------------------------------------------------------------
(* The invariant                                                           *)

\* Before it settles, a call has sent no write, in this attempt or in an earlier one;
\* once it has, its result tells what became of the write.
Told(c) ==
  /\ applied[c] \in {0, 1}
  /\ calls[c].pc = "idle" => applied[c] = 0
  /\ calls[c].pc # "idle" => calls[c].tool \in TOOLS /\ calls[c].user \in Users
  /\ calls[c].pc # "idle" /\ GitLab!Writes(calls[c].tool.method) =>
       /\ calls[c].pages = 1
       /\ calls[c].result = None => applied[c] = 0
       /\ calls[c].result = "success" => applied[c] = 1
       /\ calls[c].result \in Refusals => applied[c] = 0

CallInv == TypeOK /\ \A c \in Calls : Told(c)

\* Results that settle a call, and program counters where it is settled.
Settled == {"audit", "reply", "dropped"}

LEMMA CallUpdates ==
  ASSUME NEW f \in [Calls -> Call], NEW c \in Calls,
         NEW pc \in {"idle"} \cup Working \cup Replies
  PROVE  /\ [f EXCEPT ![c].pc = pc] \in [Calls -> Call]
         /\ \A r \in Results : [f EXCEPT ![c].pc = pc, ![c].result = r] \in [Calls -> Call]
         /\ \A e \in Nat \cup {Never} : [f EXCEPT ![c].pc = pc, ![c].expiresAt = e] \in [Calls -> Call]
         /\ [f EXCEPT ![c].gone = TRUE] \in [Calls -> Call]
         /\ \A n \in 0..Pages : [f EXCEPT ![c].pages = n] \in [Calls -> Call]
<1>1. [f EXCEPT ![c].pc = pc] \in [Calls -> Call]
  BY ZenonT(60) DEF Call
<1>2. ASSUME NEW r \in Results
      PROVE  [f EXCEPT ![c].pc = pc, ![c].result = r] \in [Calls -> Call]
  BY ZenonT(60) DEF Call
<1>3. ASSUME NEW e \in Nat \cup {Never}
      PROVE  [f EXCEPT ![c].pc = pc, ![c].expiresAt = e] \in [Calls -> Call]
  BY ZenonT(60) DEF Call
<1>4. [f EXCEPT ![c].gone = TRUE] \in [Calls -> Call]
  BY ZenonT(60) DEF Call
<1>5. ASSUME NEW n \in 0..Pages
      PROVE  [f EXCEPT ![c].pages = n] \in [Calls -> Call]
  BY ZenonT(60) DEF Call
<1> QED  BY <1>1, <1>2, <1>3, <1>4, <1>5

\* A step of one call leaves what the others were told.
LEMMA OthersTold ==
  ASSUME NEW c \in Calls, \A d \in Calls : Told(d),
         \A d \in Calls : d # c => calls'[d] = calls[d] /\ applied'[d] = applied[d],
         Told(c)'
  PROVE  \A d \in Calls : Told(d)'
BY DEF Told

\* A call begins with nothing sent, or is tried again after a refusal.
LEMMA ValidateKeeps ==
  ASSUME CallInv, NEW c \in Calls, NEW u \in Users, NEW tool \in TOOLS, NEW pages \in 1..Pages,
         NEW attempt \in 0..MaxAttempts, Validate(c, u, tool, pages, attempt),
         GitLab!Writes(tool.method) => applied[c] = 0
  PROVE  CallInv'
<1> USE CallAssumption, NullAssumption DEF CallInv
<1> DEFINE r == [IdleCall EXCEPT !.pc = IF u \in sessions THEN "loadUser" ELSE "unauthorized",
                                 !.user = u, !.tool = tool, !.attempt = attempt,
                                 !.pages = IF tool.method.uses = "pages" THEN pages ELSE 1]
<1>1. /\ calls' = [calls EXCEPT ![c] = r]
      /\ UNCHANGED <<sessions, members, applied, audit, outcome, now>>
  BY DEF Validate
<1>2. /\ r.pc \in {"loadUser", "unauthorized"} /\ r.tool = tool /\ r.result = None
      /\ r.pages = IF tool.method.uses = "pages" THEN pages ELSE 1
      /\ r.user = u /\ r.attempt = attempt /\ r.gone = FALSE /\ r.expiresAt = None
  BY DEF IdleCall
<1>3. r \in Call
  <2> DEFINE p == IF u \in sessions THEN "loadUser" ELSE "unauthorized"
             n == IF tool.method.uses = "pages" THEN pages ELSE 1
  <2>1. p \in {"idle"} \cup Working \cup Replies /\ n \in 0..Pages
    BY DEF Working, Replies
  <2>2. IdleCall \in Call
    BY DEF IdleCall, Call
  <2> HIDE DEF p, n
  <2>3. [IdleCall EXCEPT !.pc = p, !.user = u, !.tool = tool, !.attempt = attempt, !.pages = n] \in Call
    BY <2>1, <2>2, Zenon DEF Call
  <2> QED  BY <2>3 DEF p, n
<1> HIDE DEF r
<1>4. calls' \in [Calls -> Call] /\ calls'[c] = r /\ \A d \in Calls : d # c => calls'[d] = calls[d]
  BY <1>1, <1>3 DEF TypeOK
<1>5. TypeOK'
  BY <1>1, <1>2, <1>4 DEF TypeOK
<1>6. Told(c)'
  BY <1>1, <1>2, <1>4, ToolFacts DEF Told, Refusals, Kinds, Results
<1> QED  BY <1>1, <1>4, <1>5, <1>6, OthersTold

\* Steps of a call that is not settled and does not settle.
LEMMA QuietKeeps ==
  ASSUME CallInv, NEW c \in Calls,
         calls[c].pc # "idle",
         calls' \in [Calls -> Call], \A d \in Calls : d # c => calls'[d] = calls[d],
         UNCHANGED <<sessions, members, applied, audit, outcome, now>>,
         /\ calls'[c].user = calls[c].user /\ calls'[c].tool = calls[c].tool
         /\ calls'[c].pages = calls[c].pages
         /\ calls'[c].result = calls[c].result
         /\ calls'[c].pc # "idle"
         /\ calls'[c].pc \in Settled <=> calls[c].pc \in Settled
  PROVE  CallInv'
<1>1. TypeOK'
  BY DEF CallInv, TypeOK, Settled
<1>2. Told(c)'
  BY DEF CallInv, Told
<1> QED  BY <1>1, <1>2, OthersTold DEF CallInv

LEMMA LoadUserKeeps ==
  ASSUME CallInv, NEW c \in Calls, LoadUser(c)
  PROVE  CallInv'
<1>1. calls[c].pc = "loadUser" /\ calls' = [calls EXCEPT ![c].pc = "token"]
      /\ UNCHANGED <<sessions, members, applied, audit, outcome, now>>
  BY DEF LoadUser
<1>2. calls' \in [Calls -> Call]
  BY <1>1, CallUpdates DEF CallInv, TypeOK, Working
<1>3. /\ \A d \in Calls : d # c => calls'[d] = calls[d]
      /\ calls'[c].user = calls[c].user /\ calls'[c].tool = calls[c].tool
      /\ calls'[c].pages = calls[c].pages
      /\ calls'[c].result = calls[c].result /\ calls'[c].pc = "token"
  BY <1>1 DEF CallInv, TypeOK, Call
<1> QED  BY <1>1, <1>2, <1>3, QuietKeeps DEF Settled

LEMMA DisconnectKeeps ==
  ASSUME CallInv, NEW c \in Calls, Disconnect(c)
  PROVE  CallInv'
<1>1. calls[c].pc \in Working /\ calls' = [calls EXCEPT ![c].gone = TRUE]
      /\ UNCHANGED <<sessions, members, applied, audit, outcome, now>>
  BY DEF Disconnect
<1>2. calls' \in [Calls -> Call]
  BY <1>1, CallUpdates DEF CallInv, TypeOK
<1>3. /\ \A d \in Calls : d # c => calls'[d] = calls[d]
      /\ calls'[c].user = calls[c].user /\ calls'[c].tool = calls[c].tool
      /\ calls'[c].pages = calls[c].pages
      /\ calls'[c].result = calls[c].result /\ calls'[c].pc = calls[c].pc
  BY <1>1 DEF CallInv, TypeOK, Call
<1> QED  BY <1>1, <1>2, <1>3, QuietKeeps DEF Working

LEMMA GetAccessTokenKeeps ==
  ASSUME CallInv, NEW c \in Calls, NEW e \in {Never} \cup 0..(MaxTime + TTL), GetAccessToken(c, e)
  PROVE  CallInv'
<1> DEFINE s == IF calls[c].tool.checks THEN "access" ELSE "main"
<1>1. calls[c].pc = "token" /\ calls' = [calls EXCEPT ![c].pc = s, ![c].expiresAt = e]
      /\ UNCHANGED <<sessions, members, applied, audit, outcome, now>>
  BY DEF GetAccessToken
<1>2. s \in {"access", "main"}
  OBVIOUS
<1> HIDE DEF s
<1>3. calls' \in [Calls -> Call]
  <2>1. e \in Nat \cup {Never}
    BY CallAssumption
  <2>2. s \in {"idle"} \cup Working \cup Replies /\ calls \in [Calls -> Call]
    BY <1>2 DEF Working, CallInv, TypeOK
  <2> QED  BY <1>1, <2>1, <2>2, CallUpdates
<1>4. /\ \A d \in Calls : d # c => calls'[d] = calls[d]
      /\ calls'[c].user = calls[c].user /\ calls'[c].tool = calls[c].tool
      /\ calls'[c].pages = calls[c].pages
      /\ calls'[c].result = calls[c].result /\ calls'[c].pc = s
  BY <1>1 DEF CallInv, TypeOK, Call
<1> QED  BY <1>1, <1>2, <1>3, <1>4, QuietKeeps DEF Settled

\* A handler settles with a result that says what became of its write.
LEMMA SettleKeeps ==
  ASSUME CallInv, NEW c \in Calls, NEW r \in Results, Settle(c, r),
         calls[c].pc \in {"token", "access", "main"},
         applied' \in [Calls -> {0, 1}], \A d \in Calls : d # c => applied'[d] = applied[d],
         UNCHANGED <<sessions, members, audit, now>>,
         GitLab!Writes(calls[c].tool.method) =>
           (r = "success" => applied'[c] = 1) /\ (r \in Refusals => applied'[c] = 0)
  PROVE  CallInv'
<1> USE CallAssumption, NullAssumption DEF CallInv
<1>1. /\ calls' = [calls EXCEPT ![c].pc = "audit", ![c].result = r]
      /\ outcome' = [outcome EXCEPT ![c] = Append(@, r)]
  BY DEF Settle
<1>2. calls' \in [Calls -> Call]
  BY <1>1, CallUpdates DEF TypeOK, Working
<1>3. /\ \A d \in Calls : d # c => calls'[d] = calls[d]
      /\ calls'[c].user = calls[c].user /\ calls'[c].tool = calls[c].tool
      /\ calls'[c].pages = calls[c].pages
      /\ calls'[c].result = r /\ calls'[c].pc = "audit"
  BY <1>1 DEF TypeOK, Call
<1>4. outcome' \in [Calls -> Seq(Results)]
  BY <1>1 DEF TypeOK
<1>5. applied' \in [Calls -> 0..MaxAttempts]
  BY SMT
<1>6. TypeOK'
  BY <1>2, <1>3, <1>4, <1>5, ZenonT(40) DEF TypeOK
<1>7. Told(c)'
  BY <1>3 DEF Told
<1> QED  BY <1>3, <1>6, <1>7, OthersTold

LEMMA NoAccessTokenKeeps ==
  ASSUME CallInv, NEW c \in Calls, NEW r \in Kinds, NoAccessToken(c, r)
  PROVE  CallInv'
<1>1. /\ calls[c].pc = "token" /\ Settle(c, r) /\ UNCHANGED <<sessions, members, audit, now, applied>>
      /\ r \in Results /\ r # "success"
  BY DEF NoAccessToken, Results, Kinds
<1>2. applied \in [Calls -> {0, 1}]
  BY DEF CallInv, TypeOK, Told
<1>3. GitLab!Writes(calls[c].tool.method) => applied[c] = 0
  BY <1>1 DEF CallInv, Told, TypeOK
<1> QED  BY <1>1, <1>2, <1>3, SettleKeeps

LEMMA AssertProjectAccessKeeps ==
  ASSUME CallInv, NEW c \in Calls, NEW a \in GitLab!Bodies \cup GitLab!Failures,
         AssertProjectAccess(c, a)
  PROVE  CallInv'
<1> DEFINE v == GitLab!Returned(GitLab!assertProjectAccess, a)
<1>1. calls[c].pc = "access" /\ UNCHANGED <<sessions, members, applied, audit, now>>
  BY DEF AssertProjectAccess
<1>2. applied \in [Calls -> {0, 1}]
  BY DEF CallInv, TypeOK, Told
<1>3. GitLab!Writes(calls[c].tool.method) => applied[c] = 0
  BY <1>1 DEF CallInv, Told, TypeOK
<1>4. CASE v \in GitLab!Thrown
  <2>1. Settle(c, MapError(v)) /\ MapError(v) \in Results /\ MapError(v) # "success"
    BY <1>4, MapErrorFacts DEF AssertProjectAccess, Results, Kinds
  <2> QED  BY <1>1, <1>2, <1>3, <2>1, SettleKeeps
<1>5. CASE v \notin GitLab!Thrown
  <2>1. calls' = [calls EXCEPT ![c].pc = "main"] /\ UNCHANGED outcome
    BY <1>5 DEF AssertProjectAccess
  <2>2. calls' \in [Calls -> Call]
    BY <2>1, CallUpdates DEF CallInv, TypeOK, Working
  <2>3. /\ \A d \in Calls : d # c => calls'[d] = calls[d]
        /\ calls'[c].user = calls[c].user /\ calls'[c].tool = calls[c].tool
        /\ calls'[c].pages = calls[c].pages
        /\ calls'[c].result = calls[c].result /\ calls'[c].pc = "main"
    BY <2>1 DEF CallInv, TypeOK, Call
  <2> QED  BY <1>1, <2>1, <2>2, <2>3, QuietKeeps DEF Settled
<1> QED  BY <1>4, <1>5

\* The request of the tool: one for a write, and its answer settles the call.
LEMMA ToolRequestKeeps ==
  ASSUME CallInv, NEW c \in Calls, NEW a \in GitLab!Bodies \cup GitLab!Failures, ToolRequest(c, a)
  PROVE  CallInv'
<1> USE DEF CallInv
<1> DEFINE tool == calls[c].tool
           m == tool.method
           v == Handled(tool, GitLab!Returned(m, a))
<1>1. calls[c].pc = "main" /\ tool \in TOOLS /\ UNCHANGED <<sessions, members, audit, now>>
  BY DEF ToolRequest, Told
<1>2. PICK n \in Effects(m, a) : applied' = [applied EXCEPT ![c] = @ + n]
  BY DEF ToolRequest
<1>3. n \in {0, 1} /\ (~GitLab!Writes(m) => n = 0)
  BY <1>2, WriteAnswered DEF Effects
<1>4. GitLab!Writes(m) => applied[c] = 0 /\ calls[c].pages = 1
  BY <1>1 DEF Told, TypeOK
<1>5. applied' \in [Calls -> {0, 1}] /\ \A d \in Calls : d # c => applied'[d] = applied[d]
  <2>1. applied[c] \in {0, 1} /\ applied[c] + n \in {0, 1}
    BY <1>3, <1>4 DEF Told
  <2>2. \A d \in Calls : applied[d] \in {0, 1} /\ applied \in [Calls -> 0..MaxAttempts]
    BY DEF Told, TypeOK
  <2> QED  BY <1>2, <2>1, <2>2
<1>6. applied'[c] = applied[c] + n
  BY <1>2 DEF TypeOK
<1>7. GitLab!Writes(m) => v = GitLab!Returned(m, a)
  BY <1>1, ToolFacts DEF Handled
<1>8. CASE v \in GitLab!Thrown
  <2>1. Settle(c, MapError(v)) /\ MapError(v) \in Results /\ MapError(v) # "success"
        /\ (MapError(v) \in Refusals => v \in Refused)
    BY <1>8, MapErrorFacts DEF ToolRequest, Results, Kinds
  <2>2. GitLab!Writes(m) => (MapError(v) \in Refusals => applied'[c] = 0)
    BY <1>2, <1>4, <1>6, <1>7, <2>1, WriteAnswered
  <2> QED  BY <1>1, <1>5, <2>1, <2>2, SettleKeeps
<1>9. CASE v \notin GitLab!Thrown /\ calls[c].pages > 1
  <2>1. calls' = [calls EXCEPT ![c].pages = @ - 1] /\ UNCHANGED outcome
    BY <1>9 DEF ToolRequest
  <2>2. ~GitLab!Writes(m) /\ UNCHANGED applied
    <3>1. ~GitLab!Writes(m)
      BY <1>4, <1>9
    <3> QED  BY <1>2, <1>3, <3>1 DEF TypeOK
  <2>3. calls[c].pages - 1 \in 0..Pages
    BY <1>9, CallAssumption DEF TypeOK, Call
  <2>4. calls' \in [Calls -> Call]
    <3>1. [calls EXCEPT ![c].pages = calls[c].pages - 1] \in [Calls -> Call]
      BY <2>3, CallUpdates DEF TypeOK, Working
    <3> QED  BY <2>1, <3>1
  <2>5. /\ \A d \in Calls : d # c => calls'[d] = calls[d]
        /\ calls'[c].user = calls[c].user /\ calls'[c].tool = calls[c].tool
        /\ calls'[c].result = calls[c].result
        /\ calls'[c].pc = "main"
    BY <1>1, <2>1 DEF TypeOK, Call
  <2>6. TypeOK'
    BY <1>1, <2>1, <2>2, <2>4, <2>5 DEF TypeOK
  <2>7. Told(c)'
    BY <1>1, <2>2, <2>5 DEF Told
  <2> QED  BY <2>2, <2>5, <2>6, <2>7, OthersTold
<1>10. CASE v \notin GitLab!Thrown /\ ~(calls[c].pages > 1)
  <2>1. Settle(c, "success") /\ "success" \in Results
    BY <1>10 DEF ToolRequest, Results
  <2>2. GitLab!Writes(m) => applied'[c] = 1 /\ "success" \notin Refusals
    BY <1>2, <1>4, <1>6, <1>7, <1>10, WriteAnswered DEF Refusals, Kinds
  <2> QED  BY <1>1, <1>5, <2>1, <2>2, SettleKeeps
<1> QED  BY <1>8, <1>9, <1>10

\* The audit, kept or lost, changes nothing of what is told.
LEMMA RecordAuditKeeps ==
  ASSUME CallInv, NEW c \in Calls, NEW ok \in BOOLEAN, RecordAudit(c, ok)
  PROVE  CallInv'
<1> USE DEF CallInv
<1> DEFINE s == Replied(c)
<1>1. /\ calls[c].pc = "audit" /\ calls' = [calls EXCEPT ![c].pc = s]
      /\ UNCHANGED <<sessions, members, applied, outcome, now>>
  BY DEF RecordAudit, Audited
<1>2. s \in {"dropped", "reply"}
  BY DEF Replied
<1> HIDE DEF s
<1>3. calls' \in [Calls -> Call]
  BY <1>1, <1>2, CallUpdates DEF TypeOK, Replies
<1>4. /\ \A d \in Calls : d # c => calls'[d] = calls[d]
      /\ calls'[c].user = calls[c].user /\ calls'[c].tool = calls[c].tool
      /\ calls'[c].pages = calls[c].pages
      /\ calls'[c].result = calls[c].result /\ calls'[c].pc = s
  BY <1>1 DEF TypeOK, Call
<1>5. audit' \in [Calls -> Seq(Results)]
  <2>1. calls[c].result \in Results
    BY <1>1 DEF TypeOK, Call
  <2> QED  BY <2>1 DEF RecordAudit, TypeOK
<1>6. TypeOK'
  BY <1>1, <1>2, <1>3, <1>4, <1>5 DEF TypeOK
<1>7. Told(c)'
  BY <1>1, <1>2, <1>4 DEF Told
<1> QED  BY <1>1, <1>4, <1>6, <1>7, OthersTold

\* What is forgotten is as at the start.
LEMMA ForgetKeeps ==
  ASSUME CallInv, NEW C, Forget(C), UNCHANGED <<sessions, members, now>>
  PROVE  CallInv'
<1> USE CallAssumption DEF CallInv
<1>1. IdleCall \in Call /\ IdleCall.pc = "idle" /\ IdleCall.result = None
  BY DEF IdleCall, Call
<1>2. TypeOK'
  <2>1. calls' \in [Calls -> Call]
    BY <1>1 DEF Forget, TypeOK
  <2>2. applied' \in [Calls -> 0..MaxAttempts]
    BY SMT DEF Forget, TypeOK
  <2>3. audit' \in [Calls -> Seq(Results)] /\ outcome' \in [Calls -> Seq(Results)]
    BY DEF Forget, TypeOK
  <2> QED  BY <1>1, <2>1, <2>2, <2>3 DEF Forget, TypeOK
<1>3. ASSUME NEW c \in Calls
      PROVE  Told(c)'
  <2>1. CASE c \in C
    BY <1>1, <2>1 DEF Forget, Told
  <2>2. CASE c \notin C
    BY <2>2 DEF Forget, Told
  <2> QED  BY <2>1, <2>2
<1> QED  BY <1>2, <1>3

\* A retry follows a refusal, which told that nothing was carried out.
LEMMA RetryKeeps ==
  ASSUME CallInv, NEW c \in Calls, NEW pages \in 1..Pages, Retry(c, pages)
  PROVE  CallInv'
<1>1. /\ calls[c].pc \in {"unauthorized", "reply"}
      /\ calls[c].pc = "reply" => calls[c].result \in Refusals
      /\ Validate(c, calls[c].user, calls[c].tool, pages, calls[c].attempt + 1)
      /\ calls[c].attempt < MaxAttempts
  BY DEF Retry
<1>2. calls[c].tool \in TOOLS
  BY <1>1 DEF CallInv, Told
<1>3. calls[c].user \in Users
  BY <1>1 DEF CallInv, Told
<1>4. calls[c].attempt + 1 \in 0..MaxAttempts
  BY <1>1, CallAssumption DEF CallInv, TypeOK, Call
<1>5. GitLab!Writes(calls[c].tool.method) => applied[c] = 0
  BY <1>1 DEF CallInv, TypeOK, Told
<1> QED  BY <1>1, <1>2, <1>3, <1>4, <1>5, ValidateKeeps

LEMMA InitHolds == Init => CallInv
<1> USE CallAssumption
<1>1. IdleCall \in Call /\ IdleCall.pc = "idle" /\ IdleCall.result = None
  BY DEF IdleCall, Call
<1>2. Init => TypeOK
  BY <1>1, SMT DEF Init, TypeOK
<1>3. Init => \A c \in Calls : Told(c)
  BY <1>1 DEF Init, Told
<1> QED  BY <1>2, <1>3 DEF CallInv

LEMMA StepKeeps ==
  ASSUME CallInv, [Next]_vars
  PROVE  CallInv'
<1>1. ASSUME NEW c \in Calls, NEW u \in Users, NEW tool \in TOOLS, NEW pages \in 1..Pages,
             Arrive(c, u, tool, pages)
      PROVE  CallInv'
  <2>1. applied[c] = 0 /\ Validate(c, u, tool, pages, 1) /\ 1 \in 0..MaxAttempts
    BY <1>1, CallAssumption DEF Arrive, CallInv, Told
  <2> QED  BY <2>1, ValidateKeeps
<1>2. CASE \E c \in Calls, pages \in 1..Pages : Retry(c, pages)
  BY <1>2, RetryKeeps
<1>3. ASSUME NEW c \in Calls, Advance(c)
      PROVE  CallInv'
  BY <1>3, LoadUserKeeps, GetAccessTokenKeeps, NoAccessTokenKeeps, AssertProjectAccessKeeps,
     ToolRequestKeeps, RecordAuditKeeps DEF Advance
<1>4. ASSUME NEW c \in Calls, Disconnect(c) \/ Finish(c)
      PROVE  CallInv'
  BY <1>4, DisconnectKeeps, ForgetKeeps DEF Finish
<1>5. CASE Die
  BY <1>5, ForgetKeeps DEF Die
<1>6. CASE \/ \E u \in Users : Session(u) \/ Membership(u)
           \/ Tick \/ UNCHANGED vars
  <2>1. UNCHANGED <<calls, applied, audit, outcome>>
    BY <1>6 DEF Session, Membership, Tick, vars
  <2>2. sessions' \subseteq Users /\ members' \subseteq Users /\ now' \in 0..MaxTime
    BY <1>6, CallAssumption DEF CallInv, TypeOK, Session, Membership, Tick, vars
  <2> QED  BY <2>1, <2>2 DEF CallInv, TypeOK, Told
<1> QED  BY <1>1, <1>2, <1>3, <1>4, <1>5, <1>6 DEF Next

\* Every call is told the truth so far.
THEOREM CallInvariance == Spec => []CallInv
<1> QED  BY InitHolds, StepKeeps, PTL DEF Spec

\* Calls, tables and histories keep their types; a call is settled when it has a result.
THEOREM CallTypes == Spec => []TypeOK
<1>1. CallInv => TypeOK
  BY DEF CallInv
<1> QED  BY <1>1, CallInvariance, PTL

\* A caller may take success for a write carried out once, and a refusal for one that
\* was not, over any number of attempts.
THEOREM SafeRetries == Spec => []SafeToRetry
<1>1. CallInv => SafeToRetry
  BY DEF CallInv, Told, SafeToRetry
<1> QED  BY <1>1, CallInvariance, PTL

-----------------------------------------------------------------------------
(* The audit                                                               *)

LEMMA SubsequenceOfEmpty == Subsequence(<<>>, <<>>)
<1> DEFINE at == [i \in 1..0 |-> i]
<1>1. at \in [1..0 -> 1..0]
  OBVIOUS
<1>2. Len(<<>>) = 0 /\ \A i \in 1..0 : FALSE
  OBVIOUS
<1> HIDE DEF at
<1> QED  BY <1>1, <1>2 DEF Subsequence

\* A longer sequence has the same subsequences.
LEMMA SubsequenceOfMore ==
  ASSUME NEW S, NEW s \in Seq(S), NEW t \in Seq(S), NEW e \in S, Subsequence(s, t)
  PROVE  Subsequence(s, Append(t, e))
<1> DEFINE u == Append(t, e)
<1>1. Len(u) = Len(t) + 1 /\ Len(t) \in Nat /\ \A i \in 1..Len(t) : u[i] = t[i]
  OBVIOUS
<1> HIDE DEF u
<1>2. PICK at \in [1..Len(s) -> 1..Len(t)] :
        /\ \A i, j \in 1..Len(s) : i < j => at[i] < at[j]
        /\ \A i \in 1..Len(s) : s[i] = t[at[i]]
  BY DEF Subsequence
<1>3. at \in [1..Len(s) -> 1..Len(u)]
  BY <1>1
<1>4. \A i \in 1..Len(s) : s[i] = u[at[i]]
  BY <1>1, <1>2
<1>5. Subsequence(s, u)
  BY <1>2, <1>3, <1>4 DEF Subsequence
<1> QED  BY <1>5 DEF u

\* What is added to both ends is kept.
LEMMA SubsequenceGrows ==
  ASSUME NEW S, NEW s \in Seq(S), NEW t \in Seq(S), NEW e \in S, Subsequence(s, t)
  PROVE  Subsequence(Append(s, e), Append(t, e))
<1> DEFINE r == Append(s, e)
           u == Append(t, e)
<1>1. /\ Len(u) = Len(t) + 1 /\ Len(t) \in Nat
      /\ u[Len(u)] = e /\ \A i \in 1..Len(t) : u[i] = t[i]
  OBVIOUS
<1>2. /\ Len(r) = Len(s) + 1 /\ Len(s) \in Nat
      /\ r[Len(r)] = e /\ \A i \in 1..Len(s) : r[i] = s[i]
  OBVIOUS
<1> HIDE DEF r, u
<1>3. PICK at \in [1..Len(s) -> 1..Len(t)] :
        /\ \A i, j \in 1..Len(s) : i < j => at[i] < at[j]
        /\ \A i \in 1..Len(s) : s[i] = t[at[i]]
  BY DEF Subsequence
<1> DEFINE to == [i \in 1..Len(r) |-> IF i = Len(r) THEN Len(u) ELSE at[i]]
<1>4. \A i \in 1..Len(r) : i # Len(r) => i \in 1..Len(s) /\ to[i] = at[i] /\ at[i] \in 1..Len(t)
  <2>1. SUFFICES ASSUME NEW i \in 1..Len(r), i # Len(r)
                 PROVE  i \in 1..Len(s) /\ to[i] = at[i] /\ at[i] \in 1..Len(t)
    OBVIOUS
  <2>2. i \in 1..Len(s)
    BY <1>2, <2>1
  <2>3. to[i] = at[i]
    BY <2>1, Zenon
  <2> QED  BY <2>2, <2>3, Zenon
<1>5. to[Len(r)] = Len(u) /\ Len(r) \in 1..Len(r)
  <2>1. Len(r) \in 1..Len(r)
    BY <1>2
  <2> QED  BY <2>1, Zenon
<1>6. to \in [1..Len(r) -> 1..Len(u)]
  <2>1. ASSUME NEW i \in 1..Len(r)
        PROVE  (IF i = Len(r) THEN Len(u) ELSE at[i]) \in 1..Len(u)
    BY <1>1, <1>4
  <2> QED  BY <2>1
<1> HIDE DEF to
<1>7. \A i, j \in 1..Len(r) : i < j => to[i] < to[j]
  <2>1. SUFFICES ASSUME NEW i \in 1..Len(r), NEW j \in 1..Len(r), i < j
                 PROVE  to[i] < to[j]
    OBVIOUS
  <2>2. i # Len(r)
    BY <1>2, <2>1
  <2>3. CASE j = Len(r)
    BY <1>1, <1>4, <1>5, <2>2, <2>3
  <2>4. CASE j # Len(r)
    BY <1>3, <1>4, <2>1, <2>2, <2>4
  <2> QED  BY <2>3, <2>4
<1>8. \A i \in 1..Len(r) : r[i] = u[to[i]]
  <2>1. SUFFICES ASSUME NEW i \in 1..Len(r)
                 PROVE  r[i] = u[to[i]]
    OBVIOUS
  <2>2. CASE i = Len(r)
    BY <1>1, <1>2, <1>5, <2>2
  <2>3. CASE i # Len(r)
    BY <1>1, <1>2, <1>3, <1>4, <2>3
  <2> QED  BY <2>2, <2>3
<1>9. Subsequence(r, u)
  BY <1>6, <1>7, <1>8 DEF Subsequence
<1> QED  BY <1>9 DEF r, u

\* What the audit has of a call comes from its earlier outcomes while the last
\* one is still to be recorded, and from all of them at any other time.
Recorded(c) ==
  /\ calls[c].pc = "audit" =>
       \E earlier \in Seq(Results) :
         /\ outcome[c] = Append(earlier, calls[c].result)
         /\ Subsequence(audit[c], earlier)
  /\ calls[c].pc \in {"reply", "dropped"} =>
       outcome[c] # <<>> /\ calls[c].result = Last(outcome[c])
  /\ calls[c].pc # "audit" => Subsequence(audit[c], outcome[c])

\* An outcome joins the history before its record.
LEMMA SettleRecorded ==
  ASSUME CallInv, NEW c \in Calls, NEW r \in Results, Settle(c, r), Recorded(c),
         calls[c].pc \in {"token", "access", "main"}, UNCHANGED audit
  PROVE  Recorded(c)' /\ \A d \in Calls \ {c} : Recorded(d) => Recorded(d)'
<1>1. /\ calls' = [calls EXCEPT ![c].pc = "audit", ![c].result = r]
      /\ outcome' = [outcome EXCEPT ![c] = Append(@, r)]
  BY DEF Settle
<1>2. /\ \A d \in Calls : d # c => calls'[d] = calls[d] /\ outcome'[d] = outcome[d]
      /\ calls'[c].result = r /\ calls'[c].pc = "audit"
      /\ outcome'[c] = Append(outcome[c], r) /\ outcome[c] \in Seq(Results)
  BY <1>1 DEF CallInv, TypeOK, Call
<1> QED  BY <1>2 DEF Recorded

\* The record is kept or lost; either way the call is answered as it settled.
LEMMA RecordAuditRecorded ==
  ASSUME CallInv, NEW c \in Calls, NEW ok \in BOOLEAN, RecordAudit(c, ok), Recorded(c)
  PROVE  Recorded(c)' /\ \A d \in Calls \ {c} : Recorded(d) => Recorded(d)'
<1> DEFINE r == calls[c].result
<1>1. /\ calls[c].pc = "audit" /\ calls' = [calls EXCEPT ![c].pc = Replied(c)]
      /\ Replied(c) \in {"dropped", "reply"}
      /\ audit' = [audit EXCEPT ![c] = IF ok THEN Append(@, r) ELSE @]
      /\ UNCHANGED outcome
  BY DEF RecordAudit, Audited, Replied
<1>2. /\ \A d \in Calls : d # c => calls'[d] = calls[d] /\ audit'[d] = audit[d]
      /\ calls'[c].result = r /\ calls'[c].pc = Replied(c)
      /\ audit'[c] = IF ok THEN Append(audit[c], r) ELSE audit[c]
      /\ audit[c] \in Seq(Results) /\ r \in Results
  BY <1>1 DEF CallInv, TypeOK, Call
<1>3. PICK earlier \in Seq(Results) :
        outcome[c] = Append(earlier, r) /\ Subsequence(audit[c], earlier)
  BY <1>1 DEF Recorded
<1>4. outcome[c] # <<>> /\ Last(outcome[c]) = r
  BY <1>2, <1>3 DEF Last
<1> HIDE DEF r
<1>5. Subsequence(audit'[c], outcome[c])
  BY <1>2, <1>3, SubsequenceOfMore, SubsequenceGrows
<1>6. Recorded(c)'
  BY <1>1, <1>2, <1>4, <1>5 DEF Recorded
<1> QED  BY <1>1, <1>2, <1>6 DEF Recorded

\* A step that adds nothing to either history, of a call that is settled or not as
\* before, or that is made again once it has been answered.
LEMMA QuietRecorded ==
  ASSUME NEW c \in Calls, Recorded(c), UNCHANGED <<audit, outcome>>,
         \/ calls'[c].pc = calls[c].pc /\ calls'[c].result = calls[c].result
         \/ calls[c].pc # "audit" /\ calls'[c].pc \notin Settled
  PROVE  Recorded(c)'
BY DEF Recorded, Settled

LEMMA ForgetRecorded ==
  ASSUME NEW C, Forget(C), \A c \in Calls : Recorded(c)
  PROVE  \A c \in Calls : Recorded(c)'
<1>1. SUFFICES ASSUME NEW c \in Calls
               PROVE  Recorded(c)'
  OBVIOUS
<1>2. CASE c \in C
  <2>1. calls'[c].pc = "idle" /\ audit'[c] = <<>> /\ outcome'[c] = <<>>
    BY <1>2 DEF Forget, IdleCall
  <2> QED  BY <2>1, SubsequenceOfEmpty DEF Recorded
<1>3. CASE c \notin C
  BY <1>3 DEF Forget, Recorded
<1> QED  BY <1>2, <1>3

LEMMA ValidateRecorded ==
  ASSUME CallInv, NEW c \in Calls, NEW u, NEW tool, NEW pages, NEW attempt,
         Validate(c, u, tool, pages, attempt), calls[c].pc # "audit",
         \A d \in Calls : Recorded(d)
  PROVE  \A d \in Calls : Recorded(d)'
<1>1. /\ UNCHANGED <<audit, outcome>>
      /\ calls'[c].pc \in {"loadUser", "unauthorized"}
      /\ \A d \in Calls : d # c => calls'[d] = calls[d]
  BY DEF Validate, IdleCall, CallInv, TypeOK
<1> QED  BY <1>1, QuietRecorded DEF Settled

LEMMA AdvanceRecorded ==
  ASSUME CallInv, NEW c \in Calls, Advance(c), \A d \in Calls : Recorded(d)
  PROVE  \A d \in Calls : Recorded(d)'
<1>1. CASE LoadUser(c)
  <2>1. calls[c].pc = "loadUser" /\ UNCHANGED <<audit, outcome>>
        /\ calls'[c].pc = "token" /\ \A d \in Calls : d # c => calls'[d] = calls[d]
    BY <1>1 DEF LoadUser, CallInv, TypeOK, Call
  <2> QED  BY <2>1, QuietRecorded DEF Settled
<1>2. ASSUME NEW e, GetAccessToken(c, e)
      PROVE  \A d \in Calls : Recorded(d)'
  <2> DEFINE s == IF calls[c].tool.checks THEN "access" ELSE "main"
  <2>1. calls[c].pc = "token" /\ UNCHANGED <<audit, outcome>>
        /\ calls' = [calls EXCEPT ![c].pc = s, ![c].expiresAt = e]
    BY <1>2 DEF GetAccessToken
  <2>2. s \in {"access", "main"}
    OBVIOUS
  <2> HIDE DEF s
  <2>3. calls'[c].pc = s /\ \A d \in Calls : d # c => calls'[d] = calls[d]
    BY <2>1 DEF CallInv, TypeOK, Call
  <2> QED  BY <2>1, <2>2, <2>3, QuietRecorded DEF Settled
<1>3. ASSUME NEW r \in Kinds, NoAccessToken(c, r)
      PROVE  \A d \in Calls : Recorded(d)'
  <2>1. Settle(c, r) /\ r \in Results /\ calls[c].pc = "token" /\ UNCHANGED audit
    BY <1>3 DEF NoAccessToken, Results
  <2> QED  BY <2>1, SettleRecorded
<1>4. ASSUME NEW a \in GitLab!Bodies \cup GitLab!Failures, AssertProjectAccess(c, a)
      PROVE  \A d \in Calls : Recorded(d)'
  <2> DEFINE v == GitLab!Returned(GitLab!assertProjectAccess, a)
  <2>1. calls[c].pc = "access" /\ UNCHANGED audit
    BY <1>4 DEF AssertProjectAccess
  <2>2. CASE v \in GitLab!Thrown
    <3>1. Settle(c, MapError(v)) /\ MapError(v) \in Results
      BY <1>4, <2>2, MapErrorFacts DEF AssertProjectAccess, Results
    <3> QED  BY <2>1, <3>1, SettleRecorded
  <2>3. CASE v \notin GitLab!Thrown
    <3>1. calls' = [calls EXCEPT ![c].pc = "main"] /\ UNCHANGED outcome
      BY <1>4, <2>3 DEF AssertProjectAccess
    <3>2. calls'[c].pc = "main" /\ \A d \in Calls : d # c => calls'[d] = calls[d]
      BY <3>1 DEF CallInv, TypeOK, Call
    <3> QED  BY <2>1, <3>1, <3>2, QuietRecorded DEF Settled
  <2> QED  BY <2>2, <2>3
<1>5. ASSUME NEW a \in GitLab!Bodies \cup GitLab!Failures, ToolRequest(c, a)
      PROVE  \A d \in Calls : Recorded(d)'
  <2> DEFINE v == Handled(calls[c].tool, GitLab!Returned(calls[c].tool.method, a))
  <2>1. calls[c].pc = "main" /\ UNCHANGED audit
    BY <1>5 DEF ToolRequest
  <2>2. CASE v \in GitLab!Thrown
    <3>1. Settle(c, MapError(v)) /\ MapError(v) \in Results
      BY <1>5, <2>2, MapErrorFacts DEF ToolRequest, Results
    <3> QED  BY <2>1, <3>1, SettleRecorded
  <2>3. CASE v \notin GitLab!Thrown /\ calls[c].pages > 1
    <3>1. calls' = [calls EXCEPT ![c].pages = @ - 1] /\ UNCHANGED outcome
      BY <1>5, <2>3 DEF ToolRequest
    <3>2. calls'[c].pc = "main" /\ \A d \in Calls : d # c => calls'[d] = calls[d]
      BY <2>1, <3>1 DEF CallInv, TypeOK, Call
    <3> QED  BY <2>1, <3>1, <3>2, QuietRecorded DEF Settled
  <2>4. CASE v \notin GitLab!Thrown /\ ~(calls[c].pages > 1)
    <3>1. Settle(c, "success") /\ "success" \in Results
      BY <1>5, <2>4 DEF ToolRequest, Results
    <3> QED  BY <2>1, <3>1, SettleRecorded
  <2> QED  BY <2>2, <2>3, <2>4
<1>6. ASSUME NEW ok \in BOOLEAN, RecordAudit(c, ok)
      PROVE  \A d \in Calls : Recorded(d)'
  BY <1>6, RecordAuditRecorded
<1> QED  BY <1>1, <1>2, <1>3, <1>4, <1>5, <1>6 DEF Advance

LEMMA RecordedKeeps ==
  ASSUME CallInv, \A c \in Calls : Recorded(c), [Next]_vars
  PROVE  \A c \in Calls : Recorded(c)'
<1>1. ASSUME NEW c \in Calls, NEW u \in Users, NEW tool \in TOOLS, NEW pages \in 1..Pages,
             Arrive(c, u, tool, pages)
      PROVE  \A d \in Calls : Recorded(d)'
  BY <1>1, ValidateRecorded DEF Arrive
<1>2. ASSUME NEW c \in Calls, NEW pages \in 1..Pages, Retry(c, pages)
      PROVE  \A d \in Calls : Recorded(d)'
  <2>1. calls[c].pc # "audit"
        /\ Validate(c, calls[c].user, calls[c].tool, pages, calls[c].attempt + 1)
    BY <1>2 DEF Retry
  <2> QED  BY <2>1, ValidateRecorded
<1>3. CASE \E c \in Calls : Advance(c)
  BY <1>3, AdvanceRecorded
<1>4. ASSUME NEW c \in Calls, Disconnect(c)
      PROVE  \A d \in Calls : Recorded(d)'
  <2>1. /\ UNCHANGED <<audit, outcome>>
        /\ calls'[c].pc = calls[c].pc /\ calls'[c].result = calls[c].result
        /\ \A d \in Calls : d # c => calls'[d] = calls[d]
    BY <1>4 DEF Disconnect, CallInv, TypeOK, Call
  <2> QED  BY <2>1, QuietRecorded
<1>5. CASE (\E c \in Calls : Finish(c)) \/ Die
  BY <1>5, ForgetRecorded DEF Finish, Die
<1>6. CASE \/ \E u \in Users : Session(u) \/ Membership(u)
           \/ Tick \/ UNCHANGED vars
  <2>1. UNCHANGED <<calls, audit, outcome>>
    BY <1>6 DEF Session, Membership, Tick, vars
  <2> QED  BY <2>1 DEF Recorded
<1> QED  BY <1>1, <1>2, <1>3, <1>4, <1>5, <1>6 DEF Next

\* A reply is the last outcome whether or not its record was kept, and the audit has
\* the outcomes whose record was, once each and in order.
THEOREM HonestAudit == Spec => []AuditHonest
<1> DEFINE Inv == \A c \in Calls : Recorded(c)
<1>1. Init => Inv
  BY SubsequenceOfEmpty DEF Init, Recorded, IdleCall
<1>2. CallInv /\ Inv /\ [Next]_vars => Inv'
  BY RecordedKeeps
<1>3. Inv => AuditHonest
  BY DEF Recorded, AuditHonest
<1> QED  BY <1>1, <1>2, <1>3, CallInvariance, PTL DEF Spec

=============================================================================
