----------------------------- MODULE GitLabService -----------------------------
(***************************************************************************)
(* src/services/gitlabService.ts: what each method asks of GitLab, and     *)
(* what becomes of the answer on its way back to the tool.                 *)
(*                                                                         *)
(* A method is the verb of its request, the helper that sends it, and how  *)
(* it uses the parsed body; paths, queries and request bodies are left     *)
(* out.  An answer is a 2xx body or a failure; a value is what the caller  *)
(* of a method gets, or the error that is thrown instead.                  *)
(***************************************************************************)

\* 2xx bodies: a JSON value, the list [], none at all (204), not JSON, cut short.
Bodies == {"value", "[]", "none", "garbled", "cut"}

\* Statuses other than 2xx, and no answer.
Failures == {"401", "403", "404", "429", "4xx", "5xx", "unreachable"}

Thrown == Failures \cup {"SyntaxError", "TypeError"}

Verbs == {"GET", "POST", "PUT"}

Methods == [verb : Verbs, via : {"request", "requestData", "requestText"},
            uses : {"object", "items", "pages", "orEmpty", "first", "nothing"}]

Data(verb) == [verb |-> verb, via |-> "requestData", uses |-> "object"]

Plain(verb, uses) == [verb |-> verb, via |-> "request", uses |-> uses]

assertProjectAccess == Plain("GET", "nothing")
createMergeRequest == Data("POST")
updateMergeRequest == Data("PUT")
getMergeRequest == Data("GET")
listMergeRequests == Plain("GET", "items")
addNote == Data("POST")
getMergeRequestDiffs == Plain("GET", "pages")              \* out.push(...data), per page
getMergeRequestVersions == Plain("GET", "orEmpty")         \* data ?? []
getCurrentUser == Data("GET")
findUserByUsername == Plain("GET", "first")                \* data[0] ?? null
getPipeline == Data("GET")
listPipelines == Plain("GET", "items")
listPipelineJobs == Plain("GET", "items")
getJobTrace == [verb |-> "GET", via |-> "requestText", uses |-> "object"]
retryJob == Data("POST")
getFile == Data("GET")
listDiscussions == Plain("GET", "items")
replyToDiscussion == Data("POST")
approveMergeRequest == Data("POST")
unapproveMergeRequest == Plain("POST", "nothing")

Writes(m) == m.verb # "GET"

Lists(m) == m.uses \in {"items", "pages", "orEmpty", "first"}

\* What GitLab may send as the body of a 2xx to m.
BodiesOf(m) == IF Lists(m) THEN Bodies ELSE Bodies \ {"[]"}

\* request, requestData and requestText: the parsed body, null for a 204.
Parsed(m, body) ==
  CASE body = "cut" -> "TypeError"
    [] m.via = "requestText" -> "text"
    [] body = "garbled" -> "SyntaxError"
    [] body = "none" -> IF m.via = "requestData" THEN "5xx" ELSE "null"
    [] OTHER -> body

\* What the method returns, or throws, for an answer.
Returned(m, answer) ==
  LET v == Parsed(m, answer) IN
  CASE answer \in Failures -> answer
    [] v = "null" /\ m.uses \in {"pages", "first"} -> "TypeError"
    [] v = "null" /\ m.uses = "orEmpty" -> "[]"
    [] v = "[]" /\ m.uses = "first" -> "null"
    [] OTHER -> v

=============================================================================
