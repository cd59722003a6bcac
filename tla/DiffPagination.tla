---------------------------- MODULE DiffPagination ----------------------------
(***************************************************************************)
(* getMergeRequestDiffs of src/services/gitlabService.ts: the loop that    *)
(* collects the pages of a merge request's diff, while the merge request   *)
(* may be pushed to.  GitLab is external: it cuts the diff it has at the   *)
(* time of each request into pages, and names the next one in x-next-page. *)
(***************************************************************************)
EXTENDS Integers, Sequences, SequencesExt

CONSTANTS
  Files,      \* paths, as integers: a diff lists its files in their order
  PerPage,    \* per_page (100)
  MaxFiles,   \* bound on the files of a diff
  MaxPage,    \* bound on the page numbers in a header
  MaxPushes,  \* bound on pushes
  Absent, NaN \* an x-next-page that is missing or empty, or not an integer

ASSUME PageAssumption ==
  /\ Files \subseteq Int /\ PerPage \in Nat \ {0}
  /\ MaxFiles \in Nat /\ MaxPage \in Nat /\ MaxPushes \in Nat
  /\ {Absent, NaN} \cap Int = {}

VARIABLES
  diff,    \* GitLab: the diff of the merge request's latest version
  pc,      \* "loop", "done" or "error"
  page, out,
  pushes,
  odd      \* history: was some x-next-page not the one GitLab should send?

vars == <<diff, pc, page, out, pushes, odd>>

Ascending(s) == \A i, j \in 1..Len(s) : i < j => s[i] < s[j]

\* The diffs a merge request may have.
Diffs == {d \in BoundedSeq(Files, MaxFiles) : Ascending(d)}

Init ==
  /\ diff \in Diffs
  /\ pc = "loop" /\ page = 1 /\ out = <<>>
  /\ pushes = 0 /\ odd = FALSE

\* GitLab's answer to page n.
Data(n) ==
  SubSeq(diff, (n - 1) * PerPage + 1,
         IF n * PerPage < Len(diff) THEN n * PerPage ELSE Len(diff))

\* Its x-next-page.
NextPage(n) == IF n * PerPage < Len(diff) THEN n + 1 ELSE Absent

Headers == {Absent, NaN} \cup 1..MaxPage

Lenient(next) == next \in {Absent, NaN} \/ next = page     \* mutant: may go back

Hasty(next) == next \in {Absent, NaN} \/ next <= page + 1   \* mutant: off by one

\* "!next || !Number.isInteger(nextPage) || nextPage <= page"
Stop(next) == next \in {Absent, NaN} \/ next <= page

\* One turn of the loop; the header is GitLab's, or whatever a proxy makes of it.
Request(next) ==
  /\ pc = "loop"
  /\ out' = out \o Data(page)
  /\ odd' = (odd \/ next # NextPage(page))
  /\ IF Stop(next) THEN pc' = "done" /\ UNCHANGED page
                   ELSE page' = next /\ UNCHANGED pc
  /\ UNCHANGED <<diff, pushes>>

\* fetchOrThrow throws: what was collected is dropped.
Throw ==
  /\ pc = "loop"
  /\ pc' = "error"
  /\ UNCHANGED <<diff, page, out, pushes, odd>>

\* A push makes a new version while the loop runs.
Push(d) ==
  /\ pc = "loop" /\ pushes < MaxPushes
  /\ pushes' = pushes + 1
  /\ diff' = d
  /\ UNCHANGED <<pc, page, out, odd>>

Next ==
  \/ \E next \in Headers : Request(next)
  \/ Throw
  \/ \E d \in Diffs : Push(d)

Spec == Init /\ [][Next]_vars

\* Each request settles (fetch answers, fails or times out), and the loop goes on.
FairSpec == Spec /\ WF_vars(Throw \/ \E next \in Headers : Request(next))

-----------------------------------------------------------------------------
(* Properties                                                              *)

\* While nothing is pushed, no file is returned twice, whatever the headers; and
\* when they are GitLab's, the result is the diff, complete and in its order.
Complete ==
  pc = "done" /\ pushes = 0 =>
    /\ Ascending(out)
    /\ ~odd => out = diff

\* The loop ends: no header makes it ask for the same pages for ever.
Terminates == pc = "loop" ~> pc \in {"done", "error"}

=============================================================================
