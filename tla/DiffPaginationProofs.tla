------------------------- MODULE DiffPaginationProofs -------------------------
(***************************************************************************)
(* Proofs about DiffPagination, for diffs of any size, any size of a page, *)
(* and any number of pushes.                                               *)
(***************************************************************************)
EXTENDS DiffPagination, SequenceTheorems, TLAPS

\* How much of the diff the pages before page n hold, if they are full.
Before(n) == (n - 1) * PerPage

PageTypes ==
  /\ diff \in Diffs /\ pc \in {"loop", "done", "error"} /\ page \in Nat \ {0}
  /\ out \in Seq(Int) /\ pushes \in Nat /\ odd \in BOOLEAN

\* While nothing is pushed, what was collected comes from the pages before the one to
\* be asked for; and it is all of them when the headers are GitLab's.
Collected ==
  pushes = 0 =>
    /\ Ascending(out)
    /\ pc = "loop" => \A i \in 1..Len(out) :
         \E k \in 1..Len(diff) : k <= Before(page) /\ out[i] = diff[k]
    /\ pc = "loop" /\ ~odd => Before(page) <= Len(diff) /\ out = SubSeq(diff, 1, Before(page))
    /\ pc = "done" /\ ~odd => out = diff

PageInv == PageTypes /\ Collected

-----------------------------------------------------------------------------
(* The pages of a diff                                                     *)

LEMMA DiffsAscend ==
  ASSUME NEW d \in Diffs
  PROVE  d \in Seq(Int) /\ Len(d) \in Nat /\ Ascending(d)
<1>1. PICK m \in 0..MaxFiles : d \in [1..m -> Files]
  BY DEF Diffs, BoundedSeq, SeqOf
<1>2. MaxFiles \in Nat /\ Files \subseteq Int
  BY PageAssumption
<1>3. d \in Seq(Int)
  <2>1. m \in Nat
    BY <1>2
  <2>2. d \in [1..m -> Int]
    BY <1>1, <1>2, Zenon
  <2> QED  BY <2>1, <2>2
<1> QED  BY <1>3 DEF Diffs

\* Pages of the same size follow each other.
LEMMA PageSizes ==
  ASSUME NEW n \in Nat \ {0}
  PROVE  /\ Before(n) \in Nat /\ Before(n + 1) \in Nat /\ Before(n) <= Before(n + 1)
         /\ n * PerPage = Before(n + 1)
<1>1. PerPage \in Nat
  BY PageAssumption
<1>2. \A a, p \in Nat : a * p \in Nat /\ (a + 1) * p = a * p + p
  OBVIOUS
<1>3. n - 1 \in Nat /\ n = (n - 1) + 1 /\ (n + 1) - 1 = n
  OBVIOUS
<1>4. Before(n) \in Nat /\ n * PerPage = Before(n) + PerPage
  BY <1>1, <1>2, <1>3 DEF Before
<1>5. Before(n + 1) = n * PerPage
  BY <1>3 DEF Before
<1> QED  BY <1>1, <1>4, <1>5

LEMMA PagesFollow ==
  ASSUME NEW n \in Nat \ {0}, NEW k \in Nat \ {0}, n < k
  PROVE  Before(n + 1) <= Before(k)
<1>1. PerPage \in Nat
  BY PageAssumption
<1>2. \A a, b, p \in Nat : a <= b => a * p <= b * p
  OBVIOUS
<1>3. n \in Nat /\ k - 1 \in Nat /\ (n + 1) - 1 = n /\ n <= k - 1
  OBVIOUS
<1> QED  BY <1>1, <1>2, <1>3 DEF Before

\* A part of a sequence, from after b to e.
LEMMA PartFacts ==
  ASSUME NEW s \in Seq(Int), NEW b \in Nat, NEW e \in Nat, e <= Len(s),
         NEW part, part = SubSeq(s, b + 1, e)
  PROVE  /\ part \in Seq(Int) /\ Len(part) \in Nat
         /\ \A i \in 1..Len(part) : b + i \in 1..Len(s) /\ b + i <= e /\ part[i] = s[b + i]
<1>1. \A i \in b + 1 .. e : s[i] \in Int
  OBVIOUS
<1>2. /\ SubSeq(s, b + 1, e) \in Seq(Int)
      /\ Len(SubSeq(s, b + 1, e)) = IF b + 1 <= e THEN e - (b + 1) + 1 ELSE 0
      /\ \A i \in 1 .. e - (b + 1) + 1 : SubSeq(s, b + 1, e)[i] = s[(b + 1) + i - 1]
  <2>1. b + 1 \in Int /\ e \in Int
    OBVIOUS
  <2> QED  BY <1>1, <2>1, SubSeqProperties
<1>3. ASSUME NEW i \in 1..Len(part)
      PROVE  b + i \in 1..Len(s) /\ b + i <= e /\ part[i] = s[b + i]
  <2>1. Len(part) = IF b + 1 <= e THEN e - b ELSE 0
    BY <1>2
  <2>2. i \in 1 .. e - (b + 1) + 1 /\ (b + 1) + i - 1 = b + i /\ b + i \in 1..Len(s) /\ b + i <= e
    BY <2>1
  <2> QED  BY <1>2, <2>2
<1> QED  BY <1>2, <1>3

\* Page n of a diff: the files from Before(n) to the end of the page or of the diff.
LEMMA DataFacts ==
  ASSUME diff \in Seq(Int), NEW n \in Nat \ {0}
  PROVE  LET end == IF Before(n + 1) < Len(diff) THEN Before(n + 1) ELSE Len(diff) IN
         /\ end \in Nat /\ end <= Len(diff) /\ end <= Before(n + 1)
         /\ Data(n) = SubSeq(diff, Before(n) + 1, end) /\ Data(n) \in Seq(Int)
<1> DEFINE end == IF Before(n + 1) < Len(diff) THEN Before(n + 1) ELSE Len(diff)
<1>1. Before(n) \in Nat /\ Before(n + 1) \in Nat /\ n * PerPage = Before(n + 1)
  BY PageSizes, Zenon
<1>2. end \in Nat /\ end <= Len(diff) /\ end <= Before(n + 1)
  BY <1>1
<1>3. Data(n) = SubSeq(diff, Before(n) + 1, end)
  BY <1>1, Zenon DEF Data, Before
<1> HIDE DEF end
<1>4. SubSeq(diff, Before(n) + 1, end) \in Seq(Int)
  BY <1>1, <1>2, PartFacts, Zenon
<1> QED  BY <1>2, <1>3, <1>4 DEF end

-----------------------------------------------------------------------------
(* One request                                                             *)

\* The next page goes after what was collected: nothing comes twice, and the pages
\* that GitLab's headers lead to leave no file out.
LEMMA PageCollected ==
  ASSUME PageInv, pc = "loop", pushes = 0, NEW all, all = out \o Data(page)
  PROVE  /\ all \in Seq(Int) /\ Ascending(all)
         /\ \A i \in 1..Len(all) :
              \E k \in 1..Len(diff) : k <= Before(page + 1) /\ all[i] = diff[k]
         /\ ~odd /\ page * PerPage < Len(diff) =>
              Before(page + 1) <= Len(diff) /\ all = SubSeq(diff, 1, Before(page + 1))
         /\ ~odd /\ ~(page * PerPage < Len(diff)) => all = diff
<1> DEFINE b == Before(page)
           end == IF Before(page + 1) < Len(diff) THEN Before(page + 1) ELSE Len(diff)
           data == Data(page)
<1>1. /\ diff \in Seq(Int) /\ Len(diff) \in Nat /\ Ascending(diff)
      /\ page \in Nat \ {0} /\ out \in Seq(Int) /\ Len(out) \in Nat
  BY DiffsAscend DEF PageInv, PageTypes
<1>2. b \in Nat /\ Before(page + 1) \in Nat /\ b <= Before(page + 1) /\ page * PerPage = Before(page + 1)
  BY <1>1, PageSizes
<1> HIDE DEF b, data, end
<1>3. /\ end \in Nat /\ end <= Len(diff) /\ end <= Before(page + 1)
      /\ data = SubSeq(diff, b + 1, end)
  BY <1>1, DataFacts DEF b, data, end
<1>4. /\ data \in Seq(Int) /\ Len(data) \in Nat
       /\ \A i \in 1..Len(data) : b + i \in 1..Len(diff) /\ b + i <= end /\ data[i] = diff[b + i]
  <2>1. diff \in Seq(Int) /\ b \in Nat /\ end \in Nat /\ end <= Len(diff)
    BY <1>1, <1>2, <1>3
  <2>2. data = SubSeq(diff, b + 1, end)
    BY <1>3
  <2> QED  BY <2>1, <2>2, PartFacts
<1>5. /\ Ascending(out)
      /\ \A i \in 1..Len(out) : \E k \in 1..Len(diff) : k <= b /\ out[i] = diff[k]
      /\ ~odd => b <= Len(diff) /\ out = SubSeq(diff, 1, b)
  BY DEF PageInv, Collected, b
<1>6. /\ all \in Seq(Int) /\ Len(all) = Len(out) + Len(data)
      /\ \A i \in 1..Len(out) + Len(data) : all[i] = IF i <= Len(out) THEN out[i] ELSE data[i - Len(out)]
  <2>1. all = out \o data
    BY DEF data
  <2> QED  BY <1>1, <1>4, <2>1, ConcatProperties
<1>7. ASSUME NEW i \in 1..Len(all), i > Len(out)
      PROVE  /\ all[i] = diff[b + (i - Len(out))]
             /\ b + (i - Len(out)) \in 1..Len(diff) /\ b + (i - Len(out)) <= end
  <2>1. i - Len(out) \in 1..Len(data) /\ i \in 1..Len(out) + Len(data) /\ ~(i <= Len(out))
    BY <1>1, <1>4, <1>6, <1>7
  <2> QED  BY <1>4, <1>6, <2>1
<1>8. ASSUME NEW i \in 1..Len(all), i <= Len(out)
      PROVE  i \in 1..Len(out) /\ all[i] = out[i]
  BY <1>1, <1>4, <1>6, <1>8
<1>9. Ascending(all)
  <2>1. SUFFICES ASSUME NEW i \in 1..Len(all), NEW j \in 1..Len(all), i < j
                 PROVE  all[i] < all[j]
    BY DEF Ascending
  <2>2. i \in Nat /\ j \in Nat
    BY <1>6
  <2>3. CASE j <= Len(out)
    BY <1>1, <1>5, <1>8, <2>1, <2>2, <2>3 DEF Ascending
  <2>4. CASE i <= Len(out) /\ j > Len(out)
    <3>1. PICK k \in 1..Len(diff) : k <= b /\ all[i] = diff[k]
      BY <1>5, <1>8, <2>4
    <3>2. k < b + (j - Len(out))
      BY <1>1, <1>2, <2>2, <2>4, <3>1
    <3> QED  BY <1>1, <1>7, <2>4, <3>1, <3>2 DEF Ascending
  <2>5. CASE i > Len(out)
    <3>1. b + (i - Len(out)) < b + (j - Len(out)) /\ j > Len(out)
      BY <1>1, <1>2, <2>1, <2>2, <2>5
    <3> QED  BY <1>1, <1>7, <2>5, <3>1 DEF Ascending
  <2> QED  BY <1>1, <2>2, <2>3, <2>4, <2>5
<1>10. ASSUME NEW i \in 1..Len(all)
      PROVE  \E k \in 1..Len(diff) : k <= Before(page + 1) /\ all[i] = diff[k]
  <2>1. CASE i <= Len(out)
    <3>1. PICK k \in 1..Len(diff) : k <= b /\ all[i] = diff[k]
      BY <1>5, <1>8, <2>1
    <3> QED  BY <1>1, <1>2, <3>1
  <2>2. CASE i > Len(out)
    <3>1. b + (i - Len(out)) \in 1..Len(diff) /\ b + (i - Len(out)) <= Before(page + 1)
      BY <1>1, <1>2, <1>3, <1>7, <2>2
    <3> QED  BY <1>7, <2>2, <3>1
  <2> QED  BY <1>1, <1>6, <2>1, <2>2
<1>11. ASSUME ~odd
       PROVE  all = SubSeq(diff, 1, end)
  <2>1. b <= Len(diff) /\ out = SubSeq(diff, 1, b) /\ b <= end
    BY <1>1, <1>2, <1>5, <1>11 DEF end
  <2>2. 1 \in 1 .. Len(diff) + 1 /\ b \in 1 - 1 .. Len(diff) /\ end \in b .. Len(diff)
    BY <1>1, <1>2, <1>3, <2>1
  <2>3. SubSeq(diff, 1, b) \o SubSeq(diff, b + 1, end) = SubSeq(diff, 1, end)
    BY <1>1, <2>2, ConcatAdjacentSubSeq
  <2> QED  BY <1>3, <2>1, <2>3 DEF data
<1>12. SubSeq(diff, 1, Len(diff)) = diff
  BY <1>1, SubSeqFull
<1>13. /\ page * PerPage < Len(diff) => end = Before(page + 1)
       /\ ~(page * PerPage < Len(diff)) => end = Len(diff)
  BY <1>2 DEF end
<1> QED  BY <1>3, <1>6, <1>9, <1>10, <1>11, <1>12, <1>13, ZenonT(40)

LEMMA RequestKeeps ==
  ASSUME PageInv, NEW next \in Headers, Request(next)
  PROVE  PageInv'
<1>1. /\ pc = "loop" /\ out' = out \o Data(page) /\ odd' = (odd \/ next # NextPage(page))
      /\ UNCHANGED <<diff, pushes>>
      /\ Stop(next) => pc' = "done" /\ page' = page
      /\ ~Stop(next) => page' = next /\ pc' = pc
  BY DEF Request
<1>2. /\ diff \in Seq(Int) /\ Len(diff) \in Nat /\ page \in Nat \ {0} /\ out \in Seq(Int)
  BY DiffsAscend DEF PageInv, PageTypes
<1>3. ~Stop(next) => next \in Nat \ {0} /\ page < next
  BY <1>2 DEF Stop, Headers
<1>4. out' \in Seq(Int)
  BY <1>1, <1>2, DataFacts
<1>5. PageTypes'
  <2>1. page' \in Nat \ {0} /\ pc' \in {"loop", "done", "error"}
    BY <1>1, <1>2, <1>3
  <2> QED  BY <1>1, <1>4, <2>1, Zenon DEF PageInv, PageTypes
<1>6. CASE pushes = 0
  <2>1. /\ Ascending(out')
        /\ \A i \in 1..Len(out') :
             \E k \in 1..Len(diff) : k <= Before(page + 1) /\ out'[i] = diff[k]
        /\ ~odd /\ page * PerPage < Len(diff) =>
             Before(page + 1) <= Len(diff) /\ out' = SubSeq(diff, 1, Before(page + 1))
        /\ ~odd /\ ~(page * PerPage < Len(diff)) => out' = diff
    BY <1>1, <1>6, PageCollected
  <2>2. ~odd' => ~odd /\ next = NextPage(page)
    BY <1>1
  <2>3. CASE Stop(next)
    <3>1. ASSUME ~odd', page * PerPage < Len(diff)
          PROVE  FALSE
      <4>1. next = page + 1
        BY <2>2, <3>1, Zenon DEF NextPage
      <4>2. ~(page + 1 <= page) /\ page + 1 \in Int
        BY <1>2
      <4>3. Absent \notin Int /\ NaN \notin Int
        BY PageAssumption
      <4> QED  BY <2>3, <4>1, <4>2, <4>3, Zenon DEF Stop
    <3>2. Ascending(out)' /\ pc' = "done" /\ diff' = diff
      BY <1>1, <2>1, <2>3 DEF Ascending
    <3>3. ~odd' => out' = diff
      BY <2>1, <2>2, <3>1
    <3> QED  BY <1>5, <3>2, <3>3 DEF Collected, PageInv
  <2>4. CASE ~Stop(next)
    <3>1. Before(page + 1) \in Nat /\ Before(next) \in Nat /\ Before(page + 1) <= Before(next)
      BY <1>2, <1>3, <2>4, PageSizes, PagesFollow
    <3>2. \A i \in 1..Len(out') : \E k \in 1..Len(diff) : k <= Before(next) /\ out'[i] = diff[k]
      <4>1. SUFFICES ASSUME NEW i \in 1..Len(out')
                     PROVE  \E k \in 1..Len(diff) : k <= Before(next) /\ out'[i] = diff[k]
        OBVIOUS
      <4>2. PICK k \in 1..Len(diff) : k <= Before(page + 1) /\ out'[i] = diff[k]
        BY <2>1
      <4>3. k \in Nat
        OBVIOUS
      <4>4. k <= Before(next)
        BY <3>1, <4>2, <4>3
      <4> QED  BY <4>2, <4>4, Zenon
    <3>3. ASSUME ~odd'
          PROVE  page * PerPage < Len(diff) /\ next = page + 1
      BY <2>2, <2>4, <3>3, Zenon DEF Stop, NextPage
    <3>4. page' = next /\ pc' = "loop" /\ diff' = diff
      BY <1>1, <2>4
    <3>5. Before(page)' = Before(next) /\ Ascending(out)'
      BY <2>1, <3>4 DEF Before, Ascending
    <3>6. ~odd' => Before(next) <= Len(diff) /\ out' = SubSeq(diff, 1, Before(next))
      BY <2>1, <2>2, <3>3, Zenon
    <3> QED  BY <1>5, <3>2, <3>4, <3>5, <3>6, Zenon DEF Collected, PageInv
  <2> QED  BY <2>3, <2>4
<1>7. CASE pushes # 0
  BY <1>1, <1>5, <1>7 DEF Collected, PageInv
<1> QED  BY <1>6, <1>7

LEMMA InitPages == Init => PageInv
<1>1. SUFFICES ASSUME Init
               PROVE  PageInv
  OBVIOUS
<1>2. diff \in Seq(Int) /\ Len(diff) \in Nat /\ out = <<>> /\ Len(out) = 0 /\ page = 1
  BY <1>1, DiffsAscend DEF Init
<1>3. Before(page) = 0
  BY <1>2, PageAssumption DEF Before
<1>4. SubSeq(diff, 1, 0) = <<>>
  BY <1>2, SubSeqEmpty
<1>5. Ascending(out)
  BY <1>2 DEF Ascending
<1>6. PageTypes
  <2>1. page \in Nat \ {0} /\ pushes \in Nat /\ out \in Seq(Int)
    BY <1>1, SMT DEF Init
  <2> QED  BY <1>1, <2>1, Zenon DEF Init, PageTypes
<1>7. pc = "loop" /\ out = SubSeq(diff, 1, Before(page)) /\ Before(page) <= Len(diff)
  BY <1>1, <1>2, <1>3, <1>4 DEF Init
<1>8. \A i \in 1..Len(out) : FALSE
  BY <1>2
<1>9. Collected
  BY <1>5, <1>7, <1>8 DEF Collected
<1> QED  BY <1>6, <1>9 DEF PageInv

LEMMA StepPages ==
  ASSUME PageInv, [Next]_vars
  PROVE  PageInv'
<1>1. ASSUME NEW next \in Headers, Request(next)
      PROVE  PageInv'
  BY <1>1, RequestKeeps
<1>2. CASE Throw
  BY <1>2 DEF Throw, PageInv, PageTypes, Collected, Ascending
<1>3. ASSUME NEW d \in Diffs, Push(d)
      PROVE  PageInv'
  <2>1. pushes' \in Nat /\ pushes' # 0
    BY <1>3 DEF Push, PageInv, PageTypes
  <2> QED  BY <1>3, <2>1, Zenon DEF Push, PageInv, PageTypes, Collected
<1>4. CASE UNCHANGED vars
  BY <1>4 DEF vars, PageInv, PageTypes, Collected, Ascending, Before
<1> QED  BY <1>1, <1>2, <1>3, <1>4 DEF Next

\* A diff that nothing changes meanwhile is returned without repetitions, whatever the
\* headers say, and whole, in its order, when they are GitLab's.
THEOREM CompleteDiff == Spec => []Complete
<1>1. PageInv => Complete
  BY DEF PageInv, Collected, Complete
<1> QED  BY <1>1, InitPages, StepPages, PTL DEF Spec

=============================================================================
