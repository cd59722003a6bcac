--------------------------- MODULE ConversionsProofs ---------------------------
(***************************************************************************)
(* Proofs about Conversions, for every text, file, limit and key.          *)
(*                                                                         *)
(* What Encode, Reading and Number make of their input is proved one       *)
(* element at a time.  The library's induction rules take the property as  *)
(* an operator; the ones here take it as the set of what has it.           *)
(***************************************************************************)
EXTENDS Conversions, SequenceTheorems, WellFoundedInduction, TLAPS

-----------------------------------------------------------------------------
(* Induction, with the property as a set                                   *)

LEMMA NatInduced ==
  ASSUME NEW P, 0 \in P, \A n \in Nat : n \in P => n + 1 \in P
  PROVE  Nat \subseteq P
<1> DEFINE Less == {p \in Nat \X Nat : p[1] < p[2]}
           Bad == Nat \ P
<1>1. IsWellFoundedOn(Less, Nat)
  BY NatLessThanWellFounded DEF OpToRel
<1>2. \A m, n \in Nat : m < n => <<m, n>> \in Less
  OBVIOUS
<1> HIDE DEF Less
<1> SUFFICES ASSUME Bad # {} PROVE FALSE
  OBVIOUS
<1>3. PICK n \in Bad : \A m \in Bad : <<m, n>> \notin Less
  BY <1>1, WFMin
<1>4. n \in Nat /\ n # 0 /\ n - 1 \in Nat /\ n - 1 < n
  OBVIOUS
<1>5. n - 1 \in P
  BY <1>2, <1>3, <1>4
<1> QED  BY <1>4, <1>5

\* Sequences, at their last element.
LEMMA SeqInduced ==
  ASSUME NEW S, NEW P, <<>> \in P, \A s \in Seq(S), x \in S : s \in P => Append(s, x) \in P
  PROVE  Seq(S) \subseteq P
<1> DEFINE Q == {n \in Nat : \A s \in Seq(S) : Len(s) = n => s \in P}
<1>1. 0 \in Q
  <2>1. \A s \in Seq(S) : Len(s) = 0 => s = <<>>
    OBVIOUS
  <2> QED  BY <2>1
<1>2. ASSUME NEW n \in Nat, n \in Q PROVE n + 1 \in Q
  <2> SUFFICES ASSUME NEW s \in Seq(S), Len(s) = n + 1 PROVE s \in P
    OBVIOUS
  <2> DEFINE r == SubSeq(s, 1, n)
  <2>1. r \in Seq(S) /\ Len(r) = n /\ s[n + 1] \in S /\ s = Append(r, s[n + 1])
    OBVIOUS
  <2> HIDE DEF r
  <2> QED  BY <1>2, <2>1
<1>3. Nat \subseteq Q
  <2> HIDE DEF Q
  <2> QED  BY <1>1, <1>2, NatInduced
<1> QED  BY <1>3

\* f goes on from init by step.
GoesOn(f, n, init, step) == f[0] = init /\ \A i \in 1..n : f[i] = step[<<i, f[i - 1]>>]

Recursive(T, n, init, step) == \E f \in [0..n -> T] : GoesOn(f, n, init, step)

LEMMA Recursion ==
  ASSUME NEW T, NEW n \in Nat, NEW init \in T, NEW step \in [(1..n) \X T -> T]
  PROVE  Recursive(T, n, init, step)
<1> DEFINE Upto(k, f) == GoesOn(f, k, init, step)
           Q == {k \in Nat : k <= n => \E f \in [0..k -> T] : Upto(k, f)}
<1>1. 0 \in Q
  <2> DEFINE f == [i \in 0..0 |-> init]
  <2>1. f \in [0..0 -> T] /\ Upto(0, f)
    BY DEF GoesOn
  <2> QED  BY <2>1
<1>2. ASSUME NEW k \in Nat, k \in Q PROVE k + 1 \in Q
  <2> SUFFICES ASSUME k + 1 <= n PROVE \E f \in [0..(k + 1) -> T] : Upto(k + 1, f)
    OBVIOUS
  <2>1. PICK f \in [0..k -> T] : Upto(k, f)
    BY <1>2
  <2> DEFINE g == [i \in 0..(k + 1) |-> IF i = k + 1 THEN step[<<k + 1, f[k]>>] ELSE f[i]]
  <2>2. step[<<k + 1, f[k]>>] \in T
    <3>1. f[k] \in T /\ k + 1 \in 1..n
      OBVIOUS
    <3>2. <<k + 1, f[k]>> \in (1..n) \X T
      BY <3>1
    <3> QED  BY <3>2
  <2>3. g \in [0..(k + 1) -> T]
    BY <2>2
  <2>4. g[0] = init /\ g[k + 1] = step[<<k + 1, g[k]>>]
    <3>1. {0, k, k + 1} \subseteq 0..(k + 1) /\ 0 # k + 1 /\ k # k + 1
      OBVIOUS
    <3>2. g[0] = f[0] /\ g[k] = f[k] /\ g[k + 1] = step[<<k + 1, f[k]>>]
      BY <3>1
    <3> QED  BY <2>1, <3>2 DEF GoesOn
  <2>5. ASSUME NEW i \in 1..k PROVE g[i] = step[<<i, g[i - 1]>>]
    <3>1. g[i] = f[i] /\ g[i - 1] = f[i - 1]
      OBVIOUS
    <3> QED  BY <2>1, <3>1 DEF GoesOn
  <2>6. \A i \in 1..(k + 1) : i = k + 1 \/ i \in 1..k
    OBVIOUS
  <2> HIDE DEF g
  <2>7. Upto(k + 1, g)
    BY <2>4, <2>5, <2>6, SMTT(60) DEF GoesOn
  <2> QED  BY <2>3, <2>7
<1>3. Nat \subseteq Q
  <2> HIDE DEF Q
  <2> QED  BY <1>1, <1>2, NatInduced
<1> QED  BY <1>3 DEF Recursive

-----------------------------------------------------------------------------
(* Sequences                                                               *)

LEMMA AppendOfConcat ==
  ASSUME NEW S, NEW a \in Seq(S), NEW b \in Seq(S), NEW x \in S
  PROVE  a \o Append(b, x) = Append(a \o b, x) /\ a \o b \in Seq(S)
<1>1. a \o Append(b, x) \in Seq(S) /\ Append(a \o b, x) \in Seq(S)
  OBVIOUS
<1>2. Len(a \o Append(b, x)) = Len(Append(a \o b, x))
  OBVIOUS
<1>3. \A i \in 1..Len(a \o Append(b, x)) : (a \o Append(b, x))[i] = Append(a \o b, x)[i]
  OBVIOUS
<1> QED  BY <1>1, <1>2, <1>3, SeqEqual

\* A prefix and its next element.
LEMMA PrefixStep ==
  ASSUME NEW S, NEW s \in Seq(S), NEW i \in Nat, i < Len(s)
  PROVE  /\ SubSeq(s, 1, i) \in Seq(S) /\ Len(SubSeq(s, 1, i)) = i
         /\ \A j \in 1..i : SubSeq(s, 1, i)[j] = s[j]
         /\ s[i + 1] \in S
         /\ SubSeq(s, 1, i + 1) = Append(SubSeq(s, 1, i), s[i + 1])
         /\ i + 1 = Len(s) => s = Append(SubSeq(s, 1, i), s[i + 1])
<1>1. SubSeq(s, 1, i) \in Seq(S) /\ Len(SubSeq(s, 1, i)) = i /\ s[i + 1] \in S
  OBVIOUS
<1>2. \A j \in 1..i : SubSeq(s, 1, i)[j] = s[j]
  OBVIOUS
<1>3. SubSeq(s, 1, i + 1) = Append(SubSeq(s, 1, i), s[i + 1])
  OBVIOUS
<1>4. i + 1 = Len(s) => SubSeq(s, 1, i + 1) = s
  BY SubSeqFull
<1> QED  BY <1>1, <1>2, <1>3, <1>4

-----------------------------------------------------------------------------
(* Encode                                                                  *)

\* What a byte is matters to no lemma but those on numerals.
Byte == Nat
Bytes == Seq(Byte)

\* A text's bytes are those of its first character, then the next one's, and so on.
EncodesBy(f, text) ==
  /\ f \in [0..Len(text) -> Bytes] /\ f[0] = <<>> /\ f[Len(text)] = Encode(text)
  /\ \A i \in 1..Len(text) : f[i] = f[i - 1] \o text[i]

LEMMA EncodeUnfold ==
  ASSUME NEW text \in Seq(Bytes)
  PROVE  \E f : EncodesBy(f, text)
<1> DEFINE n == Len(text)
<1>1. n \in Nat /\ \A i \in 1..n : text[i] \in Bytes
  OBVIOUS
<1>2. CASE n = 0
  <2> DEFINE f == [i \in 0..0 |-> <<>>]
  <2>1. text = <<>> /\ Encode(text) = <<>>
    BY <1>2 DEF Encode, FlattenSeq
  <2>2. f \in [0..0 -> Bytes] /\ f[0] = <<>>
    BY DEF Bytes
  <2>3. \A i \in 1..0 : FALSE
    OBVIOUS
  <2> QED  BY <1>2, <2>1, <2>2, <2>3 DEF EncodesBy
<1>3. CASE n # 0
  <2> DEFINE step == [p \in (1..n) \X Bytes |-> p[2] \o text[p[1]]]
             F(u) == [i \in 1..n |-> IF i = 1 THEN text[i] ELSE u[i - 1] \o text[i]]
             flat == CHOOSE u : u = F(u)
  <2>1. step \in [(1..n) \X Bytes -> Bytes]
    <3>1. \A p \in (1..n) \X Bytes : p[2] \in Bytes /\ text[p[1]] \in Bytes
      BY <1>1
    <3> QED  BY <3>1 DEF Bytes
  <2>2. <<>> \in Bytes
    BY DEF Bytes
  <2>3. PICK f \in [0..n -> Bytes] : f[0] = <<>> /\ \A i \in 1..n : f[i] = step[<<i, f[i - 1]>>]
    <3> DEFINE init == <<>>
    <3>1. init \in Bytes
      BY <2>2
    <3> HIDE DEF n, step, init
    <3>2. Recursive(Bytes, n, init, step)
      BY <1>1, <2>1, <3>1, Recursion
    <3> QED  BY <3>2 DEF Recursive, GoesOn, init
  <2>4. ASSUME NEW i \in 1..n PROVE f[i] = f[i - 1] \o text[i]
    <3>1. i - 1 \in 0..n /\ f[i - 1] \in Bytes
      BY <1>1, <2>3
    <3>2. <<i, f[i - 1]>> \in (1..n) \X Bytes
      BY <3>1
    <3> QED  BY <2>3, <3>2
  <2>5. \E u : u = F(u)
    <3> DEFINE u == [i \in 1..n |-> f[i]]
    <3>1. f[1] = text[1]
      <4>1. 1 \in 1..n /\ f[1] = <<>> \o text[1]
        BY <1>1, <1>3, <2>3, <2>4
      <4> QED  BY <1>1, <4>1, ConcatEmptySeq DEF Bytes
    <3>2. \A i \in 1..n : i # 1 => f[i] = u[i - 1] \o text[i]
      BY <1>1, <2>4
    <3> QED  BY <3>1, <3>2
  <2>6. flat = F(flat)
    <3> HIDE DEF F
    <3> QED  BY <2>5
  <2>11. \A i \in 1..n : flat[i] = IF i = 1 THEN text[i] ELSE flat[i - 1] \o text[i]
    <3> HIDE DEF flat
    <3> QED  BY <2>6
  <2>7. Encode(text) = flat[n]
    BY <1>3 DEF Encode, FlattenSeq
  <2> DEFINE Q == {k \in Nat : k \in 1..n => flat[k] = f[k]}
  <2> HIDE DEF flat, step
  <2>8. ASSUME NEW k \in Nat, k \in Q PROVE k + 1 \in Q
    <3> SUFFICES ASSUME k + 1 \in 1..n PROVE flat[k + 1] = f[k + 1]
      OBVIOUS
    <3>1. (k + 1) - 1 = k /\ f[k + 1] = f[k] \o text[k + 1]
      BY <2>4
    <3>2. flat[k + 1] = IF k + 1 = 1 THEN text[k + 1] ELSE flat[k] \o text[k + 1]
      BY <2>11
    <3>3. CASE k = 0
      <4>1. <<>> \o text[1] = text[1]
        BY <1>1, <3>3, ConcatEmptySeq DEF Bytes
      <4>2. flat[1] = text[1] /\ f[1] = <<>> \o text[1]
        BY <2>3, <3>1, <3>2, <3>3
      <4> QED  BY <3>3, <4>1, <4>2
    <3>4. CASE k # 0
      <4>1. flat[k] = f[k]
        BY <1>1, <2>8, <3>4
      <4>2. k + 1 # 1
        BY <3>4
      <4>3. flat[k + 1] = flat[k] \o text[k + 1]
        BY <3>2, <4>2
      <4> QED  BY <3>1, <4>1, <4>3, Zenon
    <3> QED  BY <3>3, <3>4
  <2>9. Nat \subseteq Q
    <3>1. 0 \in Q
      OBVIOUS
    <3> HIDE DEF Q
    <3> QED  BY <2>8, <3>1, NatInduced
  <2>10. flat[n] = f[n]
    BY <1>1, <1>3, <2>9
  <2> QED  BY <2>3, <2>4, <2>7, <2>10 DEF EncodesBy
<1> QED  BY <1>2, <1>3

LEMMA EncodeType ==
  ASSUME NEW text \in Seq(Bytes)
  PROVE  Encode(text) \in Bytes
<1>1. Len(text) \in 0..Len(text)
  OBVIOUS
<1> QED  BY <1>1, EncodeUnfold, ZenonT(40) DEF EncodesBy

LEMMA EncodeEmpty == Encode(<<>>) = <<>>
BY DEF Encode, FlattenSeq

LEMMA EncodeAppend ==
  ASSUME NEW text \in Seq(Bytes), NEW c \in Bytes
  PROVE  Encode(Append(text, c)) = Encode(text) \o c
<1> DEFINE n == Len(text)
           more == Append(text, c)
<1>1. /\ n \in Nat /\ more \in Seq(Bytes) /\ Len(more) = n + 1 /\ more[n + 1] = c
      /\ \A i \in 1..n : more[i] = text[i]
  OBVIOUS
<1>2. PICK f : EncodesBy(f, text)
  BY EncodeUnfold
<1>3. PICK g : EncodesBy(g, more)
  BY <1>1, EncodeUnfold
<1> HIDE DEF n, more
<1>4. /\ f[0] = <<>> /\ f[n] = Encode(text)
      /\ \A i \in 1..n : f[i] = f[i - 1] \o text[i]
  BY <1>2 DEF EncodesBy, n
<1>5. /\ g[0] = <<>> /\ g[n + 1] = Encode(more)
      /\ \A i \in 1..(n + 1) : g[i] = g[i - 1] \o more[i]
  BY <1>1, <1>3 DEF EncodesBy
<1> DEFINE Q == {k \in Nat : k <= n => g[k] = f[k]}
<1>6. ASSUME NEW k \in Nat, k \in Q PROVE k + 1 \in Q
  <2> SUFFICES ASSUME k + 1 <= n PROVE g[k + 1] = f[k + 1]
    OBVIOUS
  <2>1. k + 1 \in 1..n /\ k + 1 \in 1..(n + 1) /\ (k + 1) - 1 = k /\ g[k] = f[k]
    BY <1>1, <1>6
  <2> QED  BY <1>1, <1>4, <1>5, <2>1
<1>7. Nat \subseteq Q
  <2>1. 0 \in Q
    BY <1>4, <1>5
  <2> HIDE DEF Q
  <2> QED  BY <1>6, <2>1, NatInduced
<1>8. g[n] = f[n]
  BY <1>1, <1>7
<1>9. g[n + 1] = g[n] \o c
  <2>1. n + 1 \in 1..(n + 1) /\ (n + 1) - 1 = n
    BY <1>1
  <2> QED  BY <1>1, <1>5, <2>1
<1> QED  BY <1>4, <1>5, <1>8, <1>9 DEF more

-----------------------------------------------------------------------------
(* Reading                                                                 *)

States == [out : Seq(Bytes), part : Bytes]

Started == [out |-> <<>>, part |-> <<>>]

LEMMA StartedType == Started \in States
BY DEF Started, States, Bytes

LEMMA ReadType ==
  ASSUME NEW st \in States, NEW b \in Byte
  PROVE  Read(st, b) \in States
<1>1. st = [out |-> st.out, part |-> st.part] /\ st.out \in Seq(Bytes) /\ st.part \in Bytes
  BY DEF States
<1>2. FFFD \in Bytes /\ <<b>> \in Bytes /\ <<>> \in Bytes
  BY DEF FFFD, Byte, Bytes
<1>3. Append(st.part, b) \in Bytes
  BY <1>1 DEF Bytes
<1>4. /\ Append(st.out, FFFD) \in Seq(Bytes)
      /\ Append(st.out, Append(st.part, b)) \in Seq(Bytes)
      /\ \A o \in Seq(Bytes) : Append(o, <<b>>) \in Seq(Bytes) /\ Append(o, FFFD) \in Seq(Bytes)
  BY <1>1, <1>2, <1>3, AppendProperties
<1> DEFINE out == IF st.part = <<>> THEN st.out ELSE Append(st.out, FFFD)
           part == Append(st.part, b)
           last == IF Ascii(b) THEN <<b>> ELSE FFFD
<1>5. out \in Seq(Bytes) /\ Append(out, last) \in Seq(Bytes)
  BY <1>1, <1>4
<1>6. \A o \in Seq(Bytes), q \in Bytes : [out |-> o, part |-> q] \in States
  BY DEF States
<1>7. Read(st, b) =
        IF Continues(st.part, b)
        THEN IF Len(part) = Width(part[1]) THEN [out |-> Append(st.out, part), part |-> <<>>]
             ELSE [out |-> st.out, part |-> part]
        ELSE IF b \in Leads THEN [out |-> out, part |-> <<b>>]
        ELSE [out |-> Append(out, last), part |-> <<>>]
  BY DEF Read
<1> HIDE DEF out, last
<1> QED  BY <1>1, <1>2, <1>3, <1>4, <1>5, <1>6, <1>7

\* The decoder reads a byte at a time.
ReadsBy(f, bytes) ==
  /\ f \in [0..Len(bytes) -> States] /\ f[0] = Started /\ f[Len(bytes)] = Reading(bytes)
  /\ \A i \in 1..Len(bytes) : f[i] = Read(f[i - 1], bytes[i])

LEMMA ReadingUnfold ==
  ASSUME NEW bytes \in Bytes
  PROVE  \E f : ReadsBy(f, bytes)
<1> DEFINE n == Len(bytes)
           step == [p \in (1..n) \X States |-> Read(p[2], bytes[p[1]])]
           F(u) == [i \in 0..n |-> IF i = 0 THEN Started ELSE Read(u[i - 1], bytes[i])]
           read == CHOOSE u : u = F(u)
<1>1. n \in Nat /\ \A i \in 1..n : bytes[i] \in Byte
  BY DEF Bytes
<1>2. step \in [(1..n) \X States -> States]
  <2>1. \A p \in (1..n) \X States : p[2] \in States /\ bytes[p[1]] \in Byte
    BY <1>1
  <2> QED  BY <2>1, ReadType
<1>3. PICK f \in [0..n -> States] : GoesOn(f, n, Started, step)
  <2> HIDE DEF n, step
  <2>1. Recursive(States, n, Started, step)
    BY <1>1, <1>2, StartedType, Recursion
  <2> QED  BY <2>1 DEF Recursive
<1>4. ASSUME NEW i \in 1..n PROVE f[i] = Read(f[i - 1], bytes[i])
  <2>1. i - 1 \in 0..n /\ f[i - 1] \in States
    <3> HIDE DEF n
    <3> QED  BY <1>1, <1>3
  <2>2. <<i, f[i - 1]>> \in (1..n) \X States
    BY <2>1
  <2> QED  BY <1>3, <2>2 DEF GoesOn
<1>5. f = F(f)
  BY <1>3, <1>4 DEF GoesOn
<1>6. read = F(read)
  <2> HIDE DEF F
  <2> QED  BY <1>5
<1>7. Reading(bytes) = read[n]
  BY DEF Reading, Started
<1> HIDE DEF read
<1>8. /\ read[0] = Started
      /\ \A i \in 1..n : read[i] = Read(read[i - 1], bytes[i])
  BY <1>1, <1>6
<1> HIDE DEF F, step, n
<1> DEFINE Q == {k \in Nat : k <= n => read[k] = f[k]}
<1>9. ASSUME NEW k \in Nat, k \in Q PROVE k + 1 \in Q
  <2> SUFFICES ASSUME k + 1 <= n PROVE read[k + 1] = f[k + 1]
    OBVIOUS
  <2>1. k + 1 \in 1..n /\ (k + 1) - 1 = k /\ read[k] = f[k]
    BY <1>1, <1>9
  <2> QED  BY <1>4, <1>8, <2>1
<1>10. Nat \subseteq Q
  <2>1. 0 \in Q
    BY <1>3, <1>8 DEF GoesOn
  <2> HIDE DEF Q
  <2> QED  BY <1>9, <2>1, NatInduced
<1>11. Reading(bytes) = f[n]
  BY <1>1, <1>7, <1>10
<1> QED  BY <1>3, <1>4, <1>11 DEF ReadsBy, GoesOn, n

LEMMA ReadingType ==
  ASSUME NEW bytes \in Bytes
  PROVE  Reading(bytes) \in States
<1>1. Len(bytes) \in 0..Len(bytes)
  BY DEF Bytes
<1> QED  BY <1>1, ReadingUnfold DEF ReadsBy

LEMMA ReadingEmpty == Reading(<<>>) = Started
<1>1. <<>> \in Bytes /\ Len(<<>>) = 0
  BY DEF Bytes
<1> QED  BY <1>1, ReadingUnfold DEF ReadsBy

LEMMA ReadingAppend ==
  ASSUME NEW bytes \in Bytes, NEW b \in Byte
  PROVE  Reading(Append(bytes, b)) = Read(Reading(bytes), b)
<1> DEFINE n == Len(bytes)
           more == Append(bytes, b)
<1>1. /\ n \in Nat /\ more \in Bytes /\ Len(more) = n + 1 /\ more[n + 1] = b
      /\ \A i \in 1..n : more[i] = bytes[i]
  BY DEF Bytes
<1>2. PICK f : ReadsBy(f, bytes)
  BY ReadingUnfold
<1>3. PICK g : ReadsBy(g, more)
  BY <1>1, ReadingUnfold
<1> HIDE DEF n, more
<1>4. /\ f[0] = Started /\ f[n] = Reading(bytes)
      /\ \A i \in 1..n : f[i] = Read(f[i - 1], bytes[i])
  BY <1>2 DEF ReadsBy, n
<1>5. /\ g[0] = Started /\ g[n + 1] = Reading(more)
      /\ \A i \in 1..(n + 1) : g[i] = Read(g[i - 1], more[i])
  BY <1>1, <1>3 DEF ReadsBy
<1> DEFINE Q == {k \in Nat : k <= n => g[k] = f[k]}
<1>6. ASSUME NEW k \in Nat, k \in Q PROVE k + 1 \in Q
  <2> SUFFICES ASSUME k + 1 <= n PROVE g[k + 1] = f[k + 1]
    OBVIOUS
  <2>1. k + 1 \in 1..n /\ k + 1 \in 1..(n + 1) /\ (k + 1) - 1 = k /\ g[k] = f[k]
    BY <1>1, <1>6
  <2> QED  BY <1>1, <1>4, <1>5, <2>1
<1>7. Nat \subseteq Q
  <2>1. 0 \in Q
    BY <1>4, <1>5
  <2> HIDE DEF Q
  <2> QED  BY <1>6, <2>1, NatInduced
<1>8. g[n] = f[n]
  BY <1>1, <1>7
<1>9. g[n + 1] = Read(g[n], b)
  <2>1. n + 1 \in 1..(n + 1) /\ (n + 1) - 1 = n
    BY <1>1
  <2> QED  BY <1>1, <1>5, <2>1
<1> QED  BY <1>4, <1>5, <1>8, <1>9 DEF more

-----------------------------------------------------------------------------
(* Characters                                                              *)

\* What is one character of UTF-8.
Characters ==
  {c \in Bytes :
     /\ c # <<>>
     /\ IF c[1] \in Leads
        THEN /\ Len(c) = Width(c[1])
             /\ \A i \in 2..Len(c) : c[i] \in Continuations
             /\ c[1] = 7 => c[2] = 5
        ELSE Ascii(c[1]) /\ Len(c) = 1}

Texts == Seq(Characters)

LEMMA CharacterBytes ==
  ASSUME NEW c \in Characters
  PROVE  c \in Bytes /\ Len(c) \in Nat /\ Len(c) \in 1..4
<1>1. c \in Bytes /\ c # <<>>
  BY DEF Characters, Bytes
<1>2. Len(c) \in Nat /\ Len(c) # 0
  BY <1>1, EmptySeq, LenProperties
<1>3. CASE c[1] \in Leads
  <2>1. Len(c) = Width(c[1])
    BY <1>3 DEF Characters
  <2> QED  BY <1>1, <1>2, <1>3, <2>1 DEF Leads, Width
<1>4. CASE c[1] \notin Leads
  BY <1>1, <1>2, <1>4 DEF Characters
<1> QED  BY <1>1, <1>2, <1>3, <1>4

LEMMA WideCharacter ==
  ASSUME NEW c \in Characters, Len(c) # 1
  PROVE  /\ c[1] \in Leads /\ Len(c) = Width(c[1])
         /\ \A i \in 2..Len(c) : c[i] \in Continuations
         /\ c[1] = 7 => c[2] = 5
<1>1. c[1] \in Leads
  BY DEF Characters
<1> QED  BY <1>1 DEF Characters

LEMMA TextBytes == Texts \subseteq Seq(Bytes)
BY CharacterBytes DEF Texts

\* A character's bytes are read into it.
LEMMA CharacterRead ==
  ASSUME NEW out \in Seq(Bytes), NEW c \in Characters, NEW r \in Nat, r < Len(c)
  PROVE  Read([out |-> out, part |-> SubSeq(c, 1, r)], c[r + 1]) =
           IF r + 1 = Len(c) THEN [out |-> Append(out, c), part |-> <<>>]
           ELSE [out |-> out, part |-> SubSeq(c, 1, r + 1)]
<1> DEFINE part == SubSeq(c, 1, r)
           b == c[r + 1]
<1>1. c \in Bytes /\ Len(c) \in Nat /\ Len(c) \in 1..4
  BY CharacterBytes
<1>2. /\ part \in Bytes /\ Len(part) = r /\ b \in Byte
      /\ \A i \in 1..r : part[i] = c[i]
      /\ SubSeq(c, 1, r + 1) = Append(part, b)
      /\ r + 1 = Len(c) => Append(part, b) = c
  BY <1>1, PrefixStep DEF Bytes
<1>3. b = c[r + 1]
  OBVIOUS
<1>4. SUFFICES Read([out |-> out, part |-> part], b) =
                 IF r + 1 = Len(c) THEN [out |-> Append(out, c), part |-> <<>>]
                 ELSE [out |-> out, part |-> Append(part, b)]
  BY <1>2
<1> HIDE DEF part, b
<1>5. CASE r = 0
  <2>1. part = <<>> /\ Append(part, b) = <<b>> /\ b = c[1]
    BY <1>2, <1>3, <1>5, EmptySeq
  <2>2. ~Continues(part, b)
    BY <2>1 DEF Continues
  <2>3. Read([out |-> out, part |-> part], b) =
          IF b \in Leads THEN [out |-> out, part |-> <<b>>]
          ELSE [out |-> Append(out, IF Ascii(b) THEN <<b>> ELSE FFFD), part |-> <<>>]
    BY <2>1, <2>2 DEF Read
  <2>4. CASE b \in Leads
    <3>1. r + 1 # Len(c)
      BY <1>5, <2>1, <2>4 DEF Characters, Leads, Width
    <3> QED  BY <1>5, <2>1, <2>3, <2>4, <3>1
  <2>5. CASE b \notin Leads
    <3>1. Ascii(b) /\ r + 1 = Len(c)
      BY <1>5, <2>1, <2>5 DEF Characters
    <3> QED  BY <1>2, <1>5, <2>1, <2>3, <2>5, <3>1
  <2> QED  BY <2>4, <2>5
<1>6. CASE r # 0
  <2>0. Len(c) # 1
    <3>1. \A n \in Nat : r < n => n # 1
      BY <1>6
    <3> QED  BY <1>1, <3>1
  <2>1. c[1] \in Leads
    BY <2>0 DEF Characters
  <2>2. /\ Len(c) = Width(c[1]) /\ \A i \in 2..Len(c) : c[i] \in Continuations
        /\ c[1] = 7 => c[2] = 5
    BY <2>1 DEF Characters
  <2>3. b \in Continuations /\ (c[1] = 7 /\ r = 1 => b = 5)
    BY <1>1, <1>3, <1>6, <2>2
  <2>4. 1 \in 1..r /\ part[1] = c[1] /\ part # <<>>
    BY <1>2, <1>6
  <2>5. part = <<7>> => c[1] = 7 /\ r = 1
    BY <1>2, <2>4
  <2>6. Continues(part, b)
    BY <2>3, <2>4, <2>5 DEF Continues
  <2>7. Append(part, b)[1] = c[1] /\ Len(Append(part, b)) = r + 1
    BY <1>2, <2>4
  <2>8. Read([out |-> out, part |-> part], b) =
          IF r + 1 = Width(c[1]) THEN [out |-> Append(out, Append(part, b)), part |-> <<>>]
          ELSE [out |-> out, part |-> Append(part, b)]
    BY <2>6, <2>7 DEF Read
  <2> QED  BY <1>2, <2>2, <2>8
<1> QED  BY <1>5, <1>6

\* The decoder has read exactly out.
HasRead(bytes, out) == Reading(bytes) = [out |-> out, part |-> <<>>]

LEMMA ReadingWithin ==
  ASSUME NEW bytes \in Bytes, NEW out \in Seq(Bytes), HasRead(bytes, out),
         NEW c \in Characters, NEW r \in Nat, r < Len(c)
  PROVE  Reading(bytes \o SubSeq(c, 1, r)) = [out |-> out, part |-> SubSeq(c, 1, r)]
<1>1. c \in Bytes /\ Len(c) \in Nat
  BY CharacterBytes
<1> DEFINE Q == {i \in Nat : i < Len(c) =>
                   Reading(bytes \o SubSeq(c, 1, i)) = [out |-> out, part |-> SubSeq(c, 1, i)]}
<1>2. 0 \in Q
  <2>1. SubSeq(c, 1, 0) = <<>> /\ bytes \o <<>> = bytes
    BY <1>1, SubSeqEmpty, ConcatEmptySeq
  <2> QED  BY <2>1 DEF HasRead
<1>3. ASSUME NEW i \in Nat, i \in Q PROVE i + 1 \in Q
  <2> SUFFICES ASSUME i + 1 < Len(c)
               PROVE  Reading(bytes \o SubSeq(c, 1, i + 1)) =
                        [out |-> out, part |-> SubSeq(c, 1, i + 1)]
    OBVIOUS
  <2> DEFINE part == SubSeq(c, 1, i)
  <2>1. i < Len(c) /\ i + 1 # Len(c)
    BY <1>1
  <2>2. part \in Bytes /\ c[i + 1] \in Byte /\ SubSeq(c, 1, i + 1) = Append(part, c[i + 1])
    BY <1>1, <2>1, PrefixStep DEF Bytes
  <2>3. Reading(bytes \o part) = [out |-> out, part |-> part]
    BY <1>3, <2>1
  <2>4. bytes \o Append(part, c[i + 1]) = Append(bytes \o part, c[i + 1]) /\ bytes \o part \in Bytes
    BY <1>1, <2>2, AppendOfConcat DEF Bytes
  <2>5. Read([out |-> out, part |-> part], c[i + 1]) = [out |-> out, part |-> SubSeq(c, 1, i + 1)]
    BY <2>1, CharacterRead
  <2> HIDE DEF part
  <2> QED  BY <2>2, <2>3, <2>4, <2>5, ReadingAppend
<1>4. Nat \subseteq Q
  <2> HIDE DEF Q
  <2> QED  BY <1>2, <1>3, NatInduced
<1> QED  BY <1>4

LEMMA ReadingCharacter ==
  ASSUME NEW bytes \in Bytes, NEW out \in Seq(Bytes), HasRead(bytes, out), NEW c \in Characters
  PROVE  HasRead(bytes \o c, Append(out, c))
<1>1. c \in Bytes /\ Len(c) \in Nat /\ Len(c) \in 1..4
  BY CharacterBytes, SMTT(60)
<1>2. PICK r \in Nat : r + 1 = Len(c) /\ r < Len(c)
  <2>1. Len(c) - 1 \in Nat /\ (Len(c) - 1) + 1 = Len(c) /\ Len(c) - 1 < Len(c)
    BY <1>1
  <2> QED  BY <2>1
<1> DEFINE part == SubSeq(c, 1, r)
<1>3. part \in Bytes /\ c[r + 1] \in Byte /\ c = Append(part, c[r + 1])
  BY <1>1, <1>2, PrefixStep DEF Bytes
<1>4. Reading(bytes \o part) = [out |-> out, part |-> part]
  BY <1>2, ReadingWithin
<1>5. Read([out |-> out, part |-> part], c[r + 1]) = [out |-> Append(out, c), part |-> <<>>]
  BY <1>2, CharacterRead
<1> HIDE DEF part
<1>6. bytes \o Append(part, c[r + 1]) = Append(bytes \o part, c[r + 1]) /\ bytes \o part \in Bytes
  BY <1>1, <1>3, AppendOfConcat DEF Bytes
<1> QED  BY <1>3, <1>4, <1>5, <1>6, ReadingAppend DEF HasRead

LEMMA ReadingText ==
  ASSUME NEW bytes \in Bytes, NEW out \in Seq(Bytes), HasRead(bytes, out), NEW text \in Texts
  PROVE  HasRead(bytes \o Encode(text), out \o text)
<1> DEFINE Q == {t \in Texts : HasRead(bytes \o Encode(t), out \o t)}
<1>1. <<>> \in Q
  <2>1. bytes \o <<>> = bytes /\ out \o <<>> = out
    BY ConcatEmptySeq DEF Bytes
  <2>2. <<>> \in Texts
    BY DEF Texts
  <2> QED  BY <2>1, <2>2, EncodeEmpty
<1>2. ASSUME NEW t \in Texts, NEW c \in Characters, t \in Q PROVE Append(t, c) \in Q
  <2>1. t \in Seq(Bytes) /\ c \in Bytes
    BY TextBytes, CharacterBytes
  <2>2. Append(t, c) \in Texts
    BY DEF Texts
  <2>3. Encode(t) \in Bytes /\ Encode(Append(t, c)) = Encode(t) \o c
    BY <2>1, EncodeType, EncodeAppend
  <2>4. bytes \o (Encode(t) \o c) = (bytes \o Encode(t)) \o c /\ bytes \o Encode(t) \in Bytes
    <3>1. {bytes, Encode(t), c} \subseteq Seq(Byte)
      BY <2>1, <2>3 DEF Bytes
    <3> QED  BY <3>1, ConcatProperties, ConcatAssociative, SMTT(60) DEF Bytes
  <2>5. out \o Append(t, c) = Append(out \o t, c) /\ out \o t \in Seq(Bytes)
    BY <2>1, AppendOfConcat
  <2>6. HasRead((bytes \o Encode(t)) \o c, Append(out \o t, c))
    BY <1>2, <2>4, <2>5, ReadingCharacter
  <2> QED  BY <2>2, <2>3, <2>4, <2>5, <2>6
<1>3. Texts \subseteq Q
  <2> HIDE DEF Q
  <2> QED  BY <1>1, <1>2, SeqInduced DEF Texts
<1> QED  BY <1>3

-----------------------------------------------------------------------------
(* A text cut at a byte                                                    *)

LEMMA EncodeConcat ==
  ASSUME NEW a \in Seq(Bytes), NEW b \in Seq(Bytes)
  PROVE  Encode(a \o b) = Encode(a) \o Encode(b)
<1> DEFINE Q == {t \in Seq(Bytes) : Encode(a \o t) = Encode(a) \o Encode(t)}
<1>0. Encode(a) \in Bytes
  BY EncodeType
<1>1. <<>> \in Q
  <2>1. a \o <<>> = a /\ Encode(a) \o <<>> = Encode(a)
    BY <1>0, ConcatEmptySeq DEF Bytes
  <2>2. <<>> \in Seq(Bytes)
    OBVIOUS
  <2> QED  BY <2>1, <2>2, EncodeEmpty
<1>2. ASSUME NEW t \in Seq(Bytes), NEW c \in Bytes, t \in Q PROVE Append(t, c) \in Q
  <2>1. a \o Append(t, c) = Append(a \o t, c) /\ a \o t \in Seq(Bytes)
    BY AppendOfConcat
  <2>2. Encode(a \o Append(t, c)) = (Encode(a) \o Encode(t)) \o c
    BY <1>2, <2>1, EncodeAppend
  <2>3. Encode(Append(t, c)) = Encode(t) \o c /\ Encode(t) \in Bytes
    BY EncodeAppend, EncodeType
  <2>4. (Encode(a) \o Encode(t)) \o c = Encode(a) \o (Encode(t) \o c)
    <3>1. {Encode(a), Encode(t), c} \subseteq Seq(Byte)
      BY <1>0, <2>3 DEF Bytes
    <3> QED  BY <3>1, ConcatAssociative, SMTT(60)
  <2>5. Append(t, c) \in Seq(Bytes)
    OBVIOUS
  <2> QED  BY <2>2, <2>3, <2>4, <2>5
<1>3. Seq(Bytes) \subseteq Q
  <2> HIDE DEF Q
  <2> QED  BY <1>1, <1>2, SeqInduced
<1> QED  BY <1>3

\* Byte n + 1 of text is byte r + 1 of c, between head and rest.
Cut(text, n, head, c, rest, r) ==
  /\ head \in Texts /\ c \in Characters /\ rest \in Texts
  /\ r \in Nat /\ r < Len(c)
  /\ text = Append(head, c) \o rest
  /\ n = ByteLength(head) + r

LEMMA TextCut ==
  ASSUME NEW text \in Texts, NEW n \in Nat, n < ByteLength(text)
  PROVE  \E head, c, rest, r : Cut(text, n, head, c, rest, r)
<1> DEFINE Q == {t \in Texts : \A m \in Nat : m < ByteLength(t) =>
                   \E head, c, rest, r : Cut(t, m, head, c, rest, r)}
<1>1. <<>> \in Q
  <2>1. ByteLength(<<>>) = 0 /\ <<>> \in Texts
    BY EncodeEmpty DEF ByteLength, Texts
  <2>2. \A m \in Nat : ~(m < 0)
    OBVIOUS
  <2> QED  BY <2>1, <2>2
<1>2. ASSUME NEW t \in Texts, NEW x \in Characters, t \in Q PROVE Append(t, x) \in Q
  <2>1. Append(t, x) \in Texts /\ t \in Seq(Characters)
    BY DEF Texts
  <2> SUFFICES ASSUME NEW m \in Nat, m < ByteLength(Append(t, x))
               PROVE  \E head, c, rest, r : Cut(Append(t, x), m, head, c, rest, r)
    BY <2>1
  <2>2. ByteLength(t) \in Nat /\ Len(x) \in Nat /\ ByteLength(Append(t, x)) = ByteLength(t) + Len(x)
    <3>1. t \in Seq(Bytes) /\ x \in Bytes
      BY TextBytes, CharacterBytes
    <3>2. Encode(t) \in Seq(Byte) /\ x \in Seq(Byte) /\ Encode(Append(t, x)) = Encode(t) \o x
      BY <3>1, EncodeType, EncodeAppend DEF Bytes
    <3> QED  BY <3>2, ConcatProperties, LenProperties DEF ByteLength
  <2>3. CASE m < ByteLength(t)
    <3>1. PICK head, c, rest, r : Cut(t, m, head, c, rest, r)
      BY <1>2, <2>3
    <3>2. head \in Seq(Characters) /\ rest \in Seq(Characters) /\ c \in Characters
      BY <3>1 DEF Cut, Texts
    <3>3. Append(head, c) \in Seq(Characters) /\ Append(rest, x) \in Texts
      BY <3>2 DEF Texts
    <3>4. Append(Append(head, c) \o rest, x) = Append(head, c) \o Append(rest, x)
      <4> DEFINE h == Append(head, c)
      <4>1. h \in Seq(Characters) /\ rest \in Seq(Characters)
        BY <3>2, <3>3
      <4> HIDE DEF h
      <4>2. h \o Append(rest, x) = Append(h \o rest, x)
        BY <4>1, AppendOfConcat
      <4> QED  BY <4>2 DEF h
    <3>5. Cut(Append(t, x), m, head, c, Append(rest, x), r)
      BY <3>1, <3>3, <3>4 DEF Cut
    <3> QED  BY <3>5
  <2>4. CASE ~(m < ByteLength(t))
    <3>1. PICK r \in Nat : m = ByteLength(t) + r
      <4>1. m - ByteLength(t) \in Nat /\ m = ByteLength(t) + (m - ByteLength(t))
        BY <2>2, <2>4
      <4> QED  BY <4>1
    <3>2. r < Len(x)
      BY <2>2, <3>1
    <3>3. Append(t, x) \o <<>> = Append(t, x) /\ <<>> \in Texts
      BY <2>1, ConcatEmptySeq DEF Texts
    <3>4. Cut(Append(t, x), m, t, x, <<>>, r)
      BY <3>1, <3>2, <3>3 DEF Cut
    <3> QED  BY <3>4
  <2> QED  BY <2>3, <2>4
<1>3. Texts \subseteq Q
  <2> HIDE DEF Q
  <2> QED  BY <1>1, <1>2, SeqInduced DEF Texts
<1> QED  BY <1>3

\* Two sequences joined, and cut again inside the first.
LEMMA CutOfConcat ==
  ASSUME NEW S, NEW a \in Seq(S), NEW b \in Seq(S), NEW i \in Nat, i <= Len(a)
  PROVE  /\ SubSeq(a \o b, 1, i) = SubSeq(a, 1, i)
         /\ SubSeq(a \o b, i + 1, Len(a \o b)) = SubSeq(a, i + 1, Len(a)) \o b
<1>1. Len(a) \in Nat /\ Len(b) \in Nat /\ Len(a \o b) = Len(a) + Len(b) /\ a \o b \in Seq(S)
  OBVIOUS
<1>2. SubSeq(a \o b, 1, i) = SubSeq(a, 1, i)
  OBVIOUS
<1>3. SubSeq(a \o b, i + 1, Len(a \o b)) = SubSeq(a, i + 1, Len(a)) \o b
  <2> DEFINE u == SubSeq(a \o b, i + 1, Len(a \o b))
             t == SubSeq(a, i + 1, Len(a))
  <2>1. t \in Seq(S) /\ Len(t) = Len(a) - i /\ \A j \in 1..(Len(a) - i) : t[j] = a[i + j]
    OBVIOUS
  <2>2. /\ u \in Seq(S) /\ Len(u) = Len(a) + Len(b) - i
        /\ \A j \in 1..(Len(a) + Len(b) - i) : u[j] = (a \o b)[i + j]
    BY <1>1
  <2>3. \A j \in 1..(Len(a) + Len(b) - i) :
          (a \o b)[i + j] = IF i + j <= Len(a) THEN a[i + j] ELSE b[i + j - Len(a)]
    BY <1>1
  <2> HIDE DEF u, t
  <2>4. t \o b \in Seq(S) /\ Len(t \o b) = Len(u)
    <3>1. t \o b \in Seq(S) /\ Len(t \o b) = Len(t) + Len(b)
      BY <1>1, <2>1
    <3> QED  BY <1>1, <2>1, <2>2, <3>1
  <2>5. ASSUME NEW j \in 1..Len(u) PROVE u[j] = (t \o b)[j]
    <3>1. (t \o b)[j] = IF j <= Len(t) THEN t[j] ELSE b[j - Len(t)]
      BY <1>1, <2>1, <2>2
    <3> QED  BY <1>1, <2>1, <2>2, <2>3, <3>1
  <2> QED  BY <2>2, <2>4, <2>5, SeqEqual DEF u, t
<1> QED  BY <1>2, <1>3

\* The first n elements, and the others.
Taken(s, n) == SubSeq(s, 1, n)
Dropped(s, n) == SubSeq(s, n + 1, Len(s))

LEMMA CutBytes ==
  ASSUME NEW text \in Texts, NEW n \in Nat, NEW head, NEW c, NEW rest, NEW r,
         Cut(text, n, head, c, rest, r)
  PROVE  /\ {Encode(head), c, Encode(rest)} \subseteq Bytes
         /\ Len(c) \in Nat /\ ByteLength(head) \in Nat /\ ByteLength(rest) \in Nat /\ r \in Nat
         /\ ByteLength(text) = ByteLength(head) + Len(c) + ByteLength(rest)
         /\ Taken(Encode(text), n) = Encode(head) \o Taken(c, r)
         /\ Dropped(Encode(text), n) = Dropped(c, r) \o Encode(rest)
<1> DEFINE h == Encode(head)
           e == Encode(rest)
<1>1. /\ head \in Seq(Bytes) /\ c \in Bytes /\ rest \in Seq(Bytes) /\ Len(c) \in Nat
      /\ r \in Nat /\ r < Len(c) /\ n = Len(h) + r /\ text = Append(head, c) \o rest
  BY TextBytes, CharacterBytes DEF Cut, ByteLength
<1>2. h \in Seq(Byte) /\ c \in Seq(Byte) /\ e \in Seq(Byte)
  BY <1>1, EncodeType DEF Bytes
<1>3. Encode(text) = (h \o c) \o e
  <2>1. Append(head, c) \in Seq(Bytes)
    BY <1>1
  <2> QED  BY <1>1, <2>1, EncodeConcat, EncodeAppend
<1> HIDE DEF h, e
<1>4. /\ h \o c \in Seq(Byte) /\ Len(h) \in Nat /\ Len(e) \in Nat
      /\ Len(h \o c) = Len(h) + Len(c) /\ Len((h \o c) \o e) = Len(h) + Len(c) + Len(e)
  BY <1>2, ConcatProperties, LenProperties
<1>5. n \in Nat /\ n <= Len(h \o c)
  BY <1>1, <1>4
<1>6. /\ SubSeq((h \o c) \o e, 1, n) = SubSeq(h \o c, 1, n)
      /\ SubSeq((h \o c) \o e, n + 1, Len((h \o c) \o e)) = SubSeq(h \o c, n + 1, Len(h \o c)) \o e
  BY <1>2, <1>4, <1>5, CutOfConcat
<1>7. SubSeq(h \o c, 1, Len(h) + r) = h \o SubSeq(c, 1, r)
  BY <1>1, <1>2, SMTT(60)
<1>8. SubSeq(h \o c, Len(h) + r + 1, Len(h \o c)) = SubSeq(c, r + 1, Len(c))
  BY <1>1, <1>2
<1>9. Taken(Encode(text), n) = h \o Taken(c, r)
  BY <1>1, <1>3, <1>6, <1>7 DEF Taken
<1>10. Dropped(Encode(text), n) = Dropped(c, r) \o e
  BY <1>1, <1>3, <1>6, <1>8 DEF Dropped
<1> QED  BY <1>1, <1>2, <1>3, <1>4, <1>9, <1>10 DEF ByteLength, Bytes, h, e

LEMMA PrefixByElements ==
  ASSUME NEW S, NEW s \in Seq(S), NEW t \in Seq(S), Len(s) <= Len(t),
         \A i \in 1..Len(s) : s[i] = t[i]
  PROVE  IsPrefix(s, t)
<1>1. SubSeq(t, 1, Len(s)) \in Seq(S) /\ Len(SubSeq(t, 1, Len(s))) = Len(s)
      /\ \A i \in 1..Len(s) : SubSeq(t, 1, Len(s))[i] = t[i]
  OBVIOUS
<1>2. SubSeq(s, 1, Len(s)) = s
  BY SubSeqFull
<1>3. SubSeq(t, 1, Len(s)) = s
  BY <1>1, SeqEqual
<1> QED  BY <1>2, <1>3 DEF IsPrefix

\* The characters of a text that is cut.
LEMMA CutText ==
  ASSUME NEW text \in Texts, NEW n \in Nat, NEW head, NEW c, NEW rest, NEW r,
         Cut(text, n, head, c, rest, r)
  PROVE  /\ {Len(head), Len(rest), Len(text)} \subseteq Nat
         /\ Len(text) = Len(head) + 1 + Len(rest)
         /\ \A i \in 1..Len(head) : text[i] = head[i]
         /\ text[Len(head) + 1] = c
         /\ \A i \in 1..Len(rest) : text[Len(head) + 1 + i] = rest[i]
<1> DEFINE h == Append(head, c)
<1>1. head \in Seq(Characters) /\ c \in Characters /\ rest \in Seq(Characters) /\ text = h \o rest
  BY DEF Cut, Texts
<1>2. /\ h \in Seq(Characters) /\ Len(h) = Len(head) + 1 /\ h[Len(head) + 1] = c
      /\ \A i \in 1..Len(head) : h[i] = head[i]
  BY <1>1, AppendProperties
<1> HIDE DEF h
<1>3. /\ Len(head) \in Nat /\ Len(rest) \in Nat /\ Len(h \o rest) = Len(h) + Len(rest)
      /\ \A i \in 1..(Len(h) + Len(rest)) :
           (h \o rest)[i] = IF i <= Len(h) THEN h[i] ELSE rest[i - Len(h)]
  BY <1>1, <1>2, ConcatProperties, LenProperties
<1>4. \A i \in 1..Len(rest) : i = (Len(head) + 1 + i) - Len(h)
  BY <1>2, <1>3
<1> HIDE DEF h
<1>5. \A i \in 1..Len(rest) : text[Len(head) + 1 + i] = rest[i]
  BY <1>1, <1>2, <1>3, <1>4
<1>6. text[Len(head) + 1] = c /\ \A i \in 1..Len(head) : text[i] = head[i]
  BY <1>1, <1>2, <1>3
<1> QED  BY <1>1, <1>2, <1>3, <1>5, <1>6

\* What is decoded of a text's bytes up to a byte.
LEMMA HeadDecoded ==
  ASSUME NEW text \in Texts, NEW n \in Nat, NEW head, NEW c, NEW rest, NEW r,
         Cut(text, n, head, c, rest, r)
  PROVE  Decode(SubSeq(Encode(text), 1, n)) = IF r = 0 THEN head ELSE Append(head, FFFD)
<1>1. head \in Texts /\ head \in Seq(Bytes) /\ c \in Characters /\ c \in Bytes
      /\ r \in Nat /\ r < Len(c) /\ Len(c) \in Nat
  BY TextBytes, CharacterBytes DEF Cut
<1>2. HasRead(<<>>, <<>>) /\ <<>> \in Bytes /\ <<>> \in Seq(Bytes)
  BY ReadingEmpty DEF HasRead, Started, Bytes
<1>3. HasRead(<<>> \o Encode(head), <<>> \o head)
  BY <1>1, <1>2, ReadingText
<1>4. Encode(head) \in Bytes /\ <<>> \o Encode(head) = Encode(head) /\ <<>> \o head = head
  BY <1>1, EncodeType, ConcatEmptySeq DEF Bytes
<1>5. Reading(Encode(head) \o SubSeq(c, 1, r)) = [out |-> head, part |-> SubSeq(c, 1, r)]
  BY <1>1, <1>3, <1>4, ReadingWithin
<1>6. SubSeq(c, 1, r) = <<>> <=> r = 0
  BY <1>1 DEF Bytes
<1>7. SubSeq(Encode(text), 1, n) = Encode(head) \o SubSeq(c, 1, r)
  <2>1. Taken(Encode(text), n) = Encode(head) \o Taken(c, r)
    BY CutBytes
  <2> QED  BY <2>1 DEF Taken
<1> DEFINE bytes == SubSeq(Encode(text), 1, n)
           part == SubSeq(c, 1, r)
<1>8. Reading(bytes) = [out |-> head, part |-> part]
  BY <1>5, <1>7
<1> HIDE DEF bytes, part
<1>9. Decode(bytes) = IF part = <<>> THEN head ELSE Append(head, FFFD)
  BY <1>8 DEF Decode
<1> QED  BY <1>6, <1>9 DEF bytes, part

\* What is true of every text: s is the longest head of t within n bytes, or a
\* U+FFFD of t is the next.
LongestBut(s, t, n) ==
  /\ s \in Texts /\ IsPrefix(s, t) /\ ByteLength(s) <= n
  /\ s # t => LET x == t[Len(s) + 1] IN x = FFFD \/ ByteLength(s) + Len(x) > n

\* A cut inside a character: the characters before it are the most that fit.
LEMMA HeadLongest ==
  ASSUME NEW text \in Texts, NEW n \in Nat, NEW head, NEW c, NEW rest, NEW r,
         Cut(text, n, head, c, rest, r)
  PROVE  LongestBut(head, text, n)
<1>1. head \in Seq(Characters) /\ text \in Seq(Characters) /\ c \in Characters
      /\ r < Len(c) /\ n = ByteLength(head) + r
  BY DEF Cut, Texts
<1>2. /\ {Len(head), Len(text), Len(rest)} \subseteq Nat /\ Len(text) = Len(head) + 1 + Len(rest)
      /\ \A i \in 1..Len(head) : head[i] = text[i]
      /\ text[Len(head) + 1] = c
  BY CutText
<1>3. {Len(c), ByteLength(head), r} \subseteq Nat
  BY CutBytes
<1>4. IsPrefix(head, text)
  BY <1>1, <1>2, PrefixByElements, SMTT(60)
<1>5. ByteLength(head) <= n /\ ByteLength(head) + Len(c) > n
  BY <1>1, <1>3
<1> QED  BY <1>1, <1>2, <1>4, <1>5 DEF LongestBut, Texts

\* The length of a text less its last character.
LEMMA FrontLength ==
  ASSUME NEW text \in Texts, text # <<>>
  PROVE  /\ Front(text) \in Texts /\ Last(text) \in Characters
         /\ Len(text) \in Nat /\ Len(text) = Len(Front(text)) + 1
         /\ \A i \in 1..Len(Front(text)) : Front(text)[i] = text[i]
         /\ text = Append(Front(text), Last(text))
         /\ {ByteLength(Front(text)), Len(Last(text))} \subseteq Nat
         /\ ByteLength(text) = ByteLength(Front(text)) + Len(Last(text))
<1> DEFINE f == Front(text)
           x == Last(text)
<1>1. /\ f \in Seq(Characters) /\ x \in Characters /\ text = Append(f, x)
      /\ Len(text) \in Nat /\ Len(text) = Len(f) + 1 /\ \A i \in 1..Len(f) : f[i] = text[i]
  <2>1. text \in Seq(Characters) /\ Len(text) \in Nat /\ Len(text) # 0
    BY EmptySeq, LenProperties, SMTT(60) DEF Texts
  <2>2. PICK n \in Nat : n + 1 = Len(text) /\ Len(text) - 1 = n /\ n < Len(text)
    <3>1. Len(text) - 1 \in Nat /\ (Len(text) - 1) + 1 = Len(text) /\ Len(text) - 1 < Len(text)
      BY <2>1
    <3> QED  BY <3>1
  <2>3. f = SubSeq(text, 1, n) /\ x = text[n + 1]
    BY <2>2 DEF Front, Last
  <2> HIDE DEF f, x
  <2> QED  BY <2>1, <2>2, <2>3, PrefixStep, SMTT(60)
<1> HIDE DEF f, x
<1>2. f \in Seq(Bytes) /\ x \in Bytes
  BY <1>1, TextBytes, CharacterBytes DEF Texts
<1>3. Encode(f) \in Seq(Byte) /\ x \in Seq(Byte) /\ Encode(text) = Encode(f) \o x
  BY <1>1, <1>2, EncodeType, EncodeAppend DEF Bytes
<1>4. Len(Encode(f)) \in Nat /\ Len(x) \in Nat /\ Len(Encode(text)) = Len(Encode(f)) + Len(x)
  BY <1>3, ConcatProperties, LenProperties
<1> QED  BY <1>1, <1>4 DEF ByteLength, Texts, f, x

LEMMA HeadSliced ==
  ASSUME NEW text \in Texts, NEW n \in Nat
  PROVE  LongestBut(Slice(text, n, "start").slice, text, n)
<1>1. ByteLength(text) \in Nat
  BY TextBytes, EncodeType, LenProperties DEF ByteLength, Bytes
<1>2. CASE ByteLength(text) <= n
  <2>1. Slice(text, n, "start").slice = text
    BY <1>2 DEF Slice, ByteLength
  <2>2. IsPrefix(text, text)
    BY PrefixByElements DEF Texts
  <2> QED  BY <1>2, <2>1, <2>2 DEF LongestBut
<1>3. CASE n < ByteLength(text)
  <2>1. PICK head, c, rest, r : Cut(text, n, head, c, rest, r)
    BY <1>3, TextCut
  <2> DEFINE s == IF r = 0 THEN head ELSE Append(head, FFFD)
  <2>2. Slice(text, n, "start").slice = StripLast(s)
    <3>1. ~(Len(Encode(text)) <= n)
      BY <1>1, <1>3 DEF ByteLength
    <3>2. Decode(SubSeq(Encode(text), 1, n)) = s
      BY <2>1, HeadDecoded
    <3> HIDE DEF s
    <3> QED  BY <3>1, <3>2 DEF Slice
  <2>3. LongestBut(head, text, n)
    BY <2>1, HeadLongest
  <2>4. head \in Texts /\ {r, ByteLength(head)} \subseteq Nat /\ n = ByteLength(head) + r
    <3>1. {Len(c), ByteLength(head), r} \subseteq Nat
      BY <2>1, CutBytes
    <3> QED  BY <2>1, <3>1 DEF Cut
  <2>5. CASE r # 0
    <3>1. Append(head, FFFD) # <<>> /\ Last(Append(head, FFFD)) = FFFD /\ Front(Append(head, FFFD)) = head
      BY <2>4 DEF Texts, Last, Front
    <3> QED  BY <2>2, <2>3, <2>5, <3>1 DEF StripLast
  <2>6. CASE r = 0 /\ ~(head # <<>> /\ Last(head) = FFFD)
    BY <2>2, <2>3, <2>6 DEF StripLast
  <2>7. CASE r = 0 /\ head # <<>> /\ Last(head) = FFFD
    <3> DEFINE f == Front(head)
    <3>1. StripLast(s) = f
      BY <2>7 DEF StripLast
    <3>2. /\ f \in Texts /\ Len(head) \in Nat /\ Len(head) = Len(f) + 1
          /\ \A i \in 1..Len(f) : f[i] = head[i]
          /\ {ByteLength(f), Len(FFFD)} \subseteq Nat
          /\ ByteLength(head) = ByteLength(f) + Len(FFFD)
      BY <2>4, <2>7, FrontLength
    <3>3. /\ {Len(head), Len(rest), Len(text)} \subseteq Nat
          /\ Len(text) = Len(head) + 1 + Len(rest)
          /\ \A i \in 1..Len(head) : text[i] = head[i]
      BY <2>1, CutText
    <3>4. head[Len(head)] = FFFD
      BY <2>7 DEF Last
    <3> HIDE DEF f
    <3>5. Len(f) \in Nat /\ Len(f) <= Len(text) /\ Len(f) + 1 \in 1..Len(head)
      BY <3>2, <3>3 DEF Texts
    <3>6. text[Len(f) + 1] = FFFD
      BY <3>2, <3>3, <3>4, <3>5
    <3>7. \A i \in 1..Len(f) : f[i] = text[i]
      BY <3>2, <3>3, <3>5
    <3>8. IsPrefix(f, text)
      BY <3>2, <3>5, <3>7, PrefixByElements DEF Texts
    <3>9. ByteLength(f) <= n
      BY <2>4, <3>2, SMTT(60)
    <3> QED  BY <2>2, <3>1, <3>2, <3>6, <3>8, <3>9 DEF LongestBut
  <2> QED  BY <2>5, <2>6, <2>7
<1> QED  BY <1>1, <1>2, <1>3

\* Where t has no U+FFFD there is no exception.
LEMMA LongestUnmarked ==
  ASSUME NEW t \in Texts, FFFD \notin ToSet(t), NEW s, NEW n, LongestBut(s, t, n)
  PROVE  Longest(s, t, n)
<1>1. s \in Seq(Characters) /\ t \in Seq(Characters) /\ IsPrefix(s, t) /\ ByteLength(s) <= n
  BY DEF LongestBut, Texts
<1>2. ASSUME s # t PROVE t[Len(s) + 1] # FFFD
  <2>1. Len(s) \in Nat /\ Len(t) \in Nat /\ Len(s) <= Len(t)
        /\ SubSeq(s, 1, Len(s)) = SubSeq(t, 1, Len(s))
    BY <1>1 DEF IsPrefix
  <2>2. SubSeq(s, 1, Len(s)) = s /\ SubSeq(t, 1, Len(t)) = t
    BY <1>1, SubSeqFull, SMTT(60)
  <2>3. Len(s) # Len(t)
    BY <1>2, <2>1, <2>2
  <2>4. Len(s) + 1 \in DOMAIN t
    BY <1>1, <2>1, <2>3
  <2>5. t[Len(s) + 1] \in ToSet(t)
    BY <2>4 DEF ToSet
  <2> QED  BY <2>5
<1> QED  BY <1>1, <1>2 DEF Longest, LongestBut

-----------------------------------------------------------------------------
(* sliceByBytes, from the start                                            *)

LEMMA CharsAreCharacters == Chars \subseteq Characters
<1>1. ASSUME NEW c \in Chars PROVE c \in Characters
  <2>1. \A b \in {0, 1, 2, 3, 4, 5} : b \in Byte
    BY DEF Byte
  <2>2. <<1>> \in Characters
    BY <2>1 DEF Characters, Bytes, Leads, Ascii
  <2>3. <<2, 0>> \in Characters
    BY <2>1 DEF Characters, Bytes, Leads, Width, Continuations
  <2>4. <<3, 0, 0>> \in Characters
    BY <2>1 DEF Characters, Bytes, Leads, Width, Continuations
  <2>5. <<4, 0, 0, 0>> \in Characters
    BY <2>1 DEF Characters, Bytes, Leads, Width, Continuations
  <2>6. FFFD \in Characters
    BY <2>1 DEF Characters, Bytes, Leads, Width, Continuations, FFFD
  <2> QED  BY <2>2, <2>3, <2>4, <2>5, <2>6 DEF Chars
<1> QED  BY <1>1

LEMMA BoundedInSeq ==
  ASSUME NEW S, NEW n \in Nat
  PROVE  BoundedSeq(S, n) \subseteq Seq(S)
<1>1. \A m \in 0..n : [1..m -> S] \subseteq Seq(S)
  BY SeqDef
<1> QED  BY <1>1 DEF BoundedSeq, SeqOf

\* A call of sliceByBytes is of a text of characters.
LEMMA SliceCalled ==
  ASSUME Next, Called("sliceByBytes")'
  PROVE  \E text \in Texts, n \in Nat, from \in {"start", "end"} :
           /\ n # 0
           /\ call' = [fn |-> "sliceByBytes", text |-> text, maxBytes |-> n, from |-> from]
           /\ result' = Slice(text, n, from)
<1>1. ~GetFileContent /\ ~RegisterTool /\ ~LoadConfig
  BY DEF Called, GetFileContent, RegisterTool, LoadConfig, Make
<1>2. GetJobLog
  BY <1>1 DEF Next
<1>3. PICK text \in BoundedSeq(Chars, MaxChars), n \in 1..(4 * MaxChars), from \in {"start", "end"} :
        /\ call' = [fn |-> "sliceByBytes", text |-> text, maxBytes |-> n, from |-> from]
        /\ result' = Slice(text, n, from)
  BY <1>2 DEF GetJobLog, Make
<1>4. MaxChars \in Nat
  BY ConversionsAssumption
<1>5. text \in Seq(Chars)
  BY <1>4, BoundedInSeq
<1>6. text \in Texts
  BY <1>5, CharsAreCharacters, SeqMonotonic DEF Texts
<1>7. n \in Nat /\ n # 0
  BY <1>4
<1> QED  BY <1>3, <1>6, <1>7

\* sliceByBytes: of a text without U+FFFD, whatever its length and the limit, a head is
\* the longest prefix of whole characters within the limit: an agent never gets more
\* bytes than it asked for, nor part of a character, nor less than there was room for.
THEOREM HeadIsExact == Spec => []HeadExact
<1>1. Init => HeadExact
  BY DEF Init, HeadExact, Called, NoCall
<1>2. ASSUME HeadExact, Next PROVE HeadExact'
  <2> SUFFICES ASSUME Called("sliceByBytes")', call'.from = "start", FFFD \notin ToSet(call'.text)
               PROVE  Longest(result'.slice, call'.text, call'.maxBytes)
    BY DEF HeadExact
  <2>1. PICK text \in Texts, n \in Nat, from \in {"start", "end"} :
          /\ call' = [fn |-> "sliceByBytes", text |-> text, maxBytes |-> n, from |-> from]
          /\ result' = Slice(text, n, from)
    BY <1>2, SliceCalled
  <2>2. from = "start" /\ call'.text = text /\ call'.maxBytes = n
    BY <2>1
  <2>3. LongestBut(Slice(text, n, "start").slice, text, n)
    BY HeadSliced
  <2>4. Longest(Slice(text, n, "start").slice, text, n)
    BY <2>2, <2>3, LongestUnmarked
  <2> QED  BY <2>1, <2>2, <2>4
<1>3. ASSUME HeadExact, UNCHANGED vars PROVE HeadExact'
  BY <1>3 DEF HeadExact, vars, Called
<1> QED  BY <1>1, <1>2, <1>3, PTL DEF Spec

-----------------------------------------------------------------------------
(* sliceByBytes, from the end                                              *)

LEMMA EncodeOne ==
  ASSUME NEW c \in Bytes
  PROVE  Encode(<<c>>) = c
<1>1. <<>> \in Seq(Bytes) /\ Append(<<>>, c) = <<c>> /\ <<>> \o c = c
  BY ConcatEmptySeq DEF Bytes
<1> QED  BY <1>1, EncodeAppend, EncodeEmpty

\* The same text from its end.
LEMMA ReverseText ==
  ASSUME NEW text \in Texts
  PROVE  /\ Reverse(text) \in Texts /\ Len(text) \in Nat /\ Len(Reverse(text)) = Len(text)
         /\ \A i \in 1..Len(text) : Reverse(text)[i] = text[(Len(text) - i) + 1]
         /\ ByteLength(Reverse(text)) = ByteLength(text) /\ ByteLength(text) \in Nat
<1>0. ASSUME NEW t \in Texts
      PROVE  /\ Reverse(t) \in Texts /\ Len(t) \in Nat /\ Len(Reverse(t)) = Len(t)
             /\ \A i \in 1..Len(t) : Reverse(t)[i] = t[(Len(t) - i) + 1]
  <2>1. Len(t) \in Nat /\ t \in Seq(Characters)
    BY DEF Texts
  <2>2. \A i \in 1..Len(t) : t[(Len(t) - i) + 1] \in Characters
    BY <2>1
  <2>3. Reverse(t) \in [1..Len(t) -> Characters]
    BY <2>2 DEF Reverse
  <2>4. Reverse(t) \in Texts /\ Len(Reverse(t)) = Len(t)
    BY <2>1, <2>3, IsASeq, LenProperties DEF Texts
  <2> QED  BY <2>1, <2>4 DEF Reverse
<1> DEFINE Q == {t \in Texts : Len(Encode(Reverse(t))) = Len(Encode(t)) /\ Len(Encode(t)) \in Nat}
<1>1. <<>> \in Q
  <2>1. <<>> \in Texts /\ Reverse(<<>>) = <<>>
    BY <1>0, EmptySeq DEF Texts
  <2> QED  BY <2>1, EncodeEmpty
<1>2. ASSUME NEW t \in Texts, NEW c \in Characters, t \in Q PROVE Append(t, c) \in Q
  <2> DEFINE more == Append(t, c)
             u == Reverse(t)
  <2>1. /\ more \in Texts /\ Len(more) = Len(t) + 1 /\ more[Len(t) + 1] = c /\ Len(t) \in Nat
        /\ \A i \in 1..Len(t) : more[i] = t[i]
    BY DEF Texts
  <2>2. t \in Seq(Bytes) /\ c \in Bytes /\ u \in Texts /\ u \in Seq(Bytes) /\ <<c>> \in Seq(Bytes)
        /\ u \in Seq(Characters) /\ <<c>> \in Seq(Characters)
    BY <1>0, TextBytes, CharacterBytes DEF Texts
  <2>3. Reverse(more) = <<c>> \o u
    <3>1. /\ Reverse(more) \in Seq(Characters) /\ Len(Reverse(more)) = Len(t) + 1
          /\ \A i \in 1..(Len(t) + 1) : Reverse(more)[i] = more[((Len(t) + 1) - i) + 1]
      <4> HIDE DEF more
      <4> QED  BY <1>0, <2>1 DEF Texts
    <3>2. Len(u) = Len(t) /\ \A i \in 1..Len(t) : u[i] = t[(Len(t) - i) + 1]
      BY <1>0
    <3> HIDE DEF u, more
    <3>3. /\ <<c>> \o u \in Seq(Characters) /\ Len(<<c>> \o u) = Len(t) + 1
          /\ \A i \in 1..(Len(t) + 1) : (<<c>> \o u)[i] = IF i = 1 THEN c ELSE u[i - 1]
      BY <2>1, <2>2, <3>2
    <3>4. ASSUME NEW i \in 1..(Len(t) + 1) PROVE Reverse(more)[i] = (<<c>> \o u)[i]
      <4>1. CASE i = 1
        BY <2>1, <3>1, <3>3, <4>1
      <4>2. CASE i # 1
        <5> DEFINE j == ((Len(t) + 1) - i) + 1
        <5>1. i - 1 \in 1..Len(t) /\ j \in 1..Len(t) /\ (Len(t) - (i - 1)) + 1 = j
          BY <2>1, <4>2
        <5>2. Reverse(more)[i] = more[j]
          BY <3>1
        <5> HIDE DEF j
        <5>3. more[j] = t[j] /\ u[i - 1] = t[j]
          BY <2>1, <3>2, <5>1
        <5> QED  BY <3>3, <4>2, <5>2, <5>3
      <4> QED  BY <4>1, <4>2
    <3> QED  BY <3>1, <3>3, <3>4, SeqEqual
  <2>4. Encode(Reverse(more)) = c \o Encode(u) /\ Encode(more) = Encode(t) \o c
    <3>1. Encode(<<c>> \o u) = Encode(<<c>>) \o Encode(u)
      BY <2>2, EncodeConcat
    <3>2. Encode(<<c>>) = c
      BY <2>2, EncodeOne
    <3> QED  BY <2>2, <2>3, <3>1, <3>2, EncodeAppend
  <2>5. Encode(u) \in Seq(Byte) /\ Encode(t) \in Seq(Byte) /\ c \in Seq(Byte)
    BY <2>2, EncodeType DEF Bytes
  <2>6. Len(Encode(u)) = Len(Encode(t)) /\ Len(Encode(t)) \in Nat
    BY <1>2
  <2> HIDE DEF u, more
  <2>7. Len(c \o Encode(u)) = Len(Encode(t) \o c) /\ Len(Encode(t) \o c) \in Nat
    <3>1. Len(c \o Encode(u)) = Len(c) + Len(Encode(u)) /\ Len(Encode(t) \o c) = Len(Encode(t)) + Len(c)
          /\ Len(c) \in Nat
      BY <2>5, ConcatProperties, LenProperties
    <3> QED  BY <2>6, <3>1
  <2> QED  BY <2>1, <2>4, <2>7 DEF more
<1>3. Texts \subseteq Q
  <2> HIDE DEF Q
  <2> QED  BY <1>1, <1>2, SeqInduced DEF Texts
<1> QED  BY <1>0, <1>3 DEF ByteLength

\* A tail that has all that fits of a text.
LEMMA TailLongest ==
  ASSUME NEW n \in Nat, NEW a \in Texts, NEW s \in Texts, ByteLength(s) <= n,
         a # <<>> => Last(a) = FFFD \/ ByteLength(s) + Len(Last(a)) > n
  PROVE  LongestBut(Reverse(s), Reverse(a \o s), n)
<1> DEFINE text == a \o s
           u == Reverse(s)
           t == Reverse(text)
<1>1. /\ a \in Seq(Characters) /\ s \in Seq(Characters) /\ text \in Texts
      /\ Len(a) \in Nat /\ Len(s) \in Nat /\ Len(text) = Len(a) + Len(s)
      /\ \A i \in 1..(Len(a) + Len(s)) : text[i] = IF i <= Len(a) THEN a[i] ELSE s[i - Len(a)]
  BY DEF Texts
<1>2. /\ u \in Texts /\ Len(u) = Len(s) /\ ByteLength(u) = ByteLength(s)
      /\ \A i \in 1..Len(s) : u[i] = s[(Len(s) - i) + 1]
  BY ReverseText
<1> HIDE DEF text, u
<1>3. /\ t \in Texts /\ Len(t) = Len(a) + Len(s)
      /\ \A i \in 1..(Len(a) + Len(s)) : t[i] = text[((Len(a) + Len(s)) - i) + 1]
  <2>1. /\ t \in Texts /\ Len(t) = Len(text)
        /\ \A i \in 1..Len(text) : t[i] = text[(Len(text) - i) + 1]
    BY <1>1, ReverseText
  <2> HIDE DEF t
  <2> QED  BY <1>1, <2>1
<1> HIDE DEF t
<1>4. ASSUME NEW i \in 1..Len(s) PROVE u[i] = t[i]
  <2> DEFINE j == ((Len(a) + Len(s)) - i) + 1
  <2>1. j \in 1..(Len(a) + Len(s)) /\ ~(j <= Len(a)) /\ j - Len(a) = (Len(s) - i) + 1
    BY <1>1
  <2>2. i \in 1..(Len(a) + Len(s))
    BY <1>1
  <2>3. t[i] = text[j]
    BY <1>3, <2>2
  <2> HIDE DEF j
  <2>4. text[j] = s[(Len(s) - i) + 1]
    BY <1>1, <2>1
  <2> QED  BY <1>2, <2>3, <2>4
<1>5. IsPrefix(u, t)
  <2>1. u \in Seq(Characters) /\ t \in Seq(Characters) /\ Len(u) <= Len(t)
    BY <1>1, <1>2, <1>3 DEF Texts
  <2>2. \A i \in 1..Len(u) : u[i] = t[i]
    BY <1>2, <1>4
  <2> QED  BY <2>1, <2>2, PrefixByElements
<1>6. CASE a = <<>>
  <2>1. text = s
    BY <1>1, <1>6, ConcatEmptySeq DEF text
  <2>2. u = t
    BY <2>1 DEF u, t
  <2> QED  BY <1>2, <1>5, <2>2 DEF LongestBut, t, text, u
<1>7. CASE a # <<>>
  <2>1. Len(a) # 0
    BY <1>1, <1>7, EmptySeq
  <2>2. /\ Len(s) + 1 \in 1..(Len(a) + Len(s)) /\ ((Len(a) + Len(s)) - (Len(s) + 1)) + 1 = Len(a)
        /\ Len(a) \in 1..(Len(a) + Len(s)) /\ Len(a) <= Len(a)
    BY <1>1, <2>1
  <2>3. t[Len(u) + 1] = Last(a)
    BY <1>1, <1>2, <1>3, <2>2 DEF Last
  <2> QED  BY <1>2, <1>5, <1>7, <2>3 DEF LongestBut, t, text, u
<1> QED  BY <1>6, <1>7

\* A continuation byte that continues nothing is read as a mark.
Marks(k) == [i \in 1..k |-> FFFD]

LEMMA MarksType ==
  ASSUME NEW k \in Nat
  PROVE  /\ Marks(k) \in Seq(Bytes) /\ Marks(k) \in Texts /\ Len(Marks(k)) = k
         /\ \A i \in 1..k : Marks(k)[i] = FFFD
         /\ Marks(k + 1) = Append(Marks(k), FFFD)
<1>1. FFFD \in Characters
  BY CharsAreCharacters DEF Chars
<1> HIDE DEF FFFD
<1>2. \A j \in Nat : Marks(j) \in Seq(Characters) /\ Len(Marks(j)) = j /\ \A i \in 1..j : Marks(j)[i] = FFFD
  <2> TAKE j \in Nat
  <2>1. Marks(j) \in [1..j -> Characters]
    BY <1>1 DEF Marks
  <2> QED  BY <2>1, IsASeq, LenProperties DEF Marks
<1>3. /\ Append(Marks(k), FFFD) \in Seq(Characters) /\ Len(Append(Marks(k), FFFD)) = k + 1
      /\ \A i \in 1..k : Append(Marks(k), FFFD)[i] = FFFD
      /\ Append(Marks(k), FFFD)[k + 1] = FFFD
  BY <1>1, <1>2, AppendProperties
<1>4. k + 1 \in Nat /\ \A i \in 1..(k + 1) : i \in 1..k \/ i = k + 1
  OBVIOUS
<1>5. Marks(k + 1) = Append(Marks(k), FFFD)
  BY <1>2, <1>3, <1>4, SeqEqual
<1> QED  BY <1>2, <1>5, TextBytes DEF Texts

LEMMA OrphansRead ==
  ASSUME NEW q \in Seq(Continuations)
  PROVE  q \in Bytes /\ HasRead(q, Marks(Len(q)))
<1> DEFINE Q == {s \in Seq(Continuations) : s \in Bytes /\ HasRead(s, Marks(Len(s)))}
<1>1. <<>> \in Q
  <2>1. Marks(0) = <<>>
    BY MarksType, EmptySeq
  <2>2. <<>> \in Bytes /\ Len(<<>>) = 0 /\ <<>> \in Seq(Continuations)
    BY DEF Bytes
  <2> QED  BY <2>1, <2>2, ReadingEmpty DEF HasRead, Started
<1>2. ASSUME NEW s \in Seq(Continuations), NEW b \in Continuations, s \in Q PROVE Append(s, b) \in Q
  <2>1. s \in Bytes /\ b \in Byte /\ b \notin Leads /\ ~Ascii(b)
    BY <1>2 DEF Continuations, Leads, Ascii, Byte
  <2>2. Append(s, b) \in Seq(Continuations) /\ Append(s, b) \in Bytes
        /\ Len(Append(s, b)) = Len(s) + 1 /\ Len(s) \in Nat
    BY <2>1 DEF Bytes
  <2>3. Reading(s) = [out |-> Marks(Len(s)), part |-> <<>>]
    BY <1>2 DEF HasRead
  <2>4. Read([out |-> Marks(Len(s)), part |-> <<>>], b) =
          [out |-> Append(Marks(Len(s)), FFFD), part |-> <<>>]
    BY <2>1 DEF Read, Continues
  <2>5. Marks(Len(s) + 1) = Append(Marks(Len(s)), FFFD)
    BY <2>2, MarksType
  <2> QED  BY <2>1, <2>2, <2>3, <2>4, <2>5, ReadingAppend DEF HasRead
<1>3. Seq(Continuations) \subseteq Q
  <2> HIDE DEF Q
  <2> QED  BY <1>1, <1>2, SeqInduced
<1> QED  BY <1>3

\* What is true of a tail s of every text: at most two marks are left of the character
\* that was cut, and none when there are two bytes to a character at most.
TailOf(s, text, n) ==
  \E k \in 0..2 :
    /\ s \in Texts /\ k <= Len(s)
    /\ \A i \in 1..k : s[i] = FFFD
    /\ LongestBut(Reverse(SubSeq(s, k + 1, Len(s))), Reverse(text), n)
    /\ (\A i \in DOMAIN text : Len(text[i]) <= 2) => k = 0

LEMMA MarkedTail ==
  ASSUME NEW n \in Nat, NEW a \in Texts, NEW t \in Texts, ByteLength(t) <= n,
         a # <<>> => Last(a) = FFFD \/ ByteLength(t) + Len(Last(a)) > n,
         NEW k \in 0..2, (\A i \in DOMAIN (a \o t) : Len((a \o t)[i]) <= 2) => k = 0
  PROVE  TailOf(Marks(k) \o t, a \o t, n)
<1> DEFINE m == Marks(k)
           s == m \o t
<1>1. m \in Seq(Characters) /\ Len(m) = k /\ t \in Seq(Characters) /\ Len(t) \in Nat /\ k \in Nat
      /\ \A i \in 1..k : m[i] = FFFD
  <2>1. k \in Nat
    OBVIOUS
  <2>2. m \in Texts /\ Len(m) = k /\ \A i \in 1..k : m[i] = FFFD
    BY <2>1, MarksType
  <2> HIDE DEF m
  <2> QED  BY <2>1, <2>2 DEF Texts
<1> HIDE DEF m
<1>2. SubSeq(s, k + 1, Len(s)) = t
  <2>1. SubSeq(s, k + 1, Len(s)) = SubSeq(m, k + 1, Len(m)) \o t
    <3>1. k <= Len(m)
      BY <1>1
    <3> QED  BY <1>1, <3>1, CutOfConcat
  <2>2. SubSeq(m, k + 1, Len(m)) = <<>>
    BY <1>1, SubSeqEmpty
  <2>3. <<>> \o t = t
    BY <1>1, ConcatEmptySeq
  <2> QED  BY <2>1, <2>2, <2>3
<1>3. k <= Len(s) /\ \A i \in 1..k : s[i] = FFFD
  <2>1. Len(s) = k + Len(t) /\ \A i \in 1..k : s[i] = m[i]
    BY <1>1, SMTT(60)
  <2> HIDE DEF s
  <2> QED  BY <1>1, <2>1
<1>4. LongestBut(Reverse(t), Reverse(a \o t), n)
  BY TailLongest
<1>5. s \in Texts
  <2> HIDE DEF m
  <2> QED  BY <1>1 DEF Texts
<1> HIDE DEF s
<1> QED  BY <1>2, <1>3, <1>4, <1>5 DEF TailOf, s, m

LEMMA UnmarkedTail ==
  ASSUME NEW n \in Nat, NEW a \in Texts, NEW t \in Texts, ByteLength(t) <= n,
         a # <<>> => Last(a) = FFFD \/ ByteLength(t) + Len(Last(a)) > n
  PROVE  TailOf(t, a \o t, n)
<1> DEFINE k == 0
<1>1. k \in 0..2 /\ k = 0
  OBVIOUS
<1>2. Marks(k) \o t = t
  <2>1. Marks(0) = <<>> /\ t \in Seq(Characters)
    BY MarksType, EmptySeq DEF Texts
  <2> QED  BY <2>1, ConcatEmptySeq
<1> HIDE DEF k
<1>3. TailOf(Marks(k) \o t, a \o t, n)
  BY <1>1, MarkedTail
<1> QED  BY <1>2, <1>3

\* What is decoded of a text's bytes from a byte on.
FromCut(c, rest, r) == IF r = 0 THEN <<c>> \o rest ELSE Marks(Len(c) - r) \o rest

LEMMA TailDecoded ==
  ASSUME NEW text \in Texts, NEW n \in Nat, NEW head, NEW c, NEW rest, NEW r,
         Cut(text, n, head, c, rest, r)
  PROVE  Decode(Dropped(Encode(text), n)) = FromCut(c, rest, r)
<1>1. /\ c \in Characters /\ c \in Bytes /\ rest \in Texts /\ rest \in Seq(Bytes)
      /\ r \in Nat /\ r < Len(c) /\ Len(c) \in Nat /\ Len(c) \in 1..4
  BY TextBytes, CharacterBytes DEF Cut
<1>2. Dropped(Encode(text), n) = Dropped(c, r) \o Encode(rest)
  BY CutBytes
<1>3. CASE r = 0
  <2>1. Dropped(c, r) = c
    BY <1>1, <1>3, SubSeqFull DEF Dropped, Bytes
  <2>2. HasRead(<<>>, <<>>) /\ <<>> \in Bytes /\ <<>> \in Seq(Bytes) /\ <<>> \o c = c
        /\ Append(<<>>, c) = <<c>> /\ <<c>> \in Seq(Bytes)
    BY <1>1, ReadingEmpty, ConcatEmptySeq DEF HasRead, Started, Bytes
  <2>3. HasRead(<<>> \o c, Append(<<>>, c))
    BY <1>1, <2>2, ReadingCharacter
  <2>4. HasRead(c \o Encode(rest), <<c>> \o rest)
    BY <1>1, <2>2, <2>3, ReadingText
  <2> HIDE DEF Encode
  <2> QED  BY <1>2, <1>3, <2>1, <2>4 DEF HasRead, Decode, FromCut
<1>4. CASE r # 0
  <2> DEFINE q == Dropped(c, r)
  <2>1. q \in Seq(Continuations) /\ Len(q) = Len(c) - r /\ Len(q) \in Nat
    <3>1. Len(c) # 1
      <4>1. \A j \in Nat : r < j => j # 1
        BY <1>1, <1>4
      <4> QED  BY <1>1, <4>1
    <3>2. \A i \in 2..Len(c) : c[i] \in Continuations
      BY <1>1, <3>1, WideCharacter
    <3>3. \A i \in (r + 1)..Len(c) : c[i] \in Continuations
      BY <1>1, <1>4, <3>2
    <3>4. r + 1 \in Int /\ Len(c) \in Int
      BY <1>1
    <3>5. /\ SubSeq(c, r + 1, Len(c)) \in Seq(Continuations)
          /\ Len(SubSeq(c, r + 1, Len(c))) = IF r + 1 <= Len(c) THEN Len(c) - (r + 1) + 1 ELSE 0
      BY <3>3, <3>4, SubSeqProperties
    <3> QED  BY <1>1, <3>5 DEF Dropped
  <2>2. q \in Bytes /\ HasRead(q, Marks(Len(q))) /\ Marks(Len(q)) \in Seq(Bytes)
    BY <2>1, OrphansRead, MarksType
  <2>3. HasRead(q \o Encode(rest), Marks(Len(q)) \o rest)
    BY <1>1, <2>2, ReadingText
  <2> HIDE DEF q
  <2> QED  BY <1>2, <1>4, <2>1, <2>3 DEF HasRead, Decode, FromCut, q
<1> QED  BY <1>3, <1>4

LEMMA MarkStripped ==
  ASSUME NEW k \in Nat, NEW t \in Texts
  PROVE  StripFirst(Marks(k + 1) \o t) = Marks(k) \o t
<1> DEFINE f == Marks(k + 1)
           g == Marks(k)
<1>1. /\ f \in Seq(Characters) /\ Len(f) = k + 1 /\ \A i \in 1..(k + 1) : f[i] = FFFD
      /\ g \in Seq(Characters) /\ Len(g) = k /\ \A i \in 1..k : g[i] = FFFD
      /\ t \in Seq(Characters) /\ Len(t) \in Nat
  <2>1. k + 1 \in Nat
    OBVIOUS
  <2>2. /\ f \in Texts /\ Len(f) = k + 1 /\ \A i \in 1..(k + 1) : f[i] = FFFD
    BY <2>1, MarksType
  <2>3. g \in Texts /\ Len(g) = k /\ \A i \in 1..k : g[i] = FFFD
    BY MarksType
  <2> HIDE DEF f, g
  <2> QED  BY <2>2, <2>3 DEF Texts
<1> HIDE DEF f, g
<1>2. /\ f \o t \in Seq(Characters) /\ Len(f \o t) = k + 1 + Len(t)
      /\ \A i \in 1..(k + 1 + Len(t)) : (f \o t)[i] = IF i <= k + 1 THEN FFFD ELSE t[i - (k + 1)]
  BY <1>1
<1>3. /\ g \o t \in Seq(Characters) /\ Len(g \o t) = k + Len(t)
      /\ \A i \in 1..(k + Len(t)) : (g \o t)[i] = IF i <= k THEN FFFD ELSE t[i - k]
  BY <1>1
<1>4. f \o t # <<>> /\ (f \o t)[1] = FFFD
  BY <1>1, <1>2
<1> DEFINE u == f \o t
           v == g \o t
<1> HIDE DEF u, v
<1>5. Tail(u) \in Seq(Characters) /\ Len(Tail(u)) = k + Len(t)
      /\ \A i \in 1..(k + Len(t)) : Tail(u)[i] = u[i + 1]
  <2>1. u \in Seq(Characters) /\ u # <<>> /\ Len(u) = k + 1 + Len(t) /\ Len(t) \in Nat
    BY <1>1, <1>2, <1>4 DEF u
  <2>2. /\ Tail(u) \in Seq(Characters) /\ Len(Tail(u)) = Len(u) - 1
        /\ \A i \in 1..Len(Tail(u)) : Tail(u)[i] = u[i + 1]
    BY <2>1, HeadTailProperties
  <2> QED  BY <2>1, <2>2
<1>6. ASSUME NEW i \in 1..(k + Len(t)) PROVE Tail(u)[i] = v[i]
  <2>1. i + 1 \in 1..(k + 1 + Len(t)) /\ (i + 1 <= k + 1 <=> i <= k) /\ (i + 1) - (k + 1) = i - k
    BY <1>1
  <2>2. u[i + 1] = IF i <= k THEN FFFD ELSE t[i - k]
    BY <1>2, <2>1 DEF u
  <2> QED  BY <1>3, <1>5, <2>2 DEF v
<1>7. Tail(u) = v
  BY <1>3, <1>5, <1>6, SeqEqual DEF v
<1> QED  BY <1>4, <1>7 DEF StripFirst, u, v, f, g

LEMMA TailSliced ==
  ASSUME NEW text \in Texts, NEW n \in Nat, n # 0
  PROVE  TailOf(Slice(text, n, "end").slice, text, n)
<1>1. ByteLength(text) \in Nat /\ <<>> \in Texts /\ text \in Seq(Characters)
  BY ReverseText DEF Texts
<1>2. CASE ByteLength(text) <= n
  <2>1. Slice(text, n, "end").slice = text
    BY <1>2 DEF Slice, ByteLength
  <2>2. <<>> \o text = text
    BY <1>1, ConcatEmptySeq
  <2>3. TailOf(text, <<>> \o text, n)
    BY <1>1, <1>2, UnmarkedTail
  <2> QED  BY <2>1, <2>2, <2>3
<1>3. CASE n < ByteLength(text)
  <2> DEFINE m == ByteLength(text) - n
  <2>1. m \in Nat /\ m < ByteLength(text) /\ m = ByteLength(text) - n
    BY <1>1, <1>3
  <2> HIDE DEF m
  <2>2. PICK head, c, rest, r : Cut(text, m, head, c, rest, r)
    BY <2>1, TextCut
  <2>3. /\ head \in Texts /\ c \in Characters /\ rest \in Texts /\ r < Len(c)
        /\ m = ByteLength(head) + r /\ text = Append(head, c) \o rest
    BY <2>2 DEF Cut
  <2>4. /\ Len(c) \in Nat /\ ByteLength(head) \in Nat /\ ByteLength(rest) \in Nat /\ r \in Nat
        /\ ByteLength(text) = ByteLength(head) + Len(c) + ByteLength(rest)
    BY <2>1, <2>2, CutBytes
  <2>5. n = (Len(c) - r) + ByteLength(rest)
    <3> DEFINE l == Len(c)
               t == ByteLength(text)
               h == ByteLength(head)
               e == ByteLength(rest)
    <3>1. {l, t, h, e, r, m} \subseteq Nat /\ t = h + l + e /\ m = t - n /\ m = h + r
      BY <1>1, <2>1, <2>3, <2>4
    <3> HIDE DEF l, t, h, e
    <3>2. n = (l - r) + e
      BY <3>1
    <3> QED  BY <3>2 DEF l, e
  <2> DEFINE decoded == Decode(Dropped(Encode(text), m))
  <2>6. Slice(text, n, "end").slice = StripFirst(decoded)
    <3>1. ~(Len(Encode(text)) <= n)
      BY <1>1, <1>3 DEF ByteLength
    <3> QED  BY <3>1 DEF Slice, ByteLength, Dropped, m
  <2>7. decoded = IF r = 0 THEN <<c>> \o rest ELSE Marks(Len(c) - r) \o rest
    <3>1. decoded = FromCut(c, rest, r)
      BY <2>1, <2>2, TailDecoded
    <3> QED  BY <3>1 DEF FromCut
  <2> DEFINE a == Append(head, c)
  <2>8. /\ a \in Texts /\ a # <<>> /\ Last(a) = c
        /\ head \in Seq(Characters) /\ rest \in Seq(Characters) /\ <<c>> \in Seq(Characters)
    BY <2>3 DEF Last, Texts
  <2>9. ByteLength(rest) <= n
    BY <2>4, <2>5, <2>3
  <2> HIDE DEF decoded
  <2>10. CASE r = 0 /\ c # FFFD
    <3> DEFINE t == <<c>> \o rest
    <3>1. t \in Texts /\ t[1] = c /\ head \o t = text
      <4>1. t \in Seq(Characters) /\ t[1] = c
        BY <2>8
      <4>2. (head \o <<c>>) \o rest = head \o (<<c>> \o rest) /\ a = head \o <<c>>
        BY <2>3, <2>8, ConcatAssociative, AppendIsConcat, SMTT(60)
      <4> QED  BY <2>3, <4>1, <4>2 DEF Texts
    <3>2. ByteLength(t) = Len(c) + ByteLength(rest)
      <4>1. c \in Bytes /\ <<c>> \in Seq(Bytes) /\ rest \in Seq(Bytes)
        BY <2>3, CharacterBytes, TextBytes
      <4>2. Encode(t) = c \o Encode(rest) /\ Encode(rest) \in Seq(Byte) /\ c \in Seq(Byte)
        BY <4>1, EncodeConcat, EncodeOne, EncodeType DEF Bytes
      <4> QED  BY <4>2, ConcatProperties DEF ByteLength
    <3>3. StripFirst(decoded) = t
      BY <2>7, <2>10, <3>1 DEF StripFirst
    <3> HIDE DEF t
    <3>4. ByteLength(t) <= n /\ ByteLength(t) = n
      BY <2>4, <2>5, <2>10, <3>2
    <3>5. head # <<>> => ByteLength(t) + Len(Last(head)) > n
      <4>1. head # <<>> => Last(head) \in Characters
        BY <2>3, FrontLength
      <4>2. head # <<>> => Len(Last(head)) \in 1..4
        BY <4>1, CharacterBytes
      <4> QED  BY <3>4, <4>2
    <3>6. TailOf(t, head \o t, n)
      BY <2>3, <3>1, <3>4, <3>5, UnmarkedTail
    <3> QED  BY <2>6, <3>1, <3>3, <3>6
  <2>11. CASE r = 0 /\ c = FFFD
    <3>1. StripFirst(decoded) = rest
      <4>1. (<<c>> \o rest)[1] = c /\ <<c>> \o rest # <<>> /\ Tail(<<c>> \o rest) = rest
        BY <2>8
      <4> QED  BY <2>7, <2>11, <4>1 DEF StripFirst
    <3>2. TailOf(rest, a \o rest, n)
      BY <2>3, <2>8, <2>9, <2>11, UnmarkedTail
    <3> QED  BY <2>3, <2>6, <3>1, <3>2
  <2>12. CASE r # 0
    <3>1. Len(c) \in 1..4
      BY <2>3, CharacterBytes
    <3>2. PICK k \in 0..2 : Len(c) - r = k + 1
      <4>2. \A l \in 1..4, q \in Nat : q # 0 /\ q < l => (l - q) - 1 \in 0..2 /\ l - q = ((l - q) - 1) + 1
        OBVIOUS
      <4>1. (Len(c) - r) - 1 \in 0..2 /\ Len(c) - r = ((Len(c) - r) - 1) + 1
        BY <2>3, <2>4, <2>12, <3>1, <4>2
      <4> QED  BY <4>1
    <3>3. StripFirst(decoded) = Marks(k) \o rest
      <4>1. k \in Nat /\ decoded = Marks(k + 1) \o rest
        BY <2>7, <2>12, <3>2
      <4> QED  BY <2>3, <4>1, MarkStripped
    <3>4. ByteLength(rest) + Len(c) > n
      BY <2>4, <2>5, <2>12
    <3>5. (\A i \in DOMAIN text : Len(text[i]) <= 2) => k = 0
      <4>1. Len(head) + 1 \in DOMAIN text /\ text[Len(head) + 1] = c
        <5>1. /\ Len(head) \in Nat /\ Len(rest) \in Nat /\ Len(text) = Len(head) + 1 + Len(rest)
              /\ text[Len(head) + 1] = c
          BY <2>1, <2>2, CutText
        <5> QED  BY <1>1, <5>1
      <4> QED  BY <2>4, <2>12, <3>2, <4>1
    <3>6. TailOf(Marks(k) \o rest, a \o rest, n)
      BY <2>3, <2>8, <2>9, <3>4, <3>5, MarkedTail
    <3> QED  BY <2>3, <2>6, <3>3, <3>6
  <2> QED  BY <2>10, <2>11, <2>12
<1> QED  BY <1>1, <1>2, <1>3

\* Characters of two bytes at most are cut into one byte, and none is U+FFFD.
LEMMA TailUnmarked ==
  ASSUME NEW text \in Texts, NEW s, NEW n, TailOf(s, text, n),
         \A x \in ToSet(text) : Len(x) <= 2
  PROVE  Longest(Reverse(s), Reverse(text), n)
<1>1. PICK k \in 0..2 :
        /\ s \in Texts /\ k <= Len(s)
        /\ LongestBut(Reverse(SubSeq(s, k + 1, Len(s))), Reverse(text), n)
        /\ (\A i \in DOMAIN text : Len(text[i]) <= 2) => k = 0
  BY DEF TailOf
<1>2. k = 0
  BY <1>1 DEF ToSet
<1>3. SubSeq(s, k + 1, Len(s)) = s
  <2>1. s \in Seq(Characters) /\ k + 1 = 1
    BY <1>1, <1>2 DEF Texts
  <2> QED  BY <2>1, SubSeqFull
<1> DEFINE u == Reverse(text)
<1>4. u \in Texts /\ Len(text) \in Nat /\ Len(u) = Len(text)
      /\ \A i \in 1..Len(text) : u[i] = text[(Len(text) - i) + 1]
  BY ReverseText
<1>5. FFFD \notin ToSet(u)
  <2> HIDE DEF u
  <2>1. u \in Seq(Characters) /\ text \in Seq(Characters)
    BY <1>4 DEF Texts
  <2>2. ASSUME NEW i \in DOMAIN u PROVE u[i] # FFFD
    <3>1. i \in 1..Len(text) /\ (Len(text) - i) + 1 \in 1..Len(text)
      BY <1>4, <2>1, <2>2
    <3>2. u[i] = text[(Len(text) - i) + 1] /\ (Len(text) - i) + 1 \in DOMAIN text
      BY <1>4, <2>1, <3>1
    <3>3. u[i] \in ToSet(text)
      BY <3>2 DEF ToSet
    <3>4. Len(FFFD) = 3
      BY DEF FFFD
    <3> QED  BY <3>3, <3>4
  <2> QED  BY <2>2 DEF ToSet
<1> HIDE DEF u
<1> QED  BY <1>1, <1>3, <1>4, <1>5, LongestUnmarked DEF u

\* sliceByBytes: of a text without characters wider than two bytes, whatever its length
\* and the limit, a tail is the longest suffix of whole characters within the limit.
THEOREM TailIsExact == Spec => []TailExact
<1>1. Init => TailExact
  BY DEF Init, TailExact, Called, NoCall
<1>2. ASSUME TailExact, Next PROVE TailExact'
  <2> SUFFICES ASSUME Called("sliceByBytes")', call'.from = "end",
                      \A x \in ToSet(call'.text) : Len(x) <= 2
               PROVE  Longest(Reverse(result'.slice), Reverse(call'.text), call'.maxBytes)
    BY DEF TailExact
  <2>1. PICK text \in Texts, n \in Nat, from \in {"start", "end"} :
          /\ n # 0
          /\ call' = [fn |-> "sliceByBytes", text |-> text, maxBytes |-> n, from |-> from]
          /\ result' = Slice(text, n, from)
    BY <1>2, SliceCalled
  <2>2. from = "end" /\ call'.text = text /\ call'.maxBytes = n
    BY <2>1
  <2>3. TailOf(Slice(text, n, "end").slice, text, n)
    BY <2>1, TailSliced
  <2>4. Longest(Reverse(Slice(text, n, "end").slice), Reverse(text), n)
    BY <2>2, <2>3, TailUnmarked
  <2> QED  BY <2>1, <2>2, <2>4
<1>3. ASSUME TailExact, UNCHANGED vars PROVE TailExact'
  BY <1>3 DEF TailExact, vars, Called
<1> QED  BY <1>1, <1>2, <1>3, PTL DEF Spec

-----------------------------------------------------------------------------
(* What is text                                                            *)

LEMMA DecodeEncode ==
  ASSUME NEW text \in Texts
  PROVE  Decode(Encode(text)) = text
<1>1. HasRead(<<>>, <<>>) /\ <<>> \in Bytes /\ <<>> \in Seq(Bytes)
  BY ReadingEmpty DEF HasRead, Started, Bytes
<1>2. HasRead(<<>> \o Encode(text), <<>> \o text)
  BY <1>1, ReadingText
<1>3. text \in Seq(Bytes) /\ Encode(text) \in Bytes
  BY TextBytes, EncodeType
<1>4. <<>> \o Encode(text) = Encode(text) /\ <<>> \o text = text
  BY <1>3, ConcatEmptySeq DEF Bytes
<1>5. Reading(Encode(text)) = [out |-> text, part |-> <<>>]
  BY <1>2, <1>4 DEF HasRead
<1> QED  BY <1>5 DEF Decode

\* What a decoder may be in the middle of.
Partial(part) ==
  /\ part \in Bytes /\ part # <<>> /\ part[1] \in Leads /\ Len(part) < Width(part[1])
  /\ \A i \in 2..Len(part) : part[i] \in Continuations
  /\ part[1] = 7 /\ Len(part) # 1 => part[2] = 5

Readable(st) == st \in States /\ st.out \in Texts /\ (st.part = <<>> \/ Partial(st.part))

LEMMA LeadPartial ==
  ASSUME NEW b \in Leads
  PROVE  Partial(<<b>>)
<1>1. b \in Byte /\ Width(b) > 1
  BY DEF Leads, Width, Byte
<1> QED  BY <1>1 DEF Partial, Bytes

LEMMA PartialGoesOn ==
  ASSUME NEW part, Partial(part), NEW b \in Byte, Continues(part, b)
  PROVE  IF Len(Append(part, b)) = Width(Append(part, b)[1]) THEN Append(part, b) \in Characters
         ELSE Partial(Append(part, b))
<1> DEFINE more == Append(part, b)
<1>1. part \in Bytes /\ part # <<>> /\ Len(part) \in Nat /\ Len(part) # 0
  BY EmptySeq, LenProperties DEF Partial, Bytes
<1>2. /\ more \in Bytes /\ Len(more) = Len(part) + 1 /\ more # <<>> /\ more[1] = part[1]
      /\ more[Len(part) + 1] = b
      /\ \A i \in 1..Len(part) : more[i] = part[i]
  BY <1>1 DEF Bytes
<1>3. /\ part[1] \in Leads /\ Len(part) < Width(part[1])
      /\ \A i \in 2..Len(part) : part[i] \in Continuations
      /\ part[1] = 7 /\ Len(part) # 1 => part[2] = 5
  BY DEF Partial
<1>4. b \in Continuations /\ (part[1] = 7 /\ Len(part) = 1 => b = 5)
  <2>1. part[1] = 7 /\ Len(part) = 1 => part = <<7>>
    BY <1>1 DEF Bytes
  <2> QED  BY <2>1 DEF Continues, Continuations
<1> HIDE DEF more
<1>5. \A i \in 2..Len(more) : more[i] \in Continuations
  <2>1. \A i \in 2..Len(more) : i \in 2..Len(part) \/ i = Len(part) + 1
    BY <1>1, <1>2
  <2> QED  BY <1>1, <1>2, <1>3, <1>4, <2>1
<1>6. more[1] = 7 => more[2] = 5
  <2> SUFFICES ASSUME more[1] = 7 PROVE more[2] = 5
    OBVIOUS
  <2>1. CASE Len(part) = 1
    BY <1>2, <1>4, <2>1
  <2>2. CASE Len(part) # 1
    <3>1. 2 \in 1..Len(part)
      <4>1. \A j \in Nat : j # 0 /\ j # 1 => 2 \in 1..j
        OBVIOUS
      <4> QED  BY <1>1, <2>2, <4>1
    <3> QED  BY <1>2, <1>3, <2>2, <3>1
  <2> QED  BY <2>1, <2>2
<1>7. CASE Len(more) = Width(more[1])
  BY <1>2, <1>3, <1>5, <1>6, <1>7 DEF Characters, more
<1>8. CASE Len(more) # Width(more[1])
  <2>1. Width(part[1]) \in Nat
    BY <1>3 DEF Leads, Width
  <2>2. Len(more) < Width(more[1])
    BY <1>1, <1>2, <1>3, <1>8, <2>1
  <2>3. Partial(more)
    BY <1>2, <1>3, <1>5, <1>6, <2>2 DEF Partial
  <2> QED  BY <1>8, <2>3 DEF more
<1> QED  BY <1>7, <1>8

LEMMA ReadReadable ==
  ASSUME NEW st, Readable(st), NEW b \in Byte
  PROVE  Readable(Read(st, b))
<1>1. st \in States /\ st.out \in Seq(Characters) /\ Read(st, b) \in States
  BY ReadType DEF Readable, Texts
<1>2. FFFD \in Characters
  BY CharsAreCharacters DEF Chars
<1>3. CASE Continues(st.part, b)
  <2> DEFINE part == Append(st.part, b)
  <2>1. Partial(st.part)
    BY <1>3 DEF Readable, Continues
  <2>2. IF Len(part) = Width(part[1]) THEN part \in Characters ELSE Partial(part)
    BY <1>3, <2>1, PartialGoesOn
  <2>3. Read(st, b) = IF Len(part) = Width(part[1]) THEN [out |-> Append(st.out, part), part |-> <<>>]
                      ELSE [out |-> st.out, part |-> part]
    BY <1>3 DEF Read
  <2> HIDE DEF part
  <2>4. CASE Len(part) = Width(part[1])
    <3>1. Append(st.out, part) \in Seq(Characters)
      BY <1>1, <2>2, <2>4
    <3> QED  BY <1>1, <2>3, <2>4, <3>1 DEF Readable, Texts
  <2>5. CASE Len(part) # Width(part[1])
    BY <1>1, <2>2, <2>3, <2>5 DEF Readable, Texts
  <2> QED  BY <2>4, <2>5
<1>4. CASE ~Continues(st.part, b)
  <2> DEFINE out == IF st.part = <<>> THEN st.out ELSE Append(st.out, FFFD)
             last == IF Ascii(b) THEN <<b>> ELSE FFFD
  <2>1. out \in Seq(Characters)
    BY <1>1, <1>2
  <2>2. b \notin Leads => last \in Characters
    BY <1>2 DEF Characters, Bytes
  <2>3. b \notin Leads => Append(out, last) \in Seq(Characters)
    <3> HIDE DEF out, last
    <3> QED  BY <2>1, <2>2
  <2>4. Read(st, b) = IF b \in Leads THEN [out |-> out, part |-> <<b>>]
                      ELSE [out |-> Append(out, last), part |-> <<>>]
    BY <1>4 DEF Read
  <2> HIDE DEF out, last
  <2> QED  BY <1>1, <2>1, <2>3, <2>4, LeadPartial DEF Readable, Texts
<1> QED  BY <1>3, <1>4

\* Whatever the bytes, what is decoded of them is characters.
LEMMA DecodeType ==
  ASSUME NEW bytes \in Bytes
  PROVE  Decode(bytes) \in Texts
<1> DEFINE Q == {s \in Seq(Byte) : Readable(Reading(s))}
<1>1. <<>> \in Q
  <2>1. <<>> \in Texts /\ <<>> \in Seq(Byte)
    BY DEF Texts
  <2> QED  BY <2>1, ReadingEmpty, StartedType DEF Started, Readable
<1>2. ASSUME NEW s \in Seq(Byte), NEW b \in Byte, s \in Q PROVE Append(s, b) \in Q
  <2>1. Reading(Append(s, b)) = Read(Reading(s), b)
    BY ReadingAppend DEF Bytes
  <2>2. Append(s, b) \in Seq(Byte)
    BY DEF Bytes
  <2> QED  BY <1>2, <2>1, <2>2, ReadReadable
<1>3. Seq(Byte) \subseteq Q
  <2> HIDE DEF Q
  <2> QED  BY <1>1, <1>2, SeqInduced
<1>4. Readable(Reading(bytes))
  BY <1>3 DEF Bytes
<1>5. FFFD \in Characters
  BY CharsAreCharacters DEF Chars
<1>6. Reading(bytes).out \in Seq(Characters) /\ Append(Reading(bytes).out, FFFD) \in Seq(Characters)
  BY <1>4, <1>5 DEF Readable, Texts
<1> QED  BY <1>6 DEF Decode, Texts

\* The bytes a file is made of.
FileByte == 0..7

LEMMA FileBytes == Seq(FileByte) \subseteq Bytes
<1>1. FileByte \subseteq Byte
  BY DEF FileByte, Byte
<1> QED  BY <1>1, SeqMonotonic DEF Bytes

\* The two halves of WellFormed.
LeadsHave(raw) ==
  \A i \in DOMAIN raw : raw[i] \in Leads =>
    /\ i + Width(raw[i]) - 1 <= Len(raw)
    /\ \A j \in (i + 1)..(i + Width(raw[i]) - 1) : raw[j] \in Continuations
    /\ raw[i] = 7 => raw[i + 1] = 5

HaveLeads(raw) ==
  \A i \in DOMAIN raw :
    \/ raw[i] = 1 \/ raw[i] \in Leads
    \/ /\ raw[i] \in Continuations
       /\ \E j \in 1..(i - 1) : raw[j] \in Leads /\ i - j < Width(raw[j])

LEMMA WellFormedHalves ==
  ASSUME NEW raw
  PROVE  WellFormed(raw) <=> LeadsHave(raw) /\ HaveLeads(raw)
BY DEF WellFormed, LeadsHave, HaveLeads

LEMMA LeadWidth ==
  ASSUME NEW b \in Leads
  PROVE  Width(b) \in 2..4 /\ b # 1 /\ b \notin Continuations
BY DEF Leads, Width, Continuations

\* A character of a file.
LEMMA FileCharacter ==
  ASSUME NEW c \in Characters, c \in Seq(FileByte)
  PROVE  /\ Len(c) \in Nat /\ 1 <= Len(c)
         /\ c[1] = 1 \/ (c[1] \in Leads /\ Len(c) = Width(c[1]))
         /\ \A i \in 1..Len(c) : i = 1 \/ (c[i] \in Continuations /\ c[1] \in Leads)
         /\ c[1] = 7 => c[2] = 5
<1>1. Len(c) \in Nat /\ 1 <= Len(c) /\ c[1] \in FileByte
  <2>1. Len(c) \in Nat /\ Len(c) \in 1..4
    BY CharacterBytes
  <2>2. 1 <= Len(c) /\ 1 \in 1..Len(c)
    BY <2>1
  <2>3. c[1] \in FileByte
    BY <2>1, <2>2
  <2> QED  BY <2>1, <2>2, <2>3
<1>2. CASE c[1] \in Leads
  <2>1. /\ Len(c) = Width(c[1]) /\ \A i \in 2..Len(c) : c[i] \in Continuations
        /\ c[1] = 7 => c[2] = 5
    BY <1>2 DEF Characters
  <2>2. \A i \in 1..Len(c) : i = 1 \/ i \in 2..Len(c)
    BY <1>1
  <2> QED  BY <1>1, <1>2, <2>1, <2>2
<1>3. CASE c[1] \notin Leads
  <2>1. Ascii(c[1]) /\ Len(c) = 1
    BY <1>3 DEF Characters
  <2>2. c[1] = 1
    BY <1>1, <2>1 DEF Ascii, FileByte
  <2> QED  BY <1>1, <2>1, <2>2
<1> QED  BY <1>2, <1>3

LEMMA WellFormedAppend ==
  ASSUME NEW e \in Seq(FileByte), NEW c \in Seq(FileByte), c \in Characters, WellFormed(e)
  PROVE  WellFormed(e \o c)
<1> DEFINE raw == e \o c
           l == Len(e)
<1>1. /\ Len(c) \in Nat /\ 1 <= Len(c)
      /\ c[1] = 1 \/ (c[1] \in Leads /\ Len(c) = Width(c[1]))
      /\ \A i \in 1..Len(c) : i = 1 \/ (c[i] \in Continuations /\ c[1] \in Leads)
      /\ c[1] = 7 => c[2] = 5
  BY FileCharacter
<1>2. LeadsHave(e) /\ HaveLeads(e)
  BY WellFormedHalves
<1>3. /\ l \in Nat /\ Len(raw) = l + Len(c) /\ DOMAIN raw = 1..(l + Len(c)) /\ DOMAIN e = 1..l
      /\ \A i \in 1..l : raw[i] = e[i]
      /\ \A i \in 1..Len(c) : raw[l + i] = c[i]
  BY <1>1
<1>4. \A i \in DOMAIN raw : i \in 1..l \/ \E k \in 1..Len(c) : i = l + k
  <2> TAKE i \in DOMAIN raw
  <2>1. i \in 1..l \/ (i - l \in 1..Len(c) /\ i = l + (i - l))
    BY <1>1, <1>3
  <2> QED  BY <2>1
<1> HIDE DEF raw, l
<1>5. LeadsHave(raw)
  <2> SUFFICES ASSUME NEW i \in DOMAIN raw, raw[i] \in Leads
               PROVE  /\ i + Width(raw[i]) - 1 <= Len(raw)
                      /\ \A j \in (i + 1)..(i + Width(raw[i]) - 1) : raw[j] \in Continuations
                      /\ raw[i] = 7 => raw[i + 1] = 5
    BY DEF LeadsHave
  <2> DEFINE w == Width(raw[i])
  <2>1. w \in 2..4
    BY LeadWidth
  <2> HIDE DEF w
  <2>2. CASE i \in 1..l
    <3>1. /\ i + w - 1 <= l /\ \A j \in (i + 1)..(i + w - 1) : e[j] \in Continuations
          /\ e[i] = 7 => e[i + 1] = 5
      BY <1>2, <1>3, <2>2 DEF LeadsHave, w, l
    <3>2. \A j \in (i + 1)..(i + w - 1) : j \in 1..l
      BY <1>3, <2>1, <2>2, <3>1
    <3>3. i + 1 \in (i + 1)..(i + w - 1)
      BY <2>1, <2>2
    <3>4. \A j \in (i + 1)..(i + w - 1) : raw[j] \in Continuations
      BY <1>3, <3>1, <3>2
    <3>5. raw[i] = 7 => raw[i + 1] = 5
      BY <1>3, <2>2, <3>1, <3>2, <3>3
    <3>6. i + w - 1 <= Len(raw)
      BY <1>1, <1>3, <2>1, <2>2, <3>1
    <3> QED  BY <3>4, <3>5, <3>6 DEF w
  <2>3. ASSUME NEW k \in 1..Len(c), i = l + k
        PROVE  /\ i + w - 1 <= Len(raw)
               /\ \A j \in (i + 1)..(i + w - 1) : raw[j] \in Continuations
               /\ raw[i] = 7 => raw[i + 1] = 5
    <3>1. k = 1 /\ raw[i] = c[1] /\ w = Len(c)
      BY <1>1, <1>3, <2>3, LeadWidth DEF w
    <3>2. i + w - 1 <= Len(raw)
      BY <1>1, <1>3, <2>3, <3>1
    <3>3. ASSUME NEW j \in (i + 1)..(i + w - 1) PROVE raw[j] \in Continuations
      <4>1. j - l \in 1..Len(c) /\ j - l # 1 /\ j = l + (j - l)
        BY <1>1, <1>3, <2>3, <3>1
      <4> QED  BY <1>1, <1>3, <4>1, ZenonT(40)
    <3>4. raw[i] = 7 => raw[i + 1] = 5
      <4>1. 2 \in 1..Len(c) /\ i + 1 = l + 2
        BY <1>1, <1>3, <2>1, <2>3, <3>1
      <4> QED  BY <1>1, <1>3, <3>1, <4>1
    <3> QED  BY <3>2, <3>3, <3>4
  <2> QED  BY <1>4, <2>2, <2>3 DEF w
<1>6. HaveLeads(raw)
  <2> SUFFICES ASSUME NEW i \in DOMAIN raw
               PROVE  \/ raw[i] = 1 \/ raw[i] \in Leads
                      \/ /\ raw[i] \in Continuations
                         /\ \E j \in 1..(i - 1) : raw[j] \in Leads /\ i - j < Width(raw[j])
    BY DEF HaveLeads
  <2>1. CASE i \in 1..l
    <3>1. \/ e[i] = 1 \/ e[i] \in Leads
          \/ /\ e[i] \in Continuations
             /\ \E j \in 1..(i - 1) : e[j] \in Leads /\ i - j < Width(e[j])
      BY <1>2, <1>3, <2>1 DEF HaveLeads
    <3>2. \A j \in 1..(i - 1) : raw[j] = e[j]
      BY <1>3, <2>1
    <3> QED  BY <1>3, <2>1, <3>1, <3>2
  <2>2. ASSUME NEW k \in 1..Len(c), i = l + k
        PROVE  \/ raw[i] = 1 \/ raw[i] \in Leads
               \/ /\ raw[i] \in Continuations
                  /\ \E j \in 1..(i - 1) : raw[j] \in Leads /\ i - j < Width(raw[j])
    <3>1. raw[i] = c[k] /\ raw[l + 1] = c[1]
      BY <1>1, <1>3, <2>2
    <3>2. CASE k = 1
      BY <1>1, <3>1, <3>2
    <3>3. CASE k # 1
      <4>1. c[k] \in Continuations /\ c[1] \in Leads /\ Len(c) = Width(c[1])
        BY <1>1, <3>3, LeadWidth
      <4>2. l + 1 \in 1..(i - 1) /\ i - (l + 1) < Len(c)
        BY <1>1, <1>3, <2>2, <3>3
      <4> QED  BY <3>1, <4>1, <4>2
    <3> QED  BY <3>2, <3>3
  <2> QED  BY <1>4, <2>1, <2>2
<1> QED  BY <1>5, <1>6, WellFormedHalves DEF raw

LEMMA WellFormedPrefix ==
  ASSUME NEW raw \in Seq(FileByte), WellFormed(raw), NEW m \in Nat, m < Len(raw),
         raw[m + 1] \notin Continuations
  PROVE  WellFormed(SubSeq(raw, 1, m))
<1> DEFINE e == SubSeq(raw, 1, m)
           l == Len(raw)
<1>1. LeadsHave(raw) /\ HaveLeads(raw)
  BY WellFormedHalves
<1>2. DOMAIN e = 1..m /\ Len(e) = m /\ DOMAIN raw = 1..l /\ l \in Nat /\ m < l
      /\ \A i \in 1..m : e[i] = raw[i]
  OBVIOUS
<1> HIDE DEF e, l
<1>3. LeadsHave(e)
  <2> SUFFICES ASSUME NEW i \in 1..m, e[i] \in Leads
               PROVE  /\ i + Width(e[i]) - 1 <= m
                      /\ \A j \in (i + 1)..(i + Width(e[i]) - 1) : e[j] \in Continuations
                      /\ e[i] = 7 => e[i + 1] = 5
    BY <1>2 DEF LeadsHave
  <2> DEFINE w == Width(e[i])
  <2>1. w \in 2..4
    BY LeadWidth
  <2>2. e[i] = raw[i] /\ i \in DOMAIN raw
    BY <1>2
  <2>3. /\ i + w - 1 <= l
        /\ \A j \in (i + 1)..(i + w - 1) : raw[j] \in Continuations
        /\ raw[i] = 7 => raw[i + 1] = 5
    BY <1>1, <2>2 DEF LeadsHave, l
  <2> HIDE DEF w
  <2>4. i + w - 1 <= m
    <3>1. m + 1 \notin (i + 1)..(i + w - 1)
      BY <2>3
    <3> QED  BY <2>1, <3>1
  <2>5. \A j \in (i + 1)..(i + w - 1) : j \in 1..m
    BY <2>1, <2>4
  <2>6. i + 1 \in 1..m
    BY <2>1, <2>4
  <2> QED  BY <1>2, <2>2, <2>3, <2>4, <2>5, <2>6 DEF w
<1>4. HaveLeads(e)
  <2> SUFFICES ASSUME NEW i \in 1..m
               PROVE  \/ e[i] = 1 \/ e[i] \in Leads
                      \/ /\ e[i] \in Continuations
                         /\ \E j \in 1..(i - 1) : e[j] \in Leads /\ i - j < Width(e[j])
    BY <1>2 DEF HaveLeads
  <2>1. e[i] = raw[i] /\ i \in DOMAIN raw /\ \A j \in 1..(i - 1) : e[j] = raw[j]
    BY <1>2
  <2>2. \/ raw[i] = 1 \/ raw[i] \in Leads
        \/ /\ raw[i] \in Continuations
           /\ \E j \in 1..(i - 1) : raw[j] \in Leads /\ i - j < Width(raw[j])
    BY <1>1, <2>1 DEF HaveLeads
  <2> QED  BY <2>1, <2>2
<1> QED  BY <1>3, <1>4, WellFormedHalves DEF e

\* The bytes of a text, where each is a file's, are well-formed.
LEMMA TextWellFormed ==
  ASSUME NEW text \in Texts, Encode(text) \in Seq(FileByte)
  PROVE  WellFormed(Encode(text))
<1> DEFINE Q == {t \in Texts : Encode(t) \in Seq(FileByte) => WellFormed(Encode(t))}
<1>1. <<>> \in Q
  <2>1. WellFormed(<<>>)
    BY DEF WellFormed
  <2>2. <<>> \in Texts
    BY DEF Texts
  <2> QED  BY <2>1, <2>2, EncodeEmpty
<1>2. ASSUME NEW t \in Texts, NEW c \in Characters, t \in Q PROVE Append(t, c) \in Q
  <2>1. Append(t, c) \in Texts /\ t \in Seq(Bytes) /\ c \in Bytes
    BY TextBytes, CharacterBytes DEF Texts
  <2>2. Encode(Append(t, c)) = Encode(t) \o c /\ Encode(t) \in Bytes
    BY <2>1, EncodeAppend, EncodeType
  <2> SUFFICES ASSUME Encode(t) \o c \in Seq(FileByte) PROVE WellFormed(Encode(t) \o c)
    BY <2>1, <2>2
  <2> DEFINE e == Encode(t)
  <2>3. e \in Seq(Byte) /\ c \in Seq(Byte) /\ e \o c \in Seq(FileByte)
    BY <2>1, <2>2 DEF Bytes
  <2> HIDE DEF e
  <2>4. e \in Seq(FileByte) /\ c \in Seq(FileByte)
    <3>1. /\ Len(e) \in Nat /\ Len(c) \in Nat /\ Len(e \o c) = Len(e) + Len(c)
          /\ \A i \in 1..(Len(e) + Len(c)) : (e \o c)[i] = IF i <= Len(e) THEN e[i] ELSE c[i - Len(e)]
      BY <2>3, ConcatProperties, LenProperties
    <3>2. \A i \in 1..(Len(e) + Len(c)) : (e \o c)[i] \in FileByte
      BY <2>3, <3>1
    <3>3. ASSUME NEW i \in 1..Len(e) PROVE e[i] \in FileByte
      BY <3>1, <3>2
    <3>4. ASSUME NEW i \in 1..Len(c) PROVE c[i] \in FileByte
      <4>1. Len(e) + i \in 1..(Len(e) + Len(c)) /\ ~(Len(e) + i <= Len(e)) /\ (Len(e) + i) - Len(e) = i
        BY <3>1
      <4> QED  BY <3>1, <3>2, <4>1
    <3>5. e \in [1..Len(e) -> FileByte] /\ c \in [1..Len(c) -> FileByte]
      BY <2>3, <3>3, <3>4
    <3> QED  BY <3>1, <3>5, SeqDef
  <2>5. WellFormed(e)
    BY <1>2, <2>4 DEF e
  <2>6. WellFormed(e \o c)
    BY <2>4, <2>5, WellFormedAppend
  <2> QED  BY <2>6 DEF e
<1>3. Texts \subseteq Q
  <2> HIDE DEF Q
  <2> QED  BY <1>1, <1>2, SeqInduced DEF Texts
<1> QED  BY <1>3

\* Well-formed bytes end in a character, and are well-formed before it.
EndsAt(raw, m) ==
  /\ m \in Nat /\ m < Len(raw)
  /\ SubSeq(raw, m + 1, Len(raw)) \in Characters /\ WellFormed(SubSeq(raw, 1, m))

LEMMA LastCharacter ==
  ASSUME NEW raw \in Seq(FileByte), WellFormed(raw), raw # <<>>
  PROVE  \E m : EndsAt(raw, m)
<1> DEFINE l == Len(raw)
<1>1. l \in Nat /\ l # 0 /\ l \in DOMAIN raw /\ DOMAIN raw = 1..l
  OBVIOUS
<1>2. LeadsHave(raw) /\ HaveLeads(raw)
  BY WellFormedHalves
<1>3. raw \in Bytes
  BY FileBytes
<1> HIDE DEF l
<1>4. \/ raw[l] = 1 \/ raw[l] \in Leads
      \/ /\ raw[l] \in Continuations
         /\ \E j \in 1..(l - 1) : raw[j] \in Leads /\ l - j < Width(raw[j])
  BY <1>1, <1>2 DEF HaveLeads
<1>5. CASE raw[l] = 1
  <2> DEFINE m == l - 1
  <2>1. m \in Nat /\ m < l /\ m + 1 = l /\ raw[m + 1] \notin Continuations
    BY <1>1, <1>5 DEF Continuations
  <2>2. SubSeq(raw, l, l) = <<raw[l]>>
    <3>1. \A i \in l..l : raw[i] \in Byte
      BY <1>1, <1>3 DEF Bytes
    <3>2. /\ SubSeq(raw, l, l) \in Seq(Byte) /\ Len(SubSeq(raw, l, l)) = 1
          /\ SubSeq(raw, l, l)[1] = raw[l]
      <4>1. l \in Int /\ l <= l /\ l - l + 1 = 1 /\ 1 \in 1..(l - l + 1) /\ l + 1 - 1 = l
        BY <1>1
      <4> QED  BY <3>1, <4>1, SubSeqProperties
    <3>3. \A u \in Seq(Byte) : Len(u) = 1 => u = <<u[1]>>
      OBVIOUS
    <3> QED  BY <3>2, <3>3
  <2>3. <<1>> \in Characters
    BY CharsAreCharacters DEF Chars
  <2> HIDE DEF m
  <2>4. WellFormed(SubSeq(raw, 1, m))
    BY <2>1, WellFormedPrefix DEF l
  <2>5. SubSeq(raw, m + 1, Len(raw)) \in Characters
    BY <1>5, <2>1, <2>2, <2>3 DEF l
  <2>6. EndsAt(raw, m)
    BY <2>1, <2>4, <2>5 DEF EndsAt, l
  <2> QED  BY <2>6
<1>6. CASE raw[l] \in Leads
  <2>1. l + Width(raw[l]) - 1 <= l
    BY <1>1, <1>2, <1>6 DEF LeadsHave, l
  <2>2. Width(raw[l]) \in 2..4
    BY <1>6, LeadWidth
  <2> QED  BY <1>1, <2>1, <2>2
<1>7. ASSUME NEW j \in 1..(l - 1), raw[j] \in Leads, l - j < Width(raw[j])
      PROVE  \E m : EndsAt(raw, m)
  <2> DEFINE w == Width(raw[j])
             m == j - 1
             c == SubSeq(raw, j, l)
  <2>1. w \in 2..4 /\ raw[j] \notin Continuations
    BY <1>7, LeadWidth
  <2>2. /\ j + w - 1 <= l
        /\ \A i \in (j + 1)..(j + w - 1) : raw[i] \in Continuations
        /\ raw[j] = 7 => raw[j + 1] = 5
    BY <1>1, <1>2, <1>7 DEF LeadsHave, l
  <2>3. w = (l - j) + 1 /\ j + w - 1 = l
    <3> HIDE DEF w
    <3> QED  BY <1>1, <1>7, <2>1, <2>2 DEF w
  <2>4. c \in Bytes /\ Len(c) = (l - j) + 1 /\ \A i \in 1..((l - j) + 1) : c[i] = raw[j + i - 1]
    <3>1. \A i \in j..l : raw[i] \in Byte
      BY <1>1, <1>3 DEF Bytes
    <3> QED  BY <1>1, <3>1, SubSeqProperties DEF Bytes
  <2>5. m \in Nat /\ m < l /\ m + 1 = j
    BY <1>1
  <2> HIDE DEF c, m, w
  <2>6. c[1] = raw[j] /\ c[2] = raw[j + 1] /\ c # <<>>
    <3>1. 1 \in 1..((l - j) + 1) /\ 2 \in 1..((l - j) + 1) /\ j + 1 - 1 = j /\ j + 2 - 1 = j + 1
      BY <1>1
    <3> QED  BY <1>1, <2>4, <3>1, EmptySeq
  <2>7. ASSUME NEW i \in 2..Len(c) PROVE c[i] \in Continuations
    <3>1. j + i - 1 \in (j + 1)..(j + w - 1) /\ i \in 1..((l - j) + 1)
      BY <1>1, <2>3, <2>4
    <3> QED  BY <2>2, <2>4, <3>1
  <2>8. c \in Characters
    BY <1>7, <2>2, <2>3, <2>4, <2>6, <2>7 DEF Characters, w
  <2>9. WellFormed(SubSeq(raw, 1, m))
    BY <2>1, <2>5, WellFormedPrefix DEF l
  <2>10. EndsAt(raw, m)
    BY <2>5, <2>8, <2>9 DEF EndsAt, c, l
  <2> QED  BY <2>10
<1> QED  BY <1>4, <1>5, <1>6, <1>7

\* Well-formed bytes are the bytes of a text.
LEMMA WellFormedText ==
  ASSUME NEW raw \in Seq(FileByte), WellFormed(raw)
  PROVE  \E text \in Texts : raw = Encode(text)
<1> DEFINE Q == {n \in Nat : \A s \in Seq(FileByte) : Len(s) <= n /\ WellFormed(s) =>
                   \E text \in Texts : s = Encode(text)}
<1>1. ASSUME NEW s \in Seq(FileByte), Len(s) = 0 PROVE \E text \in Texts : s = Encode(text)
  <2>1. s = <<>> /\ <<>> \in Texts
    BY <1>1, EmptySeq DEF Texts
  <2> QED  BY <2>1, EncodeEmpty
<1>2. 0 \in Q
  <2>1. \A s \in Seq(FileByte) : Len(s) <= 0 => Len(s) = 0
    BY LenProperties
  <2> QED  BY <1>1, <2>1
<1>3. ASSUME NEW n \in Nat, n \in Q PROVE n + 1 \in Q
  <2> SUFFICES ASSUME NEW s \in Seq(FileByte), Len(s) <= n + 1, WellFormed(s)
               PROVE  \E text \in Texts : s = Encode(text)
    OBVIOUS
  <2>1. CASE s = <<>>
    BY <1>1, <2>1, EmptySeq
  <2>2. CASE s # <<>>
    <3>1. PICK m : EndsAt(s, m)
      BY <2>2, LastCharacter
    <3> DEFINE e == SubSeq(s, 1, m)
               c == SubSeq(s, m + 1, Len(s))
    <3>2. m \in Nat /\ m < Len(s) /\ c \in Characters /\ WellFormed(e) /\ Len(s) \in Nat
      BY <3>1, LenProperties DEF EndsAt
    <3>3. e \in Seq(FileByte) /\ Len(e) = m
      BY <3>2
    <3>4. s = e \o c
      <4>1. /\ 1 \in 1..(Len(s) + 1) /\ m \in (1 - 1)..Len(s) /\ Len(s) \in m..Len(s)
        BY <3>2
      <4>2. SubSeq(s, 1, m) \o SubSeq(s, m + 1, Len(s)) = SubSeq(s, 1, Len(s))
        BY <4>1, ConcatAdjacentSubSeq
      <4> QED  BY <4>2, SubSeqFull
    <3> HIDE DEF e, c
    <3>5. Len(e) <= n
      BY <3>2, <3>3
    <3>6. PICK text \in Texts : e = Encode(text)
      BY <1>3, <3>2, <3>3, <3>5
    <3>7. text \in Seq(Bytes) /\ c \in Bytes /\ Append(text, c) \in Texts
      BY <3>2, TextBytes, CharacterBytes DEF Texts
    <3>8. s = Encode(Append(text, c))
      BY <3>4, <3>6, <3>7, EncodeAppend
    <3> QED  BY <3>7, <3>8
  <2> QED  BY <2>1, <2>2
<1>4. Nat \subseteq Q
  <2> HIDE DEF Q
  <2> QED  BY <1>2, <1>3, NatInduced
<1>5. Len(raw) \in Q
  BY <1>4, LenProperties
<1>6. Len(raw) <= Len(raw)
  BY LenProperties
<1> QED  BY <1>5, <1>6

\* A file is called text exactly when it is well-formed.
LEMMA TextIsWellFormed ==
  ASSUME NEW raw \in Seq(FileByte)
  PROVE  IsText(raw, Decode(raw)) <=> WellFormed(raw)
<1>1. ASSUME IsText(raw, Decode(raw)) PROVE WellFormed(raw)
  <2>1. Decode(raw) \in Texts /\ Encode(Decode(raw)) = raw
    BY <1>1, FileBytes, DecodeType DEF IsText
  <2> QED  BY <2>1, TextWellFormed
<1>2. ASSUME WellFormed(raw) PROVE IsText(raw, Decode(raw))
  <2>1. PICK text \in Texts : raw = Encode(text)
    BY <1>2, WellFormedText
  <2> QED  BY <2>1, DecodeEncode DEF IsText
<1> QED  BY <1>1, <1>2

-----------------------------------------------------------------------------
(* Numerals and bits                                                       *)

\* A numeral is read a digit at a time.
NumbersBy(f, digits, base) ==
  /\ f \in [0..Len(digits) -> Nat] /\ f[0] = 0 /\ f[Len(digits)] = Number(digits, base)
  /\ \A i \in 1..Len(digits) : f[i] = base * f[i - 1] + digits[i]

LEMMA NumberUnfold ==
  ASSUME NEW digits \in Seq(Nat), NEW base \in {2, 4, 8, 16}
  PROVE  \E f : NumbersBy(f, digits, base)
<1> DEFINE n == Len(digits)
           step == [p \in (1..n) \X Nat |-> base * p[2] + digits[p[1]]]
           Plus(x, d) == base * x + d
           F(u) == [i \in 0..n |-> IF i = 0 THEN 0 ELSE Plus(u[i - 1], digits[i])]
           upto == CHOOSE u : u = F(u)
<1>1. n \in Nat /\ \A i \in 1..n : digits[i] \in Nat
  OBVIOUS
<1>0. \A x, d \in Nat : base * x + d \in Nat
  <2>1. base = 2 \/ base = 4 \/ base = 8 \/ base = 16
    OBVIOUS
  <2>2. \A x, d \in Nat : 2 * x + d \in Nat /\ 4 * x + d \in Nat /\ 8 * x + d \in Nat /\ 16 * x + d \in Nat
    OBVIOUS
  <2> QED  BY <2>1, <2>2
<1>2. step \in [(1..n) \X Nat -> Nat]
  <2>1. \A p \in (1..n) \X Nat : p[2] \in Nat /\ digits[p[1]] \in Nat
    BY <1>1
  <2>2. \A p \in (1..n) \X Nat : base * p[2] + digits[p[1]] \in Nat
    BY <1>0, <2>1
  <2> QED  BY <2>2
<1>3. PICK f \in [0..n -> Nat] : GoesOn(f, n, 0, step)
  <2> HIDE DEF n, step
  <2>1. Recursive(Nat, n, 0, step)
    BY <1>1, <1>2, Recursion
  <2> QED  BY <2>1 DEF Recursive
<1>4. ASSUME NEW i \in 1..n PROVE f[i] = base * f[i - 1] + digits[i]
  <2>1. i - 1 \in 0..n /\ f[i - 1] \in Nat
    <3> HIDE DEF n
    <3> QED  BY <1>1, <1>3
  <2>2. <<i, f[i - 1]>> \in (1..n) \X Nat
    BY <2>1
  <2> QED  BY <1>3, <2>2 DEF GoesOn
<1>5. f = F(f)
  BY <1>3, <1>4 DEF GoesOn
<1>6. upto = F(upto)
  <2> HIDE DEF F
  <2> QED  BY <1>5
<1>7. Number(digits, base) = upto[n]
  BY DEF Number
<1> HIDE DEF upto
<1>8. /\ upto[0] = 0
      /\ \A i \in 1..n : upto[i] = base * upto[i - 1] + digits[i]
  <2> HIDE DEF Plus
  <2>1. upto[0] = 0 /\ \A i \in 1..n : upto[i] = Plus(upto[i - 1], digits[i])
    BY <1>1, <1>6, SMTT(60)
  <2> QED  BY <2>1 DEF Plus
<1> HIDE DEF F, step, n
<1> DEFINE Q == {k \in Nat : k <= n => upto[k] = f[k]}
<1>9. ASSUME NEW k \in Nat, k \in Q PROVE k + 1 \in Q
  <2> SUFFICES ASSUME k + 1 <= n PROVE upto[k + 1] = f[k + 1]
    OBVIOUS
  <2>1. k + 1 \in 1..n /\ (k + 1) - 1 = k /\ upto[k] = f[k]
    BY <1>1, <1>9
  <2> QED  BY <1>4, <1>8, <2>1
<1>10. Nat \subseteq Q
  <2>1. 0 \in Q
    BY <1>3, <1>8 DEF GoesOn
  <2> HIDE DEF Q
  <2> QED  BY <1>9, <2>1, NatInduced
<1>11. Number(digits, base) = f[n]
  BY <1>1, <1>7, <1>10
<1> QED  BY <1>3, <1>4, <1>11 DEF NumbersBy, GoesOn, n

LEMMA NumberThree ==
  ASSUME NEW a \in Nat, NEW b \in Nat, NEW c \in Nat
  PROVE  Number(<<a, b, c>>, 2) = 4 * a + 2 * b + c
<1> DEFINE s == <<a, b, c>>
<1>1. s \in Seq(Nat) /\ Len(s) = 3 /\ s[1] = a /\ s[2] = b /\ s[3] = c
  OBVIOUS
<1> HIDE DEF s
<1>2. PICK f : NumbersBy(f, s, 2)
  BY <1>1, NumberUnfold
<1>3. /\ f[0] = 0 /\ f[3] = Number(s, 2) /\ f \in [0..3 -> Nat]
      /\ \A i \in 1..3 : f[i] = 2 * f[i - 1] + s[i]
  BY <1>1, <1>2 DEF NumbersBy
<1>4. f[1] = 2 * f[0] + a /\ f[2] = 2 * f[1] + b /\ f[3] = 2 * f[2] + c
  <2>1. f[1] = 2 * f[1 - 1] + s[1] /\ f[2] = 2 * f[2 - 1] + s[2] /\ f[3] = 2 * f[3 - 1] + s[3]
    BY <1>3
  <2> QED  BY <1>1, <2>1
<1>5. f[1] \in Nat /\ f[2] \in Nat /\ f[3] \in Nat
  BY <1>3
<1> QED  BY <1>3, <1>4, <1>5 DEF s

LEMMA NumberFour ==
  ASSUME NEW a \in Nat, NEW b \in Nat, NEW c \in Nat, NEW d \in Nat
  PROVE  Number(<<a, b, c, d>>, 2) = 8 * a + 4 * b + 2 * c + d
<1> DEFINE s == <<a, b, c, d>>
<1>1. s \in Seq(Nat) /\ Len(s) = 4 /\ s[1] = a /\ s[2] = b /\ s[3] = c /\ s[4] = d
  OBVIOUS
<1> HIDE DEF s
<1>2. PICK f : NumbersBy(f, s, 2)
  BY <1>1, NumberUnfold
<1>3. /\ f[0] = 0 /\ f[4] = Number(s, 2) /\ f \in [0..4 -> Nat]
      /\ \A i \in 1..4 : f[i] = 2 * f[i - 1] + s[i]
  BY <1>1, <1>2 DEF NumbersBy
<1>4. f[1] = 2 * f[0] + a /\ f[2] = 2 * f[1] + b /\ f[3] = 2 * f[2] + c /\ f[4] = 2 * f[3] + d
  <2>1. /\ f[1] = 2 * f[1 - 1] + s[1] /\ f[2] = 2 * f[2 - 1] + s[2] /\ f[3] = 2 * f[3 - 1] + s[3]
        /\ f[4] = 2 * f[4 - 1] + s[4]
    BY <1>3
  <2> QED  BY <1>1, <2>1
<1>5. f[1] \in Nat /\ f[2] \in Nat /\ f[3] \in Nat /\ f[4] \in Nat
  BY <1>3
<1> QED  BY <1>3, <1>4, <1>5 DEF s

LEMMA NumberEmpty == \A base \in {2, 4, 8, 16} : Number(<<>>, base) = 0
<1> TAKE base \in {2, 4, 8, 16}
<1>1. <<>> \in Seq(Nat) /\ Len(<<>>) = 0
  OBVIOUS
<1>2. PICK f : NumbersBy(f, <<>>, base)
  BY <1>1, NumberUnfold
<1> QED  BY <1>1, <1>2 DEF NumbersBy

LEMMA NumberAppend ==
  ASSUME NEW digits \in Seq(Nat), NEW d \in Nat, NEW base \in {2, 4, 8, 16}
  PROVE  Number(Append(digits, d), base) = base * Number(digits, base) + d
<1> DEFINE n == Len(digits)
           more == Append(digits, d)
<1>1. /\ n \in Nat /\ more \in Seq(Nat) /\ Len(more) = n + 1 /\ more[n + 1] = d
      /\ \A i \in 1..n : more[i] = digits[i]
  OBVIOUS
<1>2. PICK f : NumbersBy(f, digits, base)
  BY NumberUnfold
<1>3. PICK g : NumbersBy(g, more, base)
  BY <1>1, NumberUnfold
<1> HIDE DEF n, more
<1>4. /\ f[0] = 0 /\ f[n] = Number(digits, base)
      /\ \A i \in 1..n : f[i] = base * f[i - 1] + digits[i]
  BY <1>2 DEF NumbersBy, n
<1>5. /\ g[0] = 0 /\ g[n + 1] = Number(more, base)
      /\ \A i \in 1..(n + 1) : g[i] = base * g[i - 1] + more[i]
  BY <1>1, <1>3 DEF NumbersBy
<1> DEFINE Q == {k \in Nat : k <= n => g[k] = f[k]}
<1>6. ASSUME NEW k \in Nat, k \in Q PROVE k + 1 \in Q
  <2> SUFFICES ASSUME k + 1 <= n PROVE g[k + 1] = f[k + 1]
    OBVIOUS
  <2>1. k + 1 \in 1..n /\ k + 1 \in 1..(n + 1) /\ (k + 1) - 1 = k /\ g[k] = f[k]
    BY <1>1, <1>6
  <2> QED  BY <1>1, <1>4, <1>5, <2>1
<1>7. Nat \subseteq Q
  <2>1. 0 \in Q
    BY <1>4, <1>5
  <2> HIDE DEF Q
  <2> QED  BY <1>6, <2>1, NatInduced
<1>8. g[n] = f[n]
  BY <1>1, <1>7
<1>9. g[n + 1] = base * g[n] + d
  <2>1. n + 1 \in 1..(n + 1) /\ (n + 1) - 1 = n
    BY <1>1
  <2> QED  BY <1>1, <1>5, <2>1
<1> QED  BY <1>4, <1>5, <1>8, <1>9 DEF more

LEMMA NumberType ==
  ASSUME NEW digits \in Seq(Nat), NEW base \in {2, 4, 8, 16}
  PROVE  Number(digits, base) \in Nat
<1>1. Len(digits) \in 0..Len(digits)
  OBVIOUS
<1> QED  BY <1>1, NumberUnfold, SMTT(60) DEF NumbersBy

\* The k-th number, and zeros after the last.
At(s, k) == IF k <= Len(s) THEN s[k] ELSE 0

Nibbles == 0..15     \* what fits a byte
Octals == 0..7       \* what fits a base64 digit
Quads == 0..3        \* what fits a hex digit

LEMMA AtType ==
  ASSUME NEW S, 0 \in S, NEW s \in Seq(S), NEW k \in Nat \ {0}
  PROVE  At(s, k) \in S
BY DEF At

LEMMA BitOfByte ==
  ASSUME NEW s \in Seq(Nibbles), NEW q \in Nat
  PROVE  /\ Bit(s, 4, 4 * q) = (At(s, q + 1) \div 8) % 2
         /\ Bit(s, 4, 4 * q + 1) = (At(s, q + 1) \div 4) % 2
         /\ Bit(s, 4, 4 * q + 2) = (At(s, q + 1) \div 2) % 2
         /\ Bit(s, 4, 4 * q + 3) = At(s, q + 1) % 2
<1> DEFINE a == At(s, q + 1)
<1>1. /\ (4 * q) \div 4 = q /\ (4 * q) % 4 = 0
      /\ (4 * q + 1) \div 4 = q /\ (4 * q + 1) % 4 = 1
      /\ (4 * q + 2) \div 4 = q /\ (4 * q + 2) % 4 = 2
      /\ (4 * q + 3) \div 4 = q /\ (4 * q + 3) % 4 = 3
  OBVIOUS
<1>2. Pow2(4 - 1 - 0) = 8 /\ Pow2(4 - 1 - 1) = 4 /\ Pow2(4 - 1 - 2) = 2 /\ Pow2(4 - 1 - 3) = 1
  BY DEF Pow2
<1>3. a \in Nibbles
  BY AtType, SMTT(60) DEF Nibbles
<1>4. a \div 1 = a /\ \A x \in {1, 2, 4, 8} : 0 = (0 \div x) % 2
  BY <1>3 DEF Nibbles
<1>5. ASSUME NEW i, NEW j, i \div 4 = q, i % 4 = j
      PROVE  Bit(s, 4, i) = IF q >= Len(s) THEN 0 ELSE (s[q + 1] \div Pow2(4 - 1 - j)) % 2
  BY <1>5 DEF Bit
<1>6. a = IF q >= Len(s) THEN 0 ELSE s[q + 1]
  BY DEF At
<1> HIDE DEF a
<1>7. ASSUME NEW i, NEW j, i \div 4 = q, i % 4 = j, Pow2(4 - 1 - j) \in {1, 2, 4, 8}
      PROVE  Bit(s, 4, i) = (a \div Pow2(4 - 1 - j)) % 2
  BY <1>4, <1>5, <1>6, <1>7
<1> QED  BY <1>1, <1>2, <1>4, <1>7, ZenonT(40) DEF a

LEMMA BitOfDigit ==
  ASSUME NEW s \in Seq(Octals), NEW q \in Nat
  PROVE  /\ Bit(s, 3, 3 * q) = (At(s, q + 1) \div 4) % 2
         /\ Bit(s, 3, 3 * q + 1) = (At(s, q + 1) \div 2) % 2
         /\ Bit(s, 3, 3 * q + 2) = At(s, q + 1) % 2
<1> DEFINE a == At(s, q + 1)
<1>1. /\ (3 * q) \div 3 = q /\ (3 * q) % 3 = 0
      /\ (3 * q + 1) \div 3 = q /\ (3 * q + 1) % 3 = 1
      /\ (3 * q + 2) \div 3 = q /\ (3 * q + 2) % 3 = 2
  OBVIOUS
<1>2. Pow2(3 - 1 - 0) = 4 /\ Pow2(3 - 1 - 1) = 2 /\ Pow2(3 - 1 - 2) = 1
  BY DEF Pow2
<1>3. a \in Octals
  BY AtType DEF Octals
<1>4. a \div 1 = a /\ \A x \in {1, 2, 4} : 0 = (0 \div x) % 2
  BY <1>3 DEF Octals
<1>5. ASSUME NEW i, NEW j, i \div 3 = q, i % 3 = j
      PROVE  Bit(s, 3, i) = IF q >= Len(s) THEN 0 ELSE (s[q + 1] \div Pow2(3 - 1 - j)) % 2
  BY <1>5 DEF Bit
<1>6. a = IF q >= Len(s) THEN 0 ELSE s[q + 1]
  BY DEF At
<1> HIDE DEF a
<1>7. ASSUME NEW i, NEW j, i \div 3 = q, i % 3 = j, Pow2(3 - 1 - j) \in {1, 2, 4}
      PROVE  Bit(s, 3, i) = (a \div Pow2(3 - 1 - j)) % 2
  BY <1>4, <1>5, <1>6, <1>7
<1> QED  BY <1>1, <1>2, <1>4, <1>7 DEF a

LEMMA BitOfHex ==
  ASSUME NEW s \in Seq(Quads), NEW q \in Nat
  PROVE  /\ Bit(s, 2, 2 * q) = (At(s, q + 1) \div 2) % 2
         /\ Bit(s, 2, 2 * q + 1) = At(s, q + 1) % 2
<1> DEFINE a == At(s, q + 1)
<1>1. /\ (2 * q) \div 2 = q /\ (2 * q) % 2 = 0
      /\ (2 * q + 1) \div 2 = q /\ (2 * q + 1) % 2 = 1
  OBVIOUS
<1>2. Pow2(2 - 1 - 0) = 2 /\ Pow2(2 - 1 - 1) = 1
  BY DEF Pow2
<1>3. a \in Quads
  BY AtType DEF Quads
<1>4. a \div 1 = a /\ \A x \in {1, 2} : 0 = (0 \div x) % 2
  BY <1>3 DEF Quads
<1>5. ASSUME NEW i, NEW j, i \div 2 = q, i % 2 = j
      PROVE  Bit(s, 2, i) = IF q >= Len(s) THEN 0 ELSE (s[q + 1] \div Pow2(2 - 1 - j)) % 2
  BY <1>5 DEF Bit
<1>6. a = IF q >= Len(s) THEN 0 ELSE s[q + 1]
  BY DEF At
<1> HIDE DEF a
<1>7. ASSUME NEW i, NEW j, i \div 2 = q, i % 2 = j, Pow2(2 - 1 - j) \in {1, 2}
      PROVE  Bit(s, 2, i) = (a \div Pow2(2 - 1 - j)) % 2
  BY <1>4, <1>5, <1>6, <1>7
<1> QED  BY <1>1, <1>2, <1>4, <1>7, SMTT(60) DEF a

\* A number of v bits, from its first bit.
LEMMA RegroupThree ==
  ASSUME NEW s, NEW w, NEW n \in Nat, NEW k \in 1..n, NEW i \in Nat, i = 3 * (k - 1),
         Bit(s, w, i) \in Nat, Bit(s, w, i + 1) \in Nat, Bit(s, w, i + 2) \in Nat
  PROVE  Regroup(s, w, 3, n)[k] = 4 * Bit(s, w, i) + 2 * Bit(s, w, i + 1) + Bit(s, w, i + 2)
<1> DEFINE bits == [j \in 1..3 |-> Bit(s, w, (k - 1) * 3 + j - 1)]
<1>1. /\ (k - 1) * 3 + 1 - 1 = i /\ (k - 1) * 3 + 2 - 1 = i + 1 /\ (k - 1) * 3 + 3 - 1 = i + 2
  OBVIOUS
<1>2. bits = <<Bit(s, w, i), Bit(s, w, i + 1), Bit(s, w, i + 2)>>
  <2>1. 1..3 = {1, 2, 3}
    OBVIOUS
  <2>2. bits[1] = Bit(s, w, i) /\ bits[2] = Bit(s, w, i + 1) /\ bits[3] = Bit(s, w, i + 2)
    BY <1>1
  <2>3. bits \in [1..3 -> {bits[1], bits[2], bits[3]}]
    BY <2>1
  <2> HIDE DEF bits
  <2>4. bits = <<bits[1], bits[2], bits[3]>>
    BY <2>1, <2>3
  <2> QED  BY <2>2, <2>4
<1>3. Regroup(s, w, 3, n)[k] = Number(bits, 2)
  BY DEF Regroup
<1> QED  BY <1>2, <1>3, NumberThree

LEMMA RegroupFour ==
  ASSUME NEW s, NEW w, NEW n \in Nat, NEW k \in 1..n, NEW i \in Nat, i = 4 * (k - 1),
         Bit(s, w, i) \in Nat, Bit(s, w, i + 1) \in Nat, Bit(s, w, i + 2) \in Nat,
         Bit(s, w, i + 3) \in Nat
  PROVE  Regroup(s, w, 4, n)[k] =
           8 * Bit(s, w, i) + 4 * Bit(s, w, i + 1) + 2 * Bit(s, w, i + 2) + Bit(s, w, i + 3)
<1> DEFINE bits == [j \in 1..4 |-> Bit(s, w, (k - 1) * 4 + j - 1)]
<1>1. /\ (k - 1) * 4 + 1 - 1 = i /\ (k - 1) * 4 + 2 - 1 = i + 1 /\ (k - 1) * 4 + 3 - 1 = i + 2
      /\ (k - 1) * 4 + 4 - 1 = i + 3
  OBVIOUS
<1>2. bits = <<Bit(s, w, i), Bit(s, w, i + 1), Bit(s, w, i + 2), Bit(s, w, i + 3)>>
  <2>1. 1..4 = {1, 2, 3, 4}
    OBVIOUS
  <2>2. /\ bits[1] = Bit(s, w, i) /\ bits[2] = Bit(s, w, i + 1) /\ bits[3] = Bit(s, w, i + 2)
        /\ bits[4] = Bit(s, w, i + 3)
    BY <1>1
  <2>3. bits \in [1..4 -> {bits[1], bits[2], bits[3], bits[4]}]
    BY <2>1
  <2> HIDE DEF bits
  <2>4. bits = <<bits[1], bits[2], bits[3], bits[4]>>
    BY <2>1, <2>3
  <2> QED  BY <2>2, <2>4
<1>3. Regroup(s, w, 4, n)[k] = Number(bits, 2)
  BY DEF Regroup
<1>4. Number(<<Bit(s, w, i), Bit(s, w, i + 1), Bit(s, w, i + 2), Bit(s, w, i + 3)>>, 2) =
        8 * Bit(s, w, i) + 4 * Bit(s, w, i + 1) + 2 * Bit(s, w, i + 2) + Bit(s, w, i + 3)
  BY NumberFour, SMTT(60)
<1> HIDE DEF bits
<1> QED  BY <1>2, <1>3, <1>4

\* Four base64 digits of three bytes.
LEMMA DigitsOfBytes ==
  ASSUME NEW s \in Seq(Nibbles), NEW n \in Nat, NEW g \in Nat
  PROVE  LET a == At(s, 3 * g + 1)
             b == At(s, 3 * g + 2)
             c == At(s, 3 * g + 3)
             d == Regroup(s, 4, 3, n)
         IN /\ 4 * g + 1 <= n => d[4 * g + 1] = a \div 2
            /\ 4 * g + 2 <= n => d[4 * g + 2] = 4 * (a % 2) + b \div 4
            /\ 4 * g + 3 <= n => d[4 * g + 3] = 2 * (b % 4) + c \div 8
            /\ 4 * g + 4 <= n => d[4 * g + 4] = c % 8
<1> DEFINE a == At(s, 3 * g + 1)
           b == At(s, 3 * g + 2)
           c == At(s, 3 * g + 3)
           d == Regroup(s, 4, 3, n)
           bit(i) == Bit(s, 4, 12 * g + i)
<1>1. a \in Nibbles /\ b \in Nibbles /\ c \in Nibbles
  BY AtType, SMTT(60) DEF Nibbles
<1>2. bit(0) = (a \div 8) % 2 /\ bit(1) = (a \div 4) % 2 /\ bit(2) = (a \div 2) % 2 /\ bit(3) = a % 2
  <2>1. 4 * (3 * g) = 12 * g + 0 /\ 3 * g \in Nat /\ 4 * (3 * g) + 1 = 12 * g + 1
        /\ 4 * (3 * g) + 2 = 12 * g + 2 /\ 4 * (3 * g) + 3 = 12 * g + 3
    OBVIOUS
  <2> QED  BY <2>1, BitOfByte
<1>3. bit(4) = (b \div 8) % 2 /\ bit(5) = (b \div 4) % 2 /\ bit(6) = (b \div 2) % 2 /\ bit(7) = b % 2
  <2>1. 4 * (3 * g + 1) = 12 * g + 4 /\ 3 * g + 1 \in Nat /\ 4 * (3 * g + 1) + 1 = 12 * g + 5
        /\ 4 * (3 * g + 1) + 2 = 12 * g + 6 /\ 4 * (3 * g + 1) + 3 = 12 * g + 7
        /\ (3 * g + 1) + 1 = 3 * g + 2
    OBVIOUS
  <2> QED  BY <2>1, BitOfByte
<1>4. bit(8) = (c \div 8) % 2 /\ bit(9) = (c \div 4) % 2 /\ bit(10) = (c \div 2) % 2 /\ bit(11) = c % 2
  <2>1. 4 * (3 * g + 2) = 12 * g + 8 /\ 3 * g + 2 \in Nat /\ 4 * (3 * g + 2) + 1 = 12 * g + 9
        /\ 4 * (3 * g + 2) + 2 = 12 * g + 10 /\ 4 * (3 * g + 2) + 3 = 12 * g + 11
        /\ (3 * g + 2) + 1 = 3 * g + 3
    OBVIOUS
  <2> QED  BY <2>1, BitOfByte
<1> HIDE DEF a, b, c, bit, d
<1>5. ASSUME NEW j \in 1..4, 4 * g + j <= n,
             NEW x \in {0, 1}, NEW y \in {0, 1}, NEW z \in {0, 1},
             Bit(s, 4, 12 * g + (3 * j - 3)) = x, Bit(s, 4, 12 * g + (3 * j - 2)) = y,
             Bit(s, 4, 12 * g + (3 * j - 1)) = z
      PROVE  d[4 * g + j] = 4 * x + 2 * y + z
  <2> DEFINE k == 4 * g + j
             i == 12 * g + (3 * j - 3)
  <2>1. k \in 1..n /\ i \in Nat /\ i = 3 * (k - 1)
    BY <1>5
  <2>2. i + 1 = 12 * g + (3 * j - 2) /\ i + 2 = 12 * g + (3 * j - 1)
    OBVIOUS
  <2> HIDE DEF k, i
  <2>3. Bit(s, 4, i) = x /\ Bit(s, 4, i + 1) = y /\ Bit(s, 4, i + 2) = z
    BY <1>5, <2>2 DEF i
  <2>4. d[k] = 4 * Bit(s, 4, i) + 2 * Bit(s, 4, i + 1) + Bit(s, 4, i + 2)
    <3>1. Bit(s, 4, i) \in Nat /\ Bit(s, 4, i + 1) \in Nat /\ Bit(s, 4, i + 2) \in Nat
      BY <2>3
    <3>2. Regroup(s, 4, 3, n)[k] = 4 * Bit(s, 4, i) + 2 * Bit(s, 4, i + 1) + Bit(s, 4, i + 2)
      BY <2>1, <3>1, RegroupThree
    <3> QED  BY <3>2 DEF d
  <2> QED  BY <2>3, <2>4 DEF k
<1>6. \A x \in Nibbles : {(x \div 8) % 2, (x \div 4) % 2, (x \div 2) % 2, x % 2} \subseteq {0, 1}
  BY DEF Nibbles
<1>7. 4 * g + 1 <= n => d[4 * g + 1] = 4 * bit(0) + 2 * bit(1) + bit(2)
  BY <1>1, <1>2, <1>5, <1>6 DEF bit
<1>8. 4 * g + 2 <= n => d[4 * g + 2] = 4 * bit(3) + 2 * bit(4) + bit(5)
  BY <1>1, <1>2, <1>3, <1>5, <1>6 DEF bit
<1>9. 4 * g + 3 <= n => d[4 * g + 3] = 4 * bit(6) + 2 * bit(7) + bit(8)
  BY <1>1, <1>3, <1>4, <1>5, <1>6 DEF bit
<1>10. 4 * g + 4 <= n => d[4 * g + 4] = 4 * bit(9) + 2 * bit(10) + bit(11)
  BY <1>1, <1>4, <1>5, <1>6 DEF bit
<1>11. /\ 4 * bit(0) + 2 * bit(1) + bit(2) = a \div 2
       /\ 4 * bit(3) + 2 * bit(4) + bit(5) = 4 * (a % 2) + b \div 4
       /\ 4 * bit(6) + 2 * bit(7) + bit(8) = 2 * (b % 4) + c \div 8
       /\ 4 * bit(9) + 2 * bit(10) + bit(11) = c % 8
  <2>1. \A x \in Nibbles : /\ 4 * ((x \div 8) % 2) + 2 * ((x \div 4) % 2) + ((x \div 2) % 2) = x \div 2
                           /\ 2 * ((x \div 8) % 2) + ((x \div 4) % 2) = x \div 4
                           /\ 2 * ((x \div 2) % 2) + (x % 2) = x % 4
                           /\ (x \div 8) % 2 = x \div 8
                           /\ 4 * ((x \div 4) % 2) + 2 * ((x \div 2) % 2) + (x % 2) = x % 8
    BY DEF Nibbles
  <2>2. 4 * bit(0) + 2 * bit(1) + bit(2) = a \div 2
    BY <1>1, <1>2, <2>1
  <2>3. 2 * bit(4) + bit(5) = b \div 4 /\ 2 * bit(6) + bit(7) = b % 4
    BY <1>1, <1>3, <2>1
  <2>4. bit(8) = c \div 8 /\ 4 * bit(9) + 2 * bit(10) + bit(11) = c % 8
    BY <1>1, <1>4, <2>1
  <2>5. \A i \in 4..8 : bit(i) \in {0, 1}
    <3>1. \A i \in 4..8 : i = 4 \/ i = 5 \/ i = 6 \/ i = 7 \/ i = 8
      OBVIOUS
    <3> QED  BY <1>1, <1>3, <1>4, <1>6, <3>1
  <2>6. bit(4) \in {0, 1} /\ bit(5) \in {0, 1} /\ bit(6) \in {0, 1} /\ bit(7) \in {0, 1}
        /\ bit(8) \in {0, 1}
    BY <2>5
  <2>7. 4 * bit(3) + 2 * bit(4) + bit(5) = 4 * (a % 2) + b \div 4
    <3>1. bit(3) = a % 2 /\ a % 2 \in {0, 1}
      BY <1>1, <1>2, <1>6
    <3> QED  BY <2>3, <2>6, <3>1
  <2>8. 4 * bit(6) + 2 * bit(7) + bit(8) = 2 * (b % 4) + c \div 8
    BY <2>3, <2>4, <2>6
  <2> QED  BY <2>2, <2>4, <2>7, <2>8
<1> QED  BY <1>7, <1>8, <1>9, <1>10, <1>11 DEF a, b, c, d

\* Three bytes of four base64 digits.
LEMMA BytesOfDigits ==
  ASSUME NEW s \in Seq(Octals), NEW n \in Nat, NEW g \in Nat
  PROVE  LET a == At(s, 4 * g + 1)
             b == At(s, 4 * g + 2)
             c == At(s, 4 * g + 3)
             d == At(s, 4 * g + 4)
             r == Regroup(s, 3, 4, n)
         IN /\ 3 * g + 1 <= n => r[3 * g + 1] = 2 * a + b \div 4
            /\ 3 * g + 2 <= n => r[3 * g + 2] = 4 * (b % 4) + c \div 2
            /\ 3 * g + 3 <= n => r[3 * g + 3] = 8 * (c % 2) + d
<1> DEFINE a == At(s, 4 * g + 1)
           b == At(s, 4 * g + 2)
           c == At(s, 4 * g + 3)
           d == At(s, 4 * g + 4)
           r == Regroup(s, 3, 4, n)
           bit(i) == Bit(s, 3, 12 * g + i)
<1>1. a \in Octals /\ b \in Octals /\ c \in Octals /\ d \in Octals
  BY AtType DEF Octals
<1>2. bit(0) = (a \div 4) % 2 /\ bit(1) = (a \div 2) % 2 /\ bit(2) = a % 2
  <2>1. 3 * (4 * g) = 12 * g + 0 /\ 4 * g \in Nat /\ 3 * (4 * g) + 1 = 12 * g + 1
        /\ 3 * (4 * g) + 2 = 12 * g + 2
    OBVIOUS
  <2> QED  BY <2>1, BitOfDigit
<1>3. bit(3) = (b \div 4) % 2 /\ bit(4) = (b \div 2) % 2 /\ bit(5) = b % 2
  <2>1. 3 * (4 * g + 1) = 12 * g + 3 /\ 4 * g + 1 \in Nat /\ 3 * (4 * g + 1) + 1 = 12 * g + 4
        /\ 3 * (4 * g + 1) + 2 = 12 * g + 5 /\ (4 * g + 1) + 1 = 4 * g + 2
    OBVIOUS
  <2> QED  BY <2>1, BitOfDigit
<1>4. bit(6) = (c \div 4) % 2 /\ bit(7) = (c \div 2) % 2 /\ bit(8) = c % 2
  <2>1. 3 * (4 * g + 2) = 12 * g + 6 /\ 4 * g + 2 \in Nat /\ 3 * (4 * g + 2) + 1 = 12 * g + 7
        /\ 3 * (4 * g + 2) + 2 = 12 * g + 8 /\ (4 * g + 2) + 1 = 4 * g + 3
    OBVIOUS
  <2> QED  BY <2>1, BitOfDigit
<1>5. bit(9) = (d \div 4) % 2 /\ bit(10) = (d \div 2) % 2 /\ bit(11) = d % 2
  <2>1. 3 * (4 * g + 3) = 12 * g + 9 /\ 4 * g + 3 \in Nat /\ 3 * (4 * g + 3) + 1 = 12 * g + 10
        /\ 3 * (4 * g + 3) + 2 = 12 * g + 11 /\ (4 * g + 3) + 1 = 4 * g + 4
    OBVIOUS
  <2> QED  BY <2>1, BitOfDigit
<1> HIDE DEF a, b, c, d, bit, r
<1>6. \A x \in Octals : /\ {(x \div 4) % 2, (x \div 2) % 2, x % 2} \subseteq {0, 1}
                        /\ 4 * ((x \div 4) % 2) + 2 * ((x \div 2) % 2) + (x % 2) = x
                        /\ (x \div 4) % 2 = x \div 4
                        /\ 2 * ((x \div 2) % 2) + (x % 2) = x % 4
                        /\ 2 * ((x \div 4) % 2) + ((x \div 2) % 2) = x \div 2
  BY DEF Octals
<1>7. ASSUME NEW j \in 1..3, 3 * g + j <= n,
             NEW x \in {0, 1}, NEW y \in {0, 1}, NEW z \in {0, 1}, NEW t \in {0, 1},
             Bit(s, 3, 12 * g + (4 * j - 4)) = x, Bit(s, 3, 12 * g + (4 * j - 3)) = y,
             Bit(s, 3, 12 * g + (4 * j - 2)) = z, Bit(s, 3, 12 * g + (4 * j - 1)) = t
      PROVE  r[3 * g + j] = 8 * x + 4 * y + 2 * z + t
  <2> DEFINE k == 3 * g + j
             i == 12 * g + (4 * j - 4)
  <2>1. k \in 1..n /\ i \in Nat /\ i = 4 * (k - 1)
    BY <1>7
  <2>2. i + 1 = 12 * g + (4 * j - 3) /\ i + 2 = 12 * g + (4 * j - 2) /\ i + 3 = 12 * g + (4 * j - 1)
    OBVIOUS
  <2> HIDE DEF k, i
  <2>3. Bit(s, 3, i) = x /\ Bit(s, 3, i + 1) = y /\ Bit(s, 3, i + 2) = z /\ Bit(s, 3, i + 3) = t
    BY <1>7, <2>2 DEF i
  <2>4. Bit(s, 3, i) \in Nat /\ Bit(s, 3, i + 1) \in Nat /\ Bit(s, 3, i + 2) \in Nat /\ Bit(s, 3, i + 3) \in Nat
    BY <2>3
  <2>5. Regroup(s, 3, 4, n)[k] =
          8 * Bit(s, 3, i) + 4 * Bit(s, 3, i + 1) + 2 * Bit(s, 3, i + 2) + Bit(s, 3, i + 3)
    BY <2>1, <2>4, RegroupFour
  <2> QED  BY <2>3, <2>5 DEF k, r
<1>8. /\ bit(0) \in {0, 1} /\ bit(1) \in {0, 1} /\ bit(2) \in {0, 1}
      /\ bit(3) \in {0, 1} /\ bit(4) \in {0, 1} /\ bit(5) \in {0, 1}
      /\ bit(6) \in {0, 1} /\ bit(7) \in {0, 1} /\ bit(8) \in {0, 1}
      /\ bit(9) \in {0, 1} /\ bit(10) \in {0, 1} /\ bit(11) \in {0, 1}
  BY <1>1, <1>2, <1>3, <1>4, <1>5, <1>6
<1>9. 3 * g + 1 <= n => r[3 * g + 1] = 8 * bit(0) + 4 * bit(1) + 2 * bit(2) + bit(3)
  <2>1. /\ Bit(s, 3, 12 * g + (4 * 1 - 4)) = bit(0) /\ Bit(s, 3, 12 * g + (4 * 1 - 3)) = bit(1)
        /\ Bit(s, 3, 12 * g + (4 * 1 - 2)) = bit(2) /\ Bit(s, 3, 12 * g + (4 * 1 - 1)) = bit(3)
    BY DEF bit
  <2>2. 1 \in 1..3
    OBVIOUS
  <2> QED  BY <1>7, <1>8, <2>1, <2>2, SMTT(60)
<1>10. 3 * g + 2 <= n => r[3 * g + 2] = 8 * bit(4) + 4 * bit(5) + 2 * bit(6) + bit(7)
  <2>1. /\ Bit(s, 3, 12 * g + (4 * 2 - 4)) = bit(4) /\ Bit(s, 3, 12 * g + (4 * 2 - 3)) = bit(5)
        /\ Bit(s, 3, 12 * g + (4 * 2 - 2)) = bit(6) /\ Bit(s, 3, 12 * g + (4 * 2 - 1)) = bit(7)
    BY DEF bit
  <2>2. 2 \in 1..3
    OBVIOUS
  <2> QED  BY <1>7, <1>8, <2>1, <2>2, SMTT(60)
<1>11. 3 * g + 3 <= n => r[3 * g + 3] = 8 * bit(8) + 4 * bit(9) + 2 * bit(10) + bit(11)
  <2>1. /\ Bit(s, 3, 12 * g + (4 * 3 - 4)) = bit(8) /\ Bit(s, 3, 12 * g + (4 * 3 - 3)) = bit(9)
        /\ Bit(s, 3, 12 * g + (4 * 3 - 2)) = bit(10) /\ Bit(s, 3, 12 * g + (4 * 3 - 1)) = bit(11)
    BY DEF bit
  <2>2. 3 \in 1..3
    OBVIOUS
  <2> QED  BY <1>7, <1>8, <2>1, <2>2, SMTT(60)
<1>12. 4 * bit(0) + 2 * bit(1) + bit(2) = a /\ bit(3) = b \div 4
  BY <1>1, <1>2, <1>3, <1>6
<1>13. 2 * bit(4) + bit(5) = b % 4 /\ 2 * bit(6) + bit(7) = c \div 2
  BY <1>1, <1>3, <1>4, <1>6
<1>14. bit(8) = c % 2 /\ 4 * bit(9) + 2 * bit(10) + bit(11) = d
  BY <1>1, <1>4, <1>5, <1>6
<1>15. /\ 8 * bit(0) + 4 * bit(1) + 2 * bit(2) + bit(3) = 2 * a + b \div 4
       /\ 8 * bit(4) + 4 * bit(5) + 2 * bit(6) + bit(7) = 4 * (b % 4) + c \div 2
       /\ 8 * bit(8) + 4 * bit(9) + 2 * bit(10) + bit(11) = 8 * (c % 2) + d
  BY <1>8, <1>12, <1>13, <1>14
<1> QED  BY <1>9, <1>10, <1>11, <1>15 DEF a, b, c, d, r

\* A byte of two hex digits.
LEMMA ByteOfHex ==
  ASSUME NEW s \in Seq(Quads), NEW n \in Nat, NEW g \in Nat, g < n
  PROVE  Regroup(s, 2, 4, n)[g + 1] = 4 * At(s, 2 * g + 1) + At(s, 2 * g + 2)
<1> DEFINE a == At(s, 2 * g + 1)
           b == At(s, 2 * g + 2)
           i == 4 * g
           k == g + 1
<1>1. a \in Quads /\ b \in Quads
  BY AtType DEF Quads
<1>2. Bit(s, 2, i) = (a \div 2) % 2 /\ Bit(s, 2, i + 1) = a % 2
  <2>1. 2 * (2 * g) = i /\ 2 * g \in Nat
    OBVIOUS
  <2> HIDE DEF i
  <2> QED  BY <2>1, BitOfHex
<1>3. Bit(s, 2, i + 2) = (b \div 2) % 2 /\ Bit(s, 2, i + 3) = b % 2
  <2>1. 2 * (2 * g + 1) = i + 2 /\ 2 * (2 * g + 1) + 1 = i + 3 /\ 2 * g + 1 \in Nat
        /\ (2 * g + 1) + 1 = 2 * g + 2
    OBVIOUS
  <2> HIDE DEF i
  <2> QED  BY <2>1, BitOfHex
<1>4. i \in Nat /\ k \in 1..n /\ i = 4 * (k - 1)
  OBVIOUS
<1> HIDE DEF a, b, i, k
<1>5. \A x \in Quads : /\ (x \div 2) % 2 \in Nat /\ x % 2 \in Nat
                       /\ 2 * ((x \div 2) % 2) + (x % 2) = x
  BY DEF Quads
<1>6. Bit(s, 2, i) \in Nat /\ Bit(s, 2, i + 1) \in Nat /\ Bit(s, 2, i + 2) \in Nat /\ Bit(s, 2, i + 3) \in Nat
  BY <1>1, <1>2, <1>3, <1>5
<1>7. Regroup(s, 2, 4, n)[k] =
        8 * Bit(s, 2, i) + 4 * Bit(s, 2, i + 1) + 2 * Bit(s, 2, i + 2) + Bit(s, 2, i + 3)
  BY <1>4, <1>6, RegroupFour
<1>8. 2 * Bit(s, 2, i) + Bit(s, 2, i + 1) = a /\ 2 * Bit(s, 2, i + 2) + Bit(s, 2, i + 3) = b
  BY <1>1, <1>2, <1>3, <1>5
<1> DEFINE p == Bit(s, 2, i)
           q == Bit(s, 2, i + 1)
           x == Bit(s, 2, i + 2)
           y == Bit(s, 2, i + 3)
<1> HIDE DEF p, q, x, y
<1>9. /\ p \in Nat /\ q \in Nat /\ x \in Nat /\ y \in Nat /\ 2 * p + q = a /\ 2 * x + y = b
      /\ Regroup(s, 2, 4, n)[k] = 8 * p + 4 * q + 2 * x + y
  BY <1>6, <1>7, <1>8 DEF p, q, x, y
<1>10. Regroup(s, 2, 4, n)[k] = 4 * a + b
  BY <1>9
<1> QED  BY <1>10 DEF a, b, k

\* Which group a number is in, and where in it.
LEMMA InThree ==
  ASSUME NEW k \in Nat, k # 0
  PROVE  \E g \in Nat, j \in 1..3 : k = 3 * g + j
<1>1. (k - 1) \div 3 \in Nat /\ ((k - 1) % 3) + 1 \in 1..3
      /\ k = 3 * ((k - 1) \div 3) + (((k - 1) % 3) + 1)
  OBVIOUS
<1> QED  BY <1>1

LEMMA InFour ==
  ASSUME NEW k \in Nat, k # 0
  PROVE  \E g \in Nat, j \in 1..4 : k = 4 * g + j
<1>1. (k - 1) \div 4 \in Nat /\ ((k - 1) % 4) + 1 \in 1..4
      /\ k = 4 * ((k - 1) \div 4) + (((k - 1) % 4) + 1)
  OBVIOUS
<1> QED  BY <1>1

LEMMA DigitsType ==
  ASSUME NEW s \in Seq(Nibbles), NEW n \in Nat
  PROVE  /\ Regroup(s, 4, 3, n) \in Seq(Octals) /\ Len(Regroup(s, 4, 3, n)) = n
         /\ DOMAIN Regroup(s, 4, 3, n) = 1..n
<1> DEFINE d == Regroup(s, 4, 3, n)
<1>1. ASSUME NEW k \in 1..n PROVE d[k] \in Octals
  <2>0. k \in Nat /\ k # 0
    OBVIOUS
  <2>1. PICK g \in Nat, j \in 1..4 : k = 4 * g + j
    BY <2>0, InFour
  <2> DEFINE a == At(s, 3 * g + 1)
             b == At(s, 3 * g + 2)
             c == At(s, 3 * g + 3)
  <2>2. a \in Nibbles /\ b \in Nibbles /\ c \in Nibbles
    BY AtType, SMTT(60) DEF Nibbles
  <2>3. /\ 4 * g + 1 <= n => d[4 * g + 1] = a \div 2
        /\ 4 * g + 2 <= n => d[4 * g + 2] = 4 * (a % 2) + b \div 4
        /\ 4 * g + 3 <= n => d[4 * g + 3] = 2 * (b % 4) + c \div 8
        /\ 4 * g + 4 <= n => d[4 * g + 4] = c % 8
    BY DigitsOfBytes
  <2> HIDE DEF a, b, c, d
  <2>4. /\ a \div 2 \in Octals /\ 4 * (a % 2) + b \div 4 \in Octals
        /\ 2 * (b % 4) + c \div 8 \in Octals /\ c % 8 \in Octals
    BY <2>2 DEF Nibbles, Octals
  <2>5. j = 1 \/ j = 2 \/ j = 3 \/ j = 4
    OBVIOUS
  <2> QED  BY <2>1, <2>3, <2>4, <2>5
<1>2. d \in [1..n -> Octals]
  BY <1>1 DEF Regroup
<1> HIDE DEF d
<1> QED  BY <1>2, IsASeq, LenProperties DEF d

LEMMA BytesType ==
  ASSUME NEW s \in Seq(Octals), NEW n \in Nat
  PROVE  /\ Regroup(s, 3, 4, n) \in Seq(Nibbles) /\ Len(Regroup(s, 3, 4, n)) = n
         /\ DOMAIN Regroup(s, 3, 4, n) = 1..n
<1> DEFINE r == Regroup(s, 3, 4, n)
<1>1. ASSUME NEW k \in 1..n PROVE r[k] \in Nibbles
  <2>0. k \in Nat /\ k # 0
    OBVIOUS
  <2>1. PICK g \in Nat, j \in 1..3 : k = 3 * g + j
    BY <2>0, InThree
  <2> DEFINE a == At(s, 4 * g + 1)
             b == At(s, 4 * g + 2)
             c == At(s, 4 * g + 3)
             d == At(s, 4 * g + 4)
  <2>2. a \in Octals /\ b \in Octals /\ c \in Octals /\ d \in Octals
    BY AtType DEF Octals
  <2>3. /\ 3 * g + 1 <= n => r[3 * g + 1] = 2 * a + b \div 4
        /\ 3 * g + 2 <= n => r[3 * g + 2] = 4 * (b % 4) + c \div 2
        /\ 3 * g + 3 <= n => r[3 * g + 3] = 8 * (c % 2) + d
    BY BytesOfDigits
  <2> HIDE DEF a, b, c, d, r
  <2>4. 2 * a + b \div 4 \in Nibbles /\ 4 * (b % 4) + c \div 2 \in Nibbles /\ 8 * (c % 2) + d \in Nibbles
    BY <2>2 DEF Nibbles, Octals
  <2>5. j = 1 \/ j = 2 \/ j = 3
    OBVIOUS
  <2> QED  BY <2>1, <2>3, <2>4, <2>5
<1>2. r \in [1..n -> Nibbles]
  BY <1>1 DEF Regroup
<1> HIDE DEF r
<1> QED  BY <1>2, IsASeq, LenProperties DEF r

\* The bytes of the first digits that bytes are written in are the first bytes.
LEMMA BytesBack ==
  ASSUME NEW s \in Seq(Nibbles), NEW n \in Nat, NEW d \in Seq(Octals), NEW k \in Nat, k <= n,
         Len(d) = k, \A i \in 1..k : d[i] = Regroup(s, 4, 3, n)[i],
         NEW m \in Nat, 4 * m <= 3 * k, m <= Len(s)
  PROVE  \A i \in 1..m : Regroup(d, 3, 4, m)[i] = s[i]
<1> TAKE i \in 1..m
<1> DEFINE e == Regroup(s, 4, 3, n)
           r == Regroup(d, 3, 4, m)
<1> SUFFICES r[i] = s[i]
  OBVIOUS
<1>0. i \in Nat /\ i # 0
  OBVIOUS
<1>1. PICK g \in Nat, j \in 1..3 : i = 3 * g + j
  BY <1>0, InThree
<1> DEFINE a == At(s, 3 * g + 1)
           b == At(s, 3 * g + 2)
           c == At(s, 3 * g + 3)
<1>2. a \in Nibbles /\ b \in Nibbles /\ c \in Nibbles
  <2>1. 0 \in Nibbles
    BY DEF Nibbles
  <2>2. 3 * g + 1 \in Nat \ {0} /\ 3 * g + 2 \in Nat \ {0} /\ 3 * g + 3 \in Nat \ {0}
    OBVIOUS
  <2> QED  BY <2>1, <2>2, AtType
<1>3. /\ 4 * g + 1 <= n => e[4 * g + 1] = a \div 2
      /\ 4 * g + 2 <= n => e[4 * g + 2] = 4 * (a % 2) + b \div 4
      /\ 4 * g + 3 <= n => e[4 * g + 3] = 2 * (b % 4) + c \div 8
      /\ 4 * g + 4 <= n => e[4 * g + 4] = c % 8
  BY DigitsOfBytes
<1>4. /\ 3 * g + 1 <= m => r[3 * g + 1] = 2 * At(d, 4 * g + 1) + At(d, 4 * g + 2) \div 4
      /\ 3 * g + 2 <= m => r[3 * g + 2] = 4 * (At(d, 4 * g + 2) % 4) + At(d, 4 * g + 3) \div 2
      /\ 3 * g + 3 <= m => r[3 * g + 3] = 8 * (At(d, 4 * g + 3) % 2) + At(d, 4 * g + 4)
  BY BytesOfDigits
<1>5. \A x \in 1..k : At(d, x) = e[x]
  BY DEF At
<1>6. /\ a = IF 3 * g + 1 <= Len(s) THEN s[3 * g + 1] ELSE 0
      /\ b = IF 3 * g + 2 <= Len(s) THEN s[3 * g + 2] ELSE 0
      /\ c = IF 3 * g + 3 <= Len(s) THEN s[3 * g + 3] ELSE 0
  BY DEF At
<1>7. Len(s) \in Nat
  OBVIOUS
<1> HIDE DEF a, b, c, e, r
<1>8. \A x, y \in Nibbles : /\ 2 * (x \div 2) + (4 * (x % 2) + y \div 4) \div 4 = x
                            /\ (4 * (x % 2) + y \div 4) % 4 = y \div 4
                            /\ (2 * (x % 4) + y \div 8) \div 2 = x % 4
                            /\ (2 * (x % 4) + y \div 8) % 2 = y \div 8
                            /\ 4 * (x \div 4) + (x % 4) = x
                            /\ 8 * (x \div 8) + (x % 8) = x
  BY DEF Nibbles
<1>9. CASE j = 1
  <2>1. 4 * g + 1 \in 1..k /\ 4 * g + 2 \in 1..k /\ 4 * g + 1 <= n /\ 4 * g + 2 <= n
        /\ 3 * g + 1 <= Len(s) /\ 3 * g + 1 <= m
    BY <1>1, <1>7, <1>9
  <2>2. r[3 * g + 1] = 2 * (a \div 2) + (4 * (a % 2) + b \div 4) \div 4
    BY <1>3, <1>4, <1>5, <2>1
  <2> QED  BY <1>1, <1>2, <1>6, <1>8, <1>9, <2>1, <2>2
<1>10. CASE j = 2
  <2>1. 4 * g + 2 \in 1..k /\ 4 * g + 3 \in 1..k /\ 4 * g + 2 <= n /\ 4 * g + 3 <= n
        /\ 3 * g + 2 <= Len(s) /\ 3 * g + 2 <= m
    BY <1>1, <1>7, <1>10
  <2>2. r[3 * g + 2] = 4 * ((4 * (a % 2) + b \div 4) % 4) + (2 * (b % 4) + c \div 8) \div 2
    BY <1>3, <1>4, <1>5, <2>1
  <2>3. r[3 * g + 2] = 4 * (b \div 4) + (b % 4)
    BY <1>2, <1>8, <2>2
  <2> QED  BY <1>1, <1>2, <1>6, <1>8, <1>10, <2>1, <2>3
<1>11. CASE j = 3
  <2>1. 4 * g + 3 \in 1..k /\ 4 * g + 4 \in 1..k /\ 4 * g + 3 <= n /\ 4 * g + 4 <= n
        /\ 3 * g + 3 <= Len(s) /\ 3 * g + 3 <= m
    BY <1>1, <1>7, <1>11
  <2>2. r[3 * g + 3] = 8 * ((2 * (b % 4) + c \div 8) % 2) + (c % 8)
    BY <1>3, <1>4, <1>5, <2>1
  <2>3. r[3 * g + 3] = 8 * (c \div 8) + (c % 8)
    BY <1>2, <1>8, <2>2
  <2> QED  BY <1>1, <1>2, <1>6, <1>8, <1>11, <2>1, <2>3
<1>12. j = 1 \/ j = 2 \/ j = 3
  OBVIOUS
<1> QED  BY <1>9, <1>10, <1>11, <1>12 DEF r

-----------------------------------------------------------------------------
(* Base64                                                                  *)

\* The digits among the characters are taken one at a time.
IsDigit(c) == c \in Digits \cup {UrlSafe}

SkimsBy(f, ascii) ==
  /\ f \in [0..Len(ascii) -> Seq(16..24)] /\ f[0] = <<>> /\ f[Len(ascii)] = Skimmed(ascii)
  /\ \A i \in 1..Len(ascii) :
       f[i] = IF IsDigit(ascii[i]) THEN Append(f[i - 1], ascii[i]) ELSE f[i - 1]

LEMMA SkimUnfold ==
  ASSUME NEW ascii \in Seq(Nat)
  PROVE  \E f : SkimsBy(f, ascii)
<1> DEFINE n == Len(ascii)
           T == Seq(16..24)
           Next1(u, c) == IF IsDigit(c) THEN Append(u, c) ELSE u
           step == [p \in (1..n) \X T |-> Next1(p[2], ascii[p[1]])]
           F(u) == [i \in 0..n |-> IF i = 0 THEN <<>> ELSE Next1(u[i - 1], ascii[i])]
           upto == CHOOSE u : u = F(u)
<1>0. \A u \in T : \A c : Next1(u, c) \in T
  BY DEF IsDigit, Digits, UrlSafe
<1>1. n \in Nat /\ <<>> \in T
  OBVIOUS
<1>7. Skimmed(ascii) = upto[n]
  BY DEF Skimmed, IsDigit
<1> HIDE DEF Next1, T
<1>2. step \in [(1..n) \X T -> T]
  BY <1>0
<1>3. PICK f \in [0..n -> T] : GoesOn(f, n, <<>>, step)
  <2> DEFINE init == <<>>
  <2>0. init \in T
    BY <1>1
  <2> HIDE DEF n, step, init
  <2>1. Recursive(T, n, init, step)
    BY <1>1, <1>2, <2>0, Recursion
  <2> QED  BY <2>1 DEF Recursive, init
<1>4. ASSUME NEW i \in 1..n PROVE f[i] = Next1(f[i - 1], ascii[i])
  <2>1. i - 1 \in 0..n /\ f[i - 1] \in T
    <3> HIDE DEF n
    <3> QED  BY <1>1, <1>3, SMTT(60)
  <2>2. <<i, f[i - 1]>> \in (1..n) \X T
    BY <2>1
  <2> QED  BY <1>3, <2>2 DEF GoesOn
<1>5. f = F(f)
  BY <1>3, <1>4 DEF GoesOn
<1>6. upto = F(upto)
  <2> HIDE DEF F
  <2> QED  BY <1>5
<1> HIDE DEF upto
<1>8. /\ upto[0] = <<>>
      /\ \A i \in 1..n : upto[i] = Next1(upto[i - 1], ascii[i])
  BY <1>1, <1>6, SMTT(60)
<1> HIDE DEF F, step, n
<1> DEFINE Q == {k \in Nat : k <= n => upto[k] = f[k]}
<1>9. ASSUME NEW k \in Nat, k \in Q PROVE k + 1 \in Q
  <2> SUFFICES ASSUME k + 1 <= n PROVE upto[k + 1] = f[k + 1]
    OBVIOUS
  <2>1. k + 1 \in 1..n /\ (k + 1) - 1 = k /\ upto[k] = f[k]
    BY <1>1, <1>9
  <2> QED  BY <1>4, <1>8, <2>1
<1>10. Nat \subseteq Q
  <2>1. 0 \in Q
    BY <1>3, <1>8 DEF GoesOn
  <2> HIDE DEF Q
  <2> QED  BY <1>9, <2>1, NatInduced
<1>11. Skimmed(ascii) = f[n]
  BY <1>1, <1>7, <1>10
<1> QED  BY <1>3, <1>4, <1>11 DEF SkimsBy, GoesOn, n, T, Next1

\* Whatever the characters, what is skimmed is digits; digits are skimmed as they are.
LEMMA SkimmedType ==
  ASSUME NEW ascii \in Seq(Nat)
  PROVE  Skimmed(ascii) \in Seq(16..24)
<1>1. Len(ascii) \in 0..Len(ascii)
  OBVIOUS
<1> QED  BY <1>1, SkimUnfold DEF SkimsBy

LEMMA SkimmedDigits ==
  ASSUME NEW ascii \in Seq(16..24)
  PROVE  Skimmed(ascii) = ascii
<1> DEFINE n == Len(ascii)
<1>1. n \in Nat /\ \A i \in 1..n : ascii[i] \in 16..24
  OBVIOUS
<1>2. ascii \in Seq(Nat)
  <2>1. 16..24 \subseteq Nat
    OBVIOUS
  <2> QED  BY <2>1, SeqMonotonic
<1>3. PICK f : SkimsBy(f, ascii)
  BY <1>2, SkimUnfold
<1>4. /\ f[0] = <<>> /\ f[n] = Skimmed(ascii)
      /\ \A i \in 1..n : f[i] = Append(f[i - 1], ascii[i])
  <2>1. \A c \in 16..24 : IsDigit(c)
    BY DEF IsDigit, Digits, UrlSafe
  <2>2. \A i \in 1..n : IsDigit(ascii[i])
    BY <1>1, <2>1
  <2>3. /\ f[0] = <<>> /\ f[n] = Skimmed(ascii)
        /\ \A i \in 1..n : f[i] = IF IsDigit(ascii[i]) THEN Append(f[i - 1], ascii[i]) ELSE f[i - 1]
    BY <1>3 DEF SkimsBy
  <2> HIDE DEF n
  <2> QED  BY <2>2, <2>3
<1> DEFINE Q == {k \in Nat : k <= n => f[k] = SubSeq(ascii, 1, k)}
<1>5. ASSUME NEW k \in Nat, k \in Q PROVE k + 1 \in Q
  <2> SUFFICES ASSUME k + 1 <= n PROVE f[k + 1] = SubSeq(ascii, 1, k + 1)
    OBVIOUS
  <2>1. k + 1 \in 1..n /\ (k + 1) - 1 = k /\ k < n /\ f[k] = SubSeq(ascii, 1, k)
    BY <1>1, <1>5
  <2>2. SubSeq(ascii, 1, k + 1) = Append(SubSeq(ascii, 1, k), ascii[k + 1])
    BY <2>1, PrefixStep
  <2> QED  BY <1>4, <2>1, <2>2
<1>6. Nat \subseteq Q
  <2>1. SubSeq(ascii, 1, 0) = <<>>
    BY SubSeqEmpty
  <2>2. 0 \in Q
    BY <1>4, <2>1
  <2> HIDE DEF Q
  <2> QED  BY <1>5, <2>2, NatInduced
<1>7. f[n] = SubSeq(ascii, 1, n)
  <2> HIDE DEF n
  <2> QED  BY <1>1, <1>6
<1> QED  BY <1>4, <1>7, SubSeqFull

Pads(p) == [i \in 1..p |-> Pad]

LEMMA PadsType ==
  ASSUME NEW p \in Nat
  PROVE  Pads(p) \in Seq(Nat) /\ Len(Pads(p)) = p /\ \A i \in 1..p : Pads(p)[i] = Pad
<1>1. Pads(p) \in [1..p -> Nat]
  BY DEF Pads, Pad
<1> QED  BY <1>1, IsASeq, LenProperties DEF Pads

\* The first "=" of characters that have one.
LEMMA FirstPad ==
  ASSUME NEW ascii \in Seq(Nat), NEW k \in 1..Len(ascii), ascii[k] = Pad,
         \A i \in 1..(k - 1) : ascii[i] # Pad
  PROVE  UptoPad(ascii) = SubSeq(ascii, 1, k - 1)
<1> DEFINE I == {i \in 1..Len(ascii) : ascii[i] = Pad}
           end == IF I # {} THEN Min(I) ELSE 0
<1>1. UptoPad(ascii) = IF end = 0 THEN ascii ELSE SubSeq(ascii, 1, end - 1)
  BY DEF UptoPad, SelectInSeq
<1>2. k \in I /\ \A i \in I : k <= i
  OBVIOUS
<1>3. Min(I) = k
  BY <1>2 DEF Min
<1>4. end = k /\ k # 0
  BY <1>2, <1>3
<1> HIDE DEF end
<1> QED  BY <1>1, <1>4

LEMMA NoPad ==
  ASSUME NEW ascii \in Seq(Nat), \A i \in 1..Len(ascii) : ascii[i] # Pad
  PROVE  UptoPad(ascii) = ascii
<1> DEFINE I == {i \in 1..Len(ascii) : ascii[i] = Pad}
           end == IF I # {} THEN Min(I) ELSE 0
<1>1. UptoPad(ascii) = IF end = 0 THEN ascii ELSE SubSeq(ascii, 1, end - 1)
  BY DEF UptoPad, SelectInSeq
<1>2. I = {}
  OBVIOUS
<1>3. end = 0
  BY <1>2
<1> HIDE DEF end
<1> QED  BY <1>1, <1>3

LEMMA PaddedBody ==
  ASSUME NEW d \in Seq(16..24), NEW p \in Nat
  PROVE  UptoPad(d \o Pads(p)) = d
<1> DEFINE n == Len(d)
           a == d \o Pads(p)
<1>1. /\ d \in Seq(Nat) /\ n \in Nat /\ \A i \in 1..n : d[i] \in 16..24
      /\ Pads(p) \in Seq(Nat) /\ Len(Pads(p)) = p /\ \A i \in 1..p : Pads(p)[i] = Pad
  <2>1. 16..24 \subseteq Nat
    OBVIOUS
  <2>2. d \in Seq(Nat)
    BY <2>1, SeqMonotonic
  <2> QED  BY <2>2, PadsType
<1>2. /\ a \in Seq(Nat) /\ Len(a) = n + p /\ \A i \in 1..n : a[i] = d[i]
      /\ \A i \in 1..p : a[n + i] = Pad
  BY <1>1, SMTT(60)
<1>3. \A i \in 1..n : a[i] # Pad
  <2>1. \A c \in 16..24 : c # Pad
    BY DEF Pad
  <2> HIDE DEF a, n
  <2> QED  BY <1>1, <1>2, <2>1
<1>4. CASE p = 0
  <2>1. a = d
    <3>1. Pads(p) = <<>>
      BY <1>1, <1>4, EmptySeq
    <3> QED  BY <1>1, <3>1, ConcatEmptySeq
  <2> HIDE DEF a, n
  <2>2. UptoPad(a) = a
    BY <1>1, <1>2, <1>3, <1>4, NoPad
  <2> QED  BY <2>1, <2>2 DEF a
<1>5. CASE p # 0
  <2>1. SubSeq(a, 1, n) = d
    <3>1. SubSeq(a, 1, n) = SubSeq(d, 1, n)
      BY <1>1, CutOfConcat
    <3> QED  BY <1>1, <3>1, SubSeqFull
  <2>2. a[n + 1] = Pad
    <3>1. 1 \in 1..p
      BY <1>5
    <3> HIDE DEF a
    <3> QED  BY <1>2, <3>1
  <2> DEFINE k == n + 1
  <2>3. k \in 1..(n + p) /\ k - 1 = n
    BY <1>1, <1>5
  <2> HIDE DEF a, n, k
  <2>4. UptoPad(a) = SubSeq(a, 1, k - 1)
    <3>1. k \in 1..Len(a) /\ a[k] = Pad /\ \A i \in 1..(k - 1) : a[i] # Pad
      BY <1>2, <1>3, <2>2, <2>3 DEF k
    <3> QED  BY <1>2, <3>1, FirstPad
  <2> QED  BY <2>1, <2>3, <2>4 DEF a
<1> QED  BY <1>4, <1>5

\* The numbers digits stand for.
DigitValues(d) == [i \in 1..Len(d) |-> DigitValue(d[i])]

LEMMA DigitValuesType ==
  ASSUME NEW d \in Seq(16..24)
  PROVE  /\ DigitValues(d) \in Seq(Octals) /\ Len(DigitValues(d)) = Len(d)
         /\ \A i \in 1..Len(d) : DigitValues(d)[i] = DigitValue(d[i])
<1>1. \A c \in 16..24 : DigitValue(c) \in Octals
  BY DEF DigitValue, UrlSafe, Octals
<1>2. DigitValues(d) \in [1..Len(d) -> Octals]
  BY <1>1 DEF DigitValues
<1> QED  BY <1>2, IsASeq, LenProperties DEF DigitValues

LEMMA FromPadded ==
  ASSUME NEW d \in Seq(16..24), NEW p \in Nat
  PROVE  FromBase64(d \o Pads(p)) = Regroup(DigitValues(d), 3, 4, (3 * Len(d)) \div 4)
<1>1. Skimmed(UptoPad(d \o Pads(p))) = d
  BY PaddedBody, SkimmedDigits
<1>2. Len(d) * 3 = 3 * Len(d)
  OBVIOUS
<1> QED  BY <1>1, <1>2 DEF FromBase64, DigitBits, ByteBits, DigitValues

\* A text of characters of one byte each.
Ones(a) == [i \in DOMAIN a |-> <<a[i]>>]

LEMMA OnesText ==
  ASSUME NEW a \in Seq(16..26)
  PROVE  /\ Ones(a) \in Texts /\ Encode(Ones(a)) = a
         /\ Len(Ones(a)) = Len(a) /\ \A i \in 1..Len(a) : Ones(a)[i] = <<a[i]>>
<1>0. ASSUME NEW s \in Seq(16..26)
      PROVE  /\ Ones(s) \in Seq(Characters) /\ Len(Ones(s)) = Len(s)
             /\ \A i \in 1..Len(s) : Ones(s)[i] = <<s[i]>>
  <2>1. \A c \in 16..26 : <<c>> \in Characters
    BY DEF Characters, Bytes, Byte, Leads, Ascii
  <2>2. DOMAIN s = 1..Len(s) /\ Len(s) \in Nat /\ \A i \in 1..Len(s) : s[i] \in 16..26
    OBVIOUS
  <2>3. Ones(s) \in [1..Len(s) -> Characters]
    BY <2>1, <2>2 DEF Ones
  <2> QED  BY <2>2, <2>3, IsASeq, LenProperties DEF Ones
<1> DEFINE Q == {s \in Seq(16..26) : Encode(Ones(s)) = s}
<1>1. <<>> \in Q
  <2>1. Ones(<<>>) = <<>> /\ <<>> \in Seq(16..26)
    BY <1>0, EmptySeq
  <2> QED  BY <2>1, EncodeEmpty
<1>2. ASSUME NEW s \in Seq(16..26), NEW c \in 16..26, s \in Q PROVE Append(s, c) \in Q
  <2> DEFINE more == Append(s, c)
             u == Ones(s)
             v == Ones(more)
             x == <<c>>
  <2>1. /\ more \in Seq(16..26) /\ Len(more) = Len(s) + 1 /\ Len(s) \in Nat /\ more[Len(s) + 1] = c
        /\ \A i \in 1..Len(s) : more[i] = s[i]
    OBVIOUS
  <2> HIDE DEF more
  <2>2. u \in Seq(Characters) /\ Len(u) = Len(s) /\ \A i \in 1..Len(s) : u[i] = <<s[i]>>
    BY <1>0
  <2>3. v \in Seq(Characters) /\ Len(v) = Len(s) + 1 /\ \A i \in 1..(Len(s) + 1) : v[i] = <<more[i]>>
    BY <1>0, <2>1
  <2>4. x \in Characters
    <3>1. v[Len(s) + 1] = x /\ Len(s) + 1 \in 1..Len(v)
      BY <2>1, <2>3
    <3> HIDE DEF v, x
    <3> QED  BY <2>3, <3>1
  <2> HIDE DEF u, v
  <2>5. /\ Append(u, x) \in Seq(Characters) /\ Len(Append(u, x)) = Len(s) + 1
        /\ \A i \in 1..Len(s) : Append(u, x)[i] = u[i]
        /\ Append(u, x)[Len(s) + 1] = x
    BY <2>2, <2>4, AppendProperties
  <2>6. ASSUME NEW i \in 1..(Len(s) + 1) PROVE v[i] = Append(u, x)[i]
    <3>1. i \in 1..Len(s) \/ i = Len(s) + 1
      BY <2>1
    <3> QED  BY <2>1, <2>2, <2>3, <2>5, <3>1
  <2>7. v = Append(u, x)
    BY <2>3, <2>5, <2>6, SeqEqual
  <2>8. u \in Seq(Bytes) /\ x \in Bytes
    BY <2>2, <2>4, TextBytes, CharacterBytes DEF Texts
  <2>9. Encode(v) = Encode(u) \o x
    BY <2>7, <2>8, EncodeAppend
  <2>10. Encode(u) = s /\ s \o x = more
    BY <1>2, AppendIsConcat DEF u, more
  <2> QED  BY <2>1, <2>9, <2>10 DEF v, more
<1>3. Seq(16..26) \subseteq Q
  <2> HIDE DEF Q
  <2> QED  BY <1>1, <1>2, SeqInduced
<1> QED  BY <1>0, <1>3 DEF Texts

\* What bytes are written with in base64, but for the "="s.
DigitCount(s) == (4 * Len(s) + 2) \div 3

Written(s) == [i \in 1..DigitCount(s) |-> 16 + Regroup(s, 4, 3, DigitCount(s))[i]]

PadCount(s) == (4 - (DigitCount(s) % 4)) % 4

LEMMA Base64Written ==
  ASSUME NEW s \in Seq(Nibbles)
  PROVE  Base64(s) = Written(s) \o Pads(PadCount(s))
<1>1. Len(s) * ByteBits + DigitBits - 1 = 4 * Len(s) + 2 /\ DigitBits = 3 /\ ByteBits = 4
  BY DEF ByteBits, DigitBits
<1> QED  BY <1>1 DEF Base64, Written, Pads, PadCount, DigitCount

LEMMA WrittenType ==
  ASSUME NEW s \in Seq(Nibbles)
  PROVE  /\ Written(s) \in Seq(16..23) /\ Written(s) \in Seq(16..24)
         /\ DigitCount(s) \in Nat /\ Len(Written(s)) = DigitCount(s)
         /\ \A i \in 1..DigitCount(s) : DigitValue(Written(s)[i]) = Regroup(s, 4, 3, DigitCount(s))[i]
         /\ PadCount(s) \in 0..3
<1> DEFINE n == DigitCount(s)
           d == Regroup(s, 4, 3, n)
           w == Written(s)
<1>1. n \in Nat
  <2>1. Len(s) \in Nat
    OBVIOUS
  <2> QED  BY <2>1 DEF DigitCount
<1>2. d \in Seq(Octals) /\ Len(d) = n
  BY <1>1, DigitsType
<1>3. w = [i \in 1..n |-> 16 + d[i]]
  BY DEF Written
<1>4. PadCount(s) \in 0..3
  BY <1>1 DEF PadCount
<1> HIDE DEF n, d, w
<1>5. \A i \in 1..n : d[i] \in Octals
  BY <1>2
<1>6. \A x \in Octals : 16 + x \in 16..23 /\ DigitValue(16 + x) = x
  BY DEF Octals, DigitValue, UrlSafe
<1>7. w \in [1..n -> 16..23] /\ \A i \in 1..n : DigitValue(w[i]) = d[i]
  BY <1>3, <1>5, <1>6
<1>8. w \in Seq(16..23) /\ Len(w) = n
  BY <1>1, <1>7, IsASeq, LenProperties
<1>9. 16..23 \subseteq 16..24
  OBVIOUS
<1>10. w \in Seq(16..24)
  BY <1>8, <1>9, SeqMonotonic
<1> QED  BY <1>1, <1>4, <1>7, <1>8, <1>10 DEF n, d, w

\* Base64 cut after k digits gives the bytes that k digits hold.
LEMMA Base64Read ==
  ASSUME NEW s \in Seq(Nibbles), NEW k \in Nat, k <= DigitCount(s), NEW m \in Nat,
         m = (3 * k) \div 4, m <= Len(s), NEW p \in Nat
  PROVE  LET bytes == FromBase64(SubSeq(Written(s), 1, k) \o Pads(p))
         IN bytes \in Seq(Nibbles) /\ Len(bytes) = m /\ \A i \in 1..m : bytes[i] = s[i]
<1> DEFINE n == DigitCount(s)
           d == SubSeq(Written(s), 1, k)
           v == DigitValues(d)
<1>1. /\ Written(s) \in Seq(16..24) /\ n \in Nat /\ Len(Written(s)) = n
      /\ \A i \in 1..n : DigitValue(Written(s)[i]) = Regroup(s, 4, 3, n)[i]
  BY WrittenType
<1>2. d \in Seq(16..24) /\ Len(d) = k /\ \A i \in 1..k : d[i] = Written(s)[i]
  BY <1>1
<1> HIDE DEF d
<1>3. v \in Seq(Octals) /\ Len(v) = k /\ \A i \in 1..k : v[i] = DigitValue(d[i])
  BY <1>2, DigitValuesType
<1> HIDE DEF v, n
<1>4. \A i \in 1..k : v[i] = Regroup(s, 4, 3, n)[i]
  BY <1>1, <1>2, <1>3 DEF n
<1>5. 4 * m <= 3 * k
  OBVIOUS
<1>6. \A i \in 1..m : Regroup(v, 3, 4, m)[i] = s[i]
  <2>1. /\ n \in Nat /\ v \in Seq(Octals) /\ k \in Nat /\ k <= n /\ Len(v) = k
        /\ \A i \in 1..k : v[i] = Regroup(s, 4, 3, n)[i]
        /\ m \in Nat /\ 4 * m <= 3 * k /\ m <= Len(s)
    BY <1>1, <1>3, <1>4, <1>5 DEF n
  <2> QED  BY <2>1, BytesBack
<1>7. Regroup(v, 3, 4, m) \in Seq(Nibbles) /\ Len(Regroup(v, 3, 4, m)) = m
  BY <1>3, BytesType
<1>8. FromBase64(d \o Pads(p)) = Regroup(v, 3, 4, m)
  BY <1>2, FromPadded DEF v
<1> QED  BY <1>6, <1>7, <1>8 DEF d

LEMMA Base64Whole ==
  ASSUME NEW s \in Seq(Nibbles)
  PROVE  FromBase64(Base64(s)) = s
<1> DEFINE n == DigitCount(s)
           l == Len(s)
           bytes == FromBase64(Base64(s))
<1>1. n \in Nat /\ l \in Nat /\ l = (3 * n) \div 4
  <2>1. l \in Nat /\ n = (4 * l + 2) \div 3
    BY DEF DigitCount
  <2> HIDE DEF l, n
  <2> QED  BY <2>1
<1>2. SubSeq(Written(s), 1, n) = Written(s) /\ PadCount(s) \in Nat
  BY WrittenType, SubSeqFull
<1>3. Base64(s) = SubSeq(Written(s), 1, n) \o Pads(PadCount(s))
  BY <1>2, Base64Written
<1> HIDE DEF n, l
<1>4. bytes \in Seq(Nibbles) /\ Len(bytes) = l /\ \A i \in 1..l : bytes[i] = s[i]
  <2>1. n <= DigitCount(s) /\ l <= Len(s)
    BY <1>1 DEF n, l
  <2> QED  BY <1>1, <1>2, <1>3, <2>1, Base64Read
<1> HIDE DEF bytes
<1>5. bytes = s
  BY <1>4, SeqEqual DEF l
<1> QED  BY <1>5 DEF bytes

LEMMA Base64Prefix ==
  ASSUME NEW s \in Seq(Nibbles), NEW k \in Nat, k % 4 = 0, k < Len(Base64(s))
  PROVE  IsPrefix(FromBase64(SubSeq(Base64(s), 1, k)), s)
<1> DEFINE n == DigitCount(s)
           p == PadCount(s)
           l == Len(s)
           m == (3 * k) \div 4
           w == Written(s)
           bytes == FromBase64(SubSeq(Base64(s), 1, k))
<1>1. l \in Nat /\ n = (4 * l + 2) \div 3 /\ p = (4 - (n % 4)) % 4
  BY DEF DigitCount, PadCount
<1>2. w \in Seq(Nat) /\ Len(w) = n /\ n \in Nat /\ p \in 0..3 /\ Pads(p) \in Seq(Nat) /\ Len(Pads(p)) = p
  <2>1. w \in Seq(16..23) /\ Len(w) = n /\ n \in Nat /\ p \in 0..3
    BY WrittenType
  <2>2. 16..23 \subseteq Nat /\ p \in Nat
    BY <2>1
  <2> QED  BY <2>1, <2>2, SeqMonotonic, PadsType
<1>3. Base64(s) = w \o Pads(p)
  BY Base64Written
<1> HIDE DEF n, p, l, w
<1>4. Len(Base64(s)) = n + p
  BY <1>2, <1>3
<1>5. k < n /\ m <= l /\ m \in Nat
  <2>1. k < n + p
    BY <1>4
  <2>2. PICK h \in Nat : k = 4 * h
    <3>1. k = 4 * (k \div 4) /\ k \div 4 \in Nat
      OBVIOUS
    <3> QED  BY <3>1
  <2>3. 4 * h < n + p /\ m = 3 * h
    BY <2>1, <2>2
  <2> HIDE DEF m
  <2>4. 4 * h < n
    <3>1. PICK x \in Nat, u \in 0..3 : n = 4 * x + u /\ n % 4 = u
      <4>1. n = 4 * (n \div 4) + (n % 4) /\ n \div 4 \in Nat /\ n % 4 \in 0..3
        BY <1>2
      <4> QED  BY <4>1
    <3>2. u = 0 => p = 0
      BY <1>1, <3>1
    <3>3. u # 0 => p = 4 - u
      BY <1>1, <3>1
    <3>4. CASE u = 0
      BY <1>2, <2>2, <2>3, <3>1, <3>2, <3>4
    <3>5. CASE u # 0
      <4>1. 4 * h < 4 * x + 4
        BY <2>3, <3>1, <3>3, <3>5
      <4>2. h <= x
        BY <2>2, <3>1, <4>1
      <4> QED  BY <2>2, <3>1, <3>5, <4>2
    <3> QED  BY <3>4, <3>5
  <2>5. 4 * h < (4 * l + 2) \div 3 => 3 * h <= l
    BY <1>1, <2>2
  <2> QED  BY <1>1, <2>2, <2>3, <2>4, <2>5
<1> DEFINE z == 0
<1>0. z \in Nat /\ z = 0
  OBVIOUS
<1> HIDE DEF z
<1>6. SubSeq(Base64(s), 1, k) = SubSeq(w, 1, k) \o Pads(z)
  <2>1. SubSeq(w \o Pads(p), 1, k) = SubSeq(w, 1, k)
    <3>1. k <= Len(w)
      BY <1>2, <1>5
    <3> QED  BY <1>2, <3>1, CutOfConcat
  <2>2. SubSeq(w, 1, k) \in Seq(Nat)
    <3>1. 1 \in 1..Len(w) + 1 /\ k \in 0..Len(w)
      BY <1>2, <1>5
    <3>2. \A i \in 1..k : i \in 1..Len(w) /\ w[i] \in Nat
      BY <1>2, <3>1
    <3>3. SubSeq(w, 1, k) = [i \in 1..k |-> w[i]]
      BY <1>2, <3>1
    <3> QED  BY <3>2, <3>3, IsASeq
  <2>3. Pads(z) = <<>>
    <3>1. Pads(z) \in Seq(Nat) /\ Len(Pads(z)) = 0
      BY <1>0, PadsType
    <3> QED  BY <3>1, EmptySeq
  <2> QED  BY <1>3, <2>1, <2>2, <2>3, ConcatEmptySeq
<1>7. bytes \in Seq(Nibbles) /\ Len(bytes) = m /\ \A i \in 1..m : bytes[i] = s[i]
  <2>1. m = (3 * k) \div 4
    OBVIOUS
  <2> HIDE DEF m
  <2>2. /\ k \in Nat /\ k <= DigitCount(s) /\ m \in Nat /\ m = (3 * k) \div 4 /\ m <= Len(s)
        /\ z \in Nat
    BY <1>0, <1>2, <1>5, <2>1, SMTT(60) DEF n, l
  <2>3. bytes = FromBase64(SubSeq(Written(s), 1, k) \o Pads(z))
    BY <1>6 DEF w
  <2> HIDE DEF bytes
  <2> QED  BY <2>2, <2>3, Base64Read
<1> HIDE DEF m
<1> HIDE DEF bytes
<1>8. Len(bytes) <= Len(s)
  BY <1>5, <1>7 DEF l
<1>9. IsPrefix(bytes, s)
  BY <1>7, <1>8, PrefixByElements
<1> QED  BY <1>9 DEF bytes


-----------------------------------------------------------------------------
(* get_file_content                                                        *)

LEMMA PrefixEncoded ==
  ASSUME NEW s \in Texts, NEW t \in Texts, IsPrefix(s, t)
  PROVE  IsPrefix(Encode(s), Encode(t))
<1> DEFINE k == Len(s)
           u == SubSeq(t, k + 1, Len(t))
           h == SubSeq(t, 1, k)
<1>1. k \in Nat /\ k <= Len(t) /\ SubSeq(s, 1, k) = h /\ Len(t) \in Nat
  BY DEF IsPrefix, Texts
<1>2. h = s
  <2>1. SubSeq(s, 1, k) = s
    BY SubSeqFull DEF Texts
  <2> QED  BY <1>1, <2>1
<1>3. t = s \o u /\ u \in Texts
  <2>1. /\ u \in Seq(Characters) /\ Len(u) = Len(t) - k
        /\ \A i \in 1..Len(u) : u[i] = t[k + i]
    BY <1>1 DEF Texts
  <2>2. /\ s \o u \in Seq(Characters) /\ Len(s \o u) = Len(t)
        /\ \A i \in 1..k : (s \o u)[i] = s[i]
        /\ \A i \in 1..Len(u) : (s \o u)[k + i] = u[i]
    BY <1>1, <2>1 DEF Texts
  <2>3. \A i \in 1..k : s[i] = t[i]
    BY <1>1, <1>2 DEF Texts
  <2> DEFINE v == s \o u
  <2> HIDE DEF u, h, v
  <2>4. ASSUME NEW i \in 1..Len(t) PROVE t[i] = v[i]
    <3>1. CASE i <= k
      <4>1. i \in 1..k
        BY <1>1, <3>1
      <4> QED  BY <2>2, <2>3, <4>1 DEF v
    <3>2. CASE i > k
      <4> DEFINE j == i - k
      <4>1. j \in 1..Len(u) /\ i = k + j
        BY <1>1, <2>1, <3>2
      <4> HIDE DEF j, k
      <4> QED  BY <2>1, <2>2, <4>1 DEF v
    <3> QED  BY <1>1, <3>1, <3>2
  <2>5. t = v
    BY <2>2, <2>4, SeqEqual DEF Texts, v
  <2> QED  BY <2>1, <2>5 DEF v, Texts
<1> HIDE DEF u
<1>4. Encode(t) = Encode(s) \o Encode(u) /\ {Encode(s), Encode(u)} \subseteq Bytes
  BY <1>3, TextBytes, EncodeConcat, EncodeType
<1> DEFINE a == Encode(s)
           b == Encode(u)
           c == a \o b
<1>5. a \in Seq(Byte) /\ b \in Seq(Byte)
  BY <1>4 DEF Bytes
<1> HIDE DEF a, b
<1>6. c \in Seq(Byte) /\ Len(a) <= Len(c) /\ \A i \in 1..Len(a) : a[i] = c[i]
  BY <1>5
<1> HIDE DEF c
<1>7. IsPrefix(a, c)
  BY <1>5, <1>6, PrefixByElements
<1> QED  BY <1>4, <1>7 DEF a, b, c

LEMMA SliceText ==
  ASSUME NEW text \in Texts, NEW n \in Nat
  PROVE  LET cut == Slice(text, n, "start")
         IN /\ cut.slice \in Texts /\ IsPrefix(Encode(cut.slice), Encode(text))
            /\ ~cut.truncated => cut.slice = text
<1> DEFINE cut == Slice(text, n, "start")
           d == Decode(SubSeq(Encode(text), 1, n))
<1>1. Encode(text) \in Bytes /\ ByteLength(text) \in Nat
  BY TextBytes, EncodeType, LenProperties DEF ByteLength, Bytes
<1>2. cut.slice \in Texts /\ (~cut.truncated => cut.slice = text)
  <2>1. CASE Len(Encode(text)) <= n
    <3>1. cut.slice = text
      BY <2>1 DEF Slice
    <3> QED  BY <3>1
  <2>2. CASE ~(Len(Encode(text)) <= n)
    <3>1. SubSeq(Encode(text), 1, n) \in Bytes
      <4> DEFINE e == Encode(text)
      <4>1. e \in Seq(Byte) /\ n <= Len(e)
        BY <1>1, <2>2 DEF Bytes, ByteLength
      <4> HIDE DEF e
      <4>2. SubSeq(e, 1, n) \in Seq(Byte)
        BY <4>1
      <4> QED  BY <4>2 DEF e, Bytes
    <3>2. d \in Texts
      BY <3>1, DecodeType
    <3>3. cut.slice = StripLast(d) /\ cut.truncated
      BY <2>2 DEF Slice
    <3> HIDE DEF d
    <3>4. StripLast(d) \in Texts
      BY <3>2, FrontLength DEF StripLast
    <3> QED  BY <3>3, <3>4
  <2> QED  BY <2>1, <2>2
<1>3. IsPrefix(cut.slice, text)
  BY HeadSliced DEF LongestBut
<1> HIDE DEF cut
<1>4. IsPrefix(Encode(cut.slice), Encode(text))
  BY <1>2, <1>3, PrefixEncoded
<1> QED  BY <1>2, <1>4 DEF cut

\* One-byte characters are cut at any byte.
LEMMA SliceOnes ==
  ASSUME NEW a \in Seq(16..26), NEW n \in Nat
  PROVE  LET cut == Slice(Ones(a), n, "start")
         IN IF Len(a) <= n THEN Encode(cut.slice) = a /\ ~cut.truncated
            ELSE Encode(cut.slice) = SubSeq(a, 1, n) /\ cut.truncated
<1> DEFINE t == Ones(a)
           h == SubSeq(a, 1, n)
<1>1. t \in Texts /\ Encode(t) = a
  BY OnesText
<1> HIDE DEF t
<1>2. CASE Len(a) <= n
  <2>1. Slice(t, n, "start") = [slice |-> t, truncated |-> FALSE]
    BY <1>1, <1>2 DEF Slice
  <2> QED  BY <1>1, <1>2, <2>1 DEF t
<1>3. CASE ~(Len(a) <= n)
  <2>1. h \in Seq(16..26)
    BY <1>3
  <2>2. Slice(t, n, "start") = [slice |-> StripLast(Decode(h)), truncated |-> TRUE]
    BY <1>1, <1>3 DEF Slice
  <2> HIDE DEF h
  <2> DEFINE u == Ones(h)
  <2>3. u \in Texts /\ Encode(u) = h /\ Len(u) = Len(h) /\ \A i \in 1..Len(h) : u[i] = <<h[i]>>
    BY <2>1, OnesText
  <2> HIDE DEF u
  <2>4. Decode(h) = u
    BY <2>3, DecodeEncode
  <2>5. u # <<>> => Last(u) # FFFD
    <3> SUFFICES ASSUME u # <<>> PROVE Last(u) # FFFD
      OBVIOUS
    <3>1. Len(u) \in 1..Len(h) /\ Last(u) = u[Len(u)]
      BY <2>3 DEF Last, Texts
    <3>2. Last(u) = <<h[Len(u)]>>
      BY <2>3, <3>1
    <3>3. Len(FFFD) = 3
      BY DEF FFFD
    <3>4. Len(Last(u)) = 1
      BY <3>2
    <3> SUFFICES ASSUME Last(u) = FFFD PROVE FALSE
      OBVIOUS
    <3>5. Len(Last(u)) = Len(FFFD)
      OBVIOUS
    <3>6. 1 = 3
      BY ONLY <3>3, <3>4, <3>5
    <3> QED  BY <3>6
  <2>6. StripLast(u) = u
    BY <2>5 DEF StripLast
  <2> QED  BY <1>3, <2>2, <2>3, <2>4, <2>6 DEF t, h
<1> QED  BY <1>2, <1>3

\* What FileExact says of one file.
FileKept(raw, got) ==
  LET bytes == IF got.encoding = "text" THEN Encode(got.content)
               ELSE FromBase64(Encode(got.content))
  IN /\ got.encoding = "text" <=> WellFormed(raw)
     /\ IsPrefix(bytes, raw)
     /\ ~got.truncated => bytes = raw

LEMMA Base64Ascii ==
  ASSUME NEW s \in Seq(Nibbles)
  PROVE  Base64(s) \in Seq(16..26)
<1> DEFINE w == Written(s)
           p == PadCount(s)
           q == Pads(p)
<1>1. w \in Seq(16..26)
  <2>1. w \in Seq(16..23) /\ 16..23 \subseteq 16..26
    BY WrittenType
  <2> HIDE DEF w
  <2> QED  BY <2>1, SeqMonotonic
<1>2. q \in Seq(16..26)
  <2>1. p \in Nat
    BY WrittenType
  <2>2. q \in [1..p -> 16..26]
    BY DEF Pads, Pad
  <2> QED  BY <2>1, <2>2, IsASeq, SMTT(60)
<1>3. Base64(s) = w \o q
  BY Base64Written
<1> HIDE DEF w, q
<1> QED  BY <1>1, <1>2, <1>3

LEMMA FileIsKept ==
  ASSUME NEW raw \in Seq(FileByte)
  PROVE  FileKept(raw, FileContent(raw))
<1> DEFINE text == Decode(raw)
           a == Base64(raw)
           n == FILE_MAX_BYTES
           got == FileContent(raw)
<1>1. n \in Nat /\ n % 4 = 0
  BY ConversionsAssumption
<1>2. raw \in Bytes /\ text \in Texts /\ raw \in Seq(Nibbles)
  <2>1. raw \in Bytes
    BY FileBytes
  <2>2. FileByte \subseteq Nibbles
    BY DEF FileByte, Nibbles
  <2>3. raw \in Seq(Nibbles)
    BY <2>2, SeqMonotonic
  <2> QED  BY <2>1, <2>3, DecodeType
<1>3. IsText(raw, text) <=> WellFormed(raw)
  BY TextIsWellFormed
<1>4. CASE IsText(raw, text)
  <2> DEFINE cut == Slice(text, n, "start")
  <2>1. got = [encoding |-> "text", content |-> cut.slice, truncated |-> cut.truncated]
    BY <1>4 DEF FileContent, File
  <2>2. Encode(text) = raw
    BY <1>4 DEF IsText
  <2> HIDE DEF text, n
  <2>3. cut.slice \in Texts /\ IsPrefix(Encode(cut.slice), raw) /\ (~cut.truncated => cut.slice = text)
    BY <1>1, <1>2, <2>2, SliceText
  <2> HIDE DEF cut, got
  <2> QED  BY <1>3, <1>4, <2>1, <2>2, <2>3 DEF FileKept, got
<1>5. CASE ~IsText(raw, text)
  <2> DEFINE cut == Slice(Ones(a), n, "start")
  <2>1. got = [encoding |-> "base64", content |-> cut.slice, truncated |-> cut.truncated]
    BY <1>5 DEF FileContent, File, Ones
  <2>2. a \in Seq(16..26)
    BY <1>2, Base64Ascii
  <2> HIDE DEF a, n, text
  <2>3. IF Len(a) <= n THEN Encode(cut.slice) = a /\ ~cut.truncated
        ELSE Encode(cut.slice) = SubSeq(a, 1, n) /\ cut.truncated
    BY <1>1, <2>2, SliceOnes
  <2> HIDE DEF cut, got
  <2>4. /\ got.encoding = "base64" /\ got.content = cut.slice /\ got.truncated = cut.truncated
    BY <2>1 DEF got
  <2>5. ~WellFormed(raw)
    BY <1>3, <1>5
  <2>6. CASE Len(a) <= n
    <3>1. FromBase64(Encode(got.content)) = raw
      BY <1>2, <2>3, <2>4, <2>6, Base64Whole DEF a
    <3>2. IsPrefix(raw, raw)
      BY <1>2, PrefixByElements
    <3> QED  BY <2>4, <2>5, <3>1, <3>2 DEF FileKept, got
  <2>7. CASE ~(Len(a) <= n)
    <3>1. n < Len(a)
      BY <1>1, <2>2, <2>7
    <3>2. IsPrefix(FromBase64(SubSeq(a, 1, n)), raw)
      BY <1>1, <1>2, <3>1, Base64Prefix DEF a
    <3>3. FromBase64(Encode(got.content)) = FromBase64(SubSeq(a, 1, n)) /\ got.truncated
      BY <2>3, <2>4, <2>7
    <3> QED  BY <2>4, <2>5, <3>2, <3>3 DEF FileKept, got
  <2> QED  BY <2>6, <2>7
<1> QED  BY <1>4, <1>5

LEMMA FileCalled ==
  ASSUME Next, Called("getFile")'
  PROVE  \E raw \in Seq(FileByte) : call'.raw = raw /\ result' = FileContent(raw)
<1>1. ~GetJobLog /\ ~RegisterTool /\ ~LoadConfig
  BY DEF Called, GetJobLog, RegisterTool, LoadConfig, Make
<1>2. GetFileContent
  BY <1>1 DEF Next
<1>3. PICK raw \in BoundedSeq(0..7, MaxRaw) : call' = [fn |-> "getFile", raw |-> raw] /\ result' = FileContent(raw)
  BY <1>2 DEF GetFileContent, Make
<1>4. raw \in Seq(FileByte)
  <2>1. MaxRaw \in Nat
    BY ConversionsAssumption
  <2> QED  BY <2>1, BoundedInSeq DEF FileByte
<1> QED  BY <1>3, <1>4

\* getFile and get_file_content: whatever the bytes of a file and whatever the limit (a
\* multiple of four, as FILE_MAX_BYTES is), the file is called text exactly when it is
\* UTF-8, and what the agent decodes is the file's bytes, or a prefix of them when the
\* answer says that it is truncated.
THEOREM FileIsExact == Spec => []FileExact
<1>1. Init => FileExact
  BY DEF Init, FileExact, Called, NoCall
<1>2. ASSUME FileExact, Next PROVE FileExact'
  <2> SUFFICES ASSUME Called("getFile")' PROVE FileKept(call'.raw, result')
    BY DEF FileExact, FileKept
  <2>1. PICK raw \in Seq(FileByte) : call'.raw = raw /\ result' = FileContent(raw)
    BY <1>2, FileCalled
  <2> QED  BY <2>1, FileIsKept
<1>3. ASSUME FileExact, UNCHANGED vars PROVE FileExact'
  BY <1>3 DEF FileExact, vars, Called
<1> QED  BY <1>1, <1>2, <1>3, PTL DEF Spec

-----------------------------------------------------------------------------
(* decodeKey: the number that is written                                   *)

\* What precedes the trailing "="s.
LEMMA UnpaddedAt ==
  ASSUME NEW S, NEW raw \in Seq(S), NEW k \in 0..Len(raw), k # 0 => raw[k] # Pad,
         \A i \in (k + 1)..Len(raw) : raw[i] = Pad
  PROVE  Unpadded(raw) = SubSeq(raw, 1, k)
<1> DEFINE I == {i \in 1..Len(raw) : raw[i] # Pad}
           last == IF I # {} THEN Max(I) ELSE 0
<1>1. Unpadded(raw) = SubSeq(raw, 1, last)
  BY DEF Unpadded, SelectLastInSeq
<1>2. \A i \in I : i <= k
  OBVIOUS
<1>3. CASE k = 0
  <2>1. I = {}
    BY <1>3
  <2>2. last = k
    BY <1>3, <2>1
  <2> HIDE DEF last
  <2> QED  BY <1>1, <2>2
<1>4. CASE k # 0
  <2>1. k \in I
    BY <1>4
  <2>2. \A x \in I : (\A y \in I : x >= y) => x = k
    BY <1>2, <2>1
  <2>3. Max(I) = k
    <3> HIDE DEF I
    <3> QED  BY <1>2, <2>1, <2>2 DEF Max
  <2>4. last = k
    BY <2>1, <2>3
  <2> HIDE DEF last
  <2> QED  BY <1>1, <2>4
<1> QED  BY <1>3, <1>4

LEMMA UnpaddedWritten ==
  ASSUME NEW d \in Seq(16..24), NEW p \in Nat
  PROVE  Unpadded(d \o Pads(p)) = d
<1> DEFINE k == Len(d)
           raw == d \o Pads(p)
<1>1. /\ d \in Seq(Nat) /\ k \in Nat /\ \A i \in 1..k : d[i] \in 16..24
      /\ Pads(p) \in Seq(Nat) /\ Len(Pads(p)) = p /\ \A i \in 1..p : Pads(p)[i] = Pad
  <2>1. 16..24 \subseteq Nat
    OBVIOUS
  <2>2. d \in Seq(Nat)
    BY <2>1, SeqMonotonic
  <2> QED  BY <2>2, PadsType
<1>2. /\ raw \in Seq(Nat) /\ Len(raw) = k + p /\ \A i \in 1..k : raw[i] = d[i]
      /\ \A i \in 1..p : raw[k + i] = Pad
  BY <1>1
<1>3. SubSeq(raw, 1, k) = d
  <2>1. SubSeq(raw, 1, k) = SubSeq(d, 1, k)
    BY <1>1, CutOfConcat
  <2> QED  BY <2>1, SubSeqFull
<1> HIDE DEF raw, k
<1>4. k # 0 => raw[k] # Pad
  <2>1. \A c \in 16..24 : c # Pad
    BY DEF Pad
  <2>2. k # 0 => k \in 1..k
    BY <1>1
  <2>3. k # 0 => raw[k] = d[k] /\ d[k] \in 16..24
    BY <1>1, <1>2, <2>2
  <2> QED  BY <2>1, <2>3
<1>5. ASSUME NEW i \in (k + 1)..Len(raw) PROVE raw[i] = Pad
  <2>1. i - k \in 1..p /\ i = k + (i - k)
    BY <1>1, <1>2
  <2> QED  BY <1>2, <2>1
<1>6. k \in 0..Len(raw)
  BY <1>1, <1>2
<1>7. Unpadded(raw) = SubSeq(raw, 1, k)
  BY <1>2, <1>4, <1>5, <1>6, UnpaddedAt
<1> QED  BY <1>3, <1>7 DEF raw

LEMMA UnpaddedPads ==
  ASSUME NEW raw \in Seq(16..26)
  PROVE  \E p \in Nat : Unpadded(raw) \in Seq(16..26) /\ raw = Unpadded(raw) \o Pads(p)
<1> DEFINE n == Len(raw)
           Ends(m, k) == (k # 0 => raw[k] # Pad) /\ \A i \in (k + 1)..m : raw[i] = Pad
           P == {m \in Nat : m <= n => \E k \in 0..m : Ends(m, k)}
<1>1. 0 \in P
  OBVIOUS
<1>2. ASSUME NEW m \in Nat, m \in P PROVE m + 1 \in P
  <2> SUFFICES ASSUME m + 1 <= n PROVE \E k \in 0..(m + 1) : Ends(m + 1, k)
    OBVIOUS
  <2>1. CASE raw[m + 1] # Pad
    <3>1. m + 1 \in 0..(m + 1) /\ Ends(m + 1, m + 1)
      BY <2>1
    <3> QED  BY <3>1
  <2>2. CASE raw[m + 1] = Pad
    <3>1. PICK k \in 0..m : Ends(m, k)
      BY <1>2
    <3>2. k \in 0..(m + 1) /\ Ends(m + 1, k)
      BY <2>2, <3>1
    <3> QED  BY <3>2
  <2> QED  BY <2>1, <2>2
<1>3. n \in P /\ n \in Nat
  <2> HIDE DEF P, n
  <2>1. n \in Nat
    BY DEF n
  <2> QED  BY <1>1, <1>2, <2>1, NatInduced
<1>4. PICK k \in 0..n : Ends(n, k)
  BY <1>3
<1>5. Unpadded(raw) = SubSeq(raw, 1, k)
  BY <1>4, UnpaddedAt, SMTT(60)
<1> DEFINE p == n - k
           d == SubSeq(raw, 1, k)
           q == Pads(p)
           s == d \o q
<1>6. p \in Nat /\ k \in Nat /\ n = k + p
  BY <1>3, <1>4, SMTT(60)
<1>7. d \in Seq(16..26) /\ Len(d) = k /\ \A i \in 1..k : d[i] = raw[i]
  BY <1>4, SMTT(60)
<1>8. q \in Seq(Nat) /\ Len(q) = p /\ \A i \in 1..p : q[i] = Pad
  BY <1>6, PadsType
<1> HIDE DEF d, q
<1>9. d \in Seq(Nat)
  <2>1. 16..26 \subseteq Nat
    OBVIOUS
  <2> QED  BY <1>7, <2>1, SeqMonotonic
<1>10. /\ s \in Seq(Nat) /\ Len(s) = k + p /\ \A i \in 1..k : s[i] = d[i]
       /\ \A i \in 1..p : s[k + i] = q[i]
  BY <1>7, <1>8, <1>9
<1>11. raw \in Seq(Nat)
  <2>1. 16..26 \subseteq Nat
    OBVIOUS
  <2> QED  BY <2>1, SeqMonotonic
<1>12. ASSUME NEW i \in 1..n PROVE raw[i] = s[i]
  <2>1. CASE i <= k
    <3>1. i \in 1..k
      BY <1>6, <2>1
    <3> QED  BY <1>7, <1>10, <3>1
  <2>2. CASE i > k
    <3>1. i - k \in 1..p /\ i = k + (i - k) /\ i \in (k + 1)..n
      BY <1>6, <2>2
    <3>2. s[i] = Pad
      <4> DEFINE j == i - k
      <4>1. j \in 1..p /\ i = k + j
        BY <3>1
      <4> HIDE DEF j, s
      <4> QED  BY <1>8, <1>10, <4>1
    <3>3. raw[i] = Pad
      BY <1>4, <3>1
    <3> QED  BY <3>2, <3>3
  <2>3. i <= k \/ i > k
    BY <1>6
  <2> QED  BY ONLY <2>1, <2>2, <2>3
<1> HIDE DEF s
<1>13. raw = s
  BY <1>6, <1>10, <1>11, <1>12, SeqEqual DEF n
<1> QED  BY <1>5, <1>6, <1>7, <1>13 DEF s, d, q

\* The numeral that the first k digits are.
Upto(s, k, base) == Number(SubSeq(s, 1, k), base)

LEMMA UptoGrows ==
  ASSUME NEW s \in Seq(Nat), NEW k \in Nat, NEW m \in Nat, m = k + 1, m <= Len(s),
         NEW base \in {2, 4, 8, 16}
  PROVE  /\ Upto(s, k, base) \in Nat /\ Upto(s, m, base) \in Nat /\ s[m] \in Nat
         /\ Upto(s, m, base) = base * Upto(s, k, base) + s[m]
<1> DEFINE h == SubSeq(s, 1, k)
           x == s[m]
<1>1. k < Len(s)
  OBVIOUS
<1>2. h \in Seq(Nat) /\ x \in Nat /\ SubSeq(s, 1, m) = Append(h, x)
  BY <1>1, PrefixStep
<1> HIDE DEF h, x
<1>3. Number(Append(h, x), base) = base * Number(h, base) + x
  BY <1>2, NumberAppend
<1>4. Append(h, x) \in Seq(Nat)
  BY <1>2
<1>5. Number(h, base) \in Nat /\ Number(Append(h, x), base) \in Nat
  BY <1>2, <1>4, NumberType
<1> QED  BY <1>2, <1>3, <1>5 DEF Upto, h, x

Follows(s, k, m) == k \in Nat /\ m \in Nat /\ m = k + 1 /\ m <= Len(s)

LEMMA UptoStep ==
  ASSUME NEW s \in Seq(Nat), NEW k, NEW m, Follows(s, k, m)
  PROVE  /\ s[m] \in Nat
         /\ Upto(s, k, 4) \in Nat /\ Upto(s, m, 4) = 4 * Upto(s, k, 4) + s[m]
         /\ Upto(s, k, 8) \in Nat /\ Upto(s, m, 8) = 8 * Upto(s, k, 8) + s[m]
         /\ Upto(s, k, 16) \in Nat /\ Upto(s, m, 16) = 16 * Upto(s, k, 16) + s[m]
<1>1. k \in Nat /\ m \in Nat /\ m = k + 1 /\ m <= Len(s)
  BY DEF Follows
<1>2. s[m] \in Nat /\ Upto(s, k, 4) \in Nat /\ Upto(s, m, 4) = 4 * Upto(s, k, 4) + s[m]
  BY <1>1, UptoGrows
<1>3. Upto(s, k, 8) \in Nat /\ Upto(s, m, 8) = 8 * Upto(s, k, 8) + s[m]
  BY <1>1, UptoGrows
<1>4. Upto(s, k, 16) \in Nat /\ Upto(s, m, 16) = 16 * Upto(s, k, 16) + s[m]
  BY <1>1, UptoGrows
<1> QED  BY <1>2, <1>3, <1>4

LEMMA UptoEnds ==
  ASSUME NEW s \in Seq(Nat), NEW base \in {2, 4, 8, 16}
  PROVE  Upto(s, 0, base) = 0 /\ Upto(s, Len(s), base) = Number(s, base)
<1>1. SubSeq(s, 1, 0) = <<>>
  BY SubSeqEmpty
<1>2. SubSeq(s, 1, Len(s)) = s
  BY SubSeqFull
<1> QED  BY <1>1, <1>2, NumberEmpty DEF Upto

\* Two hex digits are a byte.
LEMMA HexNumber ==
  ASSUME NEW r \in Seq(Nat), NEW v \in Seq(Nat), NEW n \in Nat, Len(r) = n, Len(v) = 2 * n,
         \A g \in Nat : g < n => r[g + 1] = 4 * v[2 * g + 1] + v[2 * g + 2]
  PROVE  Number(r, 16) = Number(v, 4)
<1> DEFINE P == {g \in Nat : g <= n => Upto(r, g, 16) = Upto(v, 2 * g, 4)}
<1>1. 0 \in P
  <2>1. Upto(r, 0, 16) = 0 /\ Upto(v, 0, 4) = 0
    BY UptoEnds
  <2>2. 2 * 0 = 0
    OBVIOUS
  <2> QED  BY <2>1, <2>2
<1>2. ASSUME NEW g \in Nat, g \in P PROVE g + 1 \in P
  <2> SUFFICES ASSUME g + 1 <= n PROVE Upto(r, g + 1, 16) = Upto(v, 2 * (g + 1), 4)
    OBVIOUS
  <2> DEFINE k0 == 2 * g
             k1 == 2 * g + 1
             k2 == 2 * g + 2
             h == g + 1
  <2>1. /\ {k0, k1, k2, h} \subseteq Nat /\ k1 = k0 + 1 /\ k2 = k1 + 1 /\ 2 * (g + 1) = k2
        /\ k1 <= Len(v) /\ k2 <= Len(v) /\ h = g + 1 /\ h <= Len(r)
        /\ r[h] = 4 * v[k1] + v[k2] /\ Upto(r, g, 16) = Upto(v, k0, 4)
    BY <1>2
  <2>0. Follows(v, k0, k1) /\ Follows(v, k1, k2) /\ Follows(r, g, h)
    BY DEF Follows
  <2> HIDE DEF k0, k1, k2, h, P
  <2>2. Upto(v, k1, 4) = 4 * Upto(v, k0, 4) + v[k1] /\ Upto(v, k0, 4) \in Nat /\ v[k1] \in Nat
    BY ONLY v \in Seq(Nat), <2>0, UptoStep
  <2>3. Upto(v, k2, 4) = 4 * Upto(v, k1, 4) + v[k2] /\ v[k2] \in Nat
    BY ONLY v \in Seq(Nat), <2>0, UptoStep
  <2>4. Upto(r, h, 16) = 16 * Upto(r, g, 16) + r[h]
    BY ONLY r \in Seq(Nat), <2>0, UptoStep
  <2>5. Upto(r, h, 16) = Upto(v, k2, 4)
    <3> DEFINE x == Upto(v, k0, 4)
               a == v[k1]
               b == v[k2]
    <3>1. x \in Nat /\ a \in Nat /\ b \in Nat
      BY <2>2, <2>3
    <3>2. Upto(v, k2, 4) = 4 * (4 * x + a) + b
      BY <2>2, <2>3
    <3>3. Upto(r, h, 16) = 16 * x + (4 * a + b)
      BY <2>1, <2>4
    <3> HIDE DEF x, a, b
    <3> QED  BY <3>1, <3>2, <3>3
  <2> QED  BY <2>1, <2>5
<1>3. n \in P
  <2> HIDE DEF P
  <2> QED  BY <1>1, <1>2, NatInduced
<1>4. Upto(r, n, 16) = Upto(v, 2 * n, 4)
  BY <1>3
<1>5. Upto(r, n, 16) = Number(r, 16) /\ Upto(v, 2 * n, 4) = Number(v, 4)
  BY UptoEnds
<1> QED  BY <1>4, <1>5

\* The bytes that hold the digits of a key: each four digits are three bytes, and the
\* last three digits two, but for a spare bit.
HoldsDigits(r, v, n) ==
  /\ \A g \in Nat : g < n =>
       /\ r[3 * g + 1] = 2 * v[4 * g + 1] + v[4 * g + 2] \div 4
       /\ r[3 * g + 2] = 4 * (v[4 * g + 2] % 4) + v[4 * g + 3] \div 2
       /\ r[3 * g + 3] = 8 * (v[4 * g + 3] % 2) + v[4 * g + 4]
  /\ r[3 * n + 1] = 2 * v[4 * n + 1] + v[4 * n + 2] \div 4
  /\ r[3 * n + 2] = 4 * (v[4 * n + 2] % 4) + v[4 * n + 3] \div 2

ThreeBytes(x, a, b, c, d) ==
  16 * (16 * (16 * x + (2 * a + b \div 4)) + (4 * (b % 4) + c \div 2)) + (8 * (c % 2) + d) =
    8 * (8 * (8 * (8 * x + a) + b) + c) + d

TwoBytes(x, a, b, c) ==
  2 * (16 * (16 * x + (2 * a + b \div 4)) + (4 * (b % 4) + c \div 2)) + (c % 2) =
    8 * (8 * (8 * x + a) + b) + c

LEMMA DigitsSum ==
  ASSUME NEW x \in Nat, NEW a \in Nat, NEW b \in Nat, NEW c \in Nat, NEW d \in Nat
  PROVE  ThreeBytes(x, a, b, c, d) /\ TwoBytes(x, a, b, c)
<1>1. PICK b1 \in Nat, b0 \in 0..3 : b = 4 * b1 + b0 /\ b \div 4 = b1 /\ b % 4 = b0
  <2>1. b = 4 * (b \div 4) + (b % 4) /\ b \div 4 \in Nat /\ b % 4 \in 0..3
    OBVIOUS
  <2> QED  BY <2>1
<1>2. PICK c1 \in Nat, c0 \in 0..1 : c = 2 * c1 + c0 /\ c \div 2 = c1 /\ c % 2 = c0
  <2>1. c = 2 * (c \div 2) + (c % 2) /\ c \div 2 \in Nat /\ c % 2 \in 0..1
    OBVIOUS
  <2> QED  BY <2>1
<1>3. /\ 16 * (16 * (16 * x + (2 * a + b1)) + (4 * b0 + c1)) + (8 * c0 + d) =
           8 * (8 * (8 * (8 * x + a) + (4 * b1 + b0)) + (2 * c1 + c0)) + d
      /\ 2 * (16 * (16 * x + (2 * a + b1)) + (4 * b0 + c1)) + c0 =
           8 * (8 * (8 * x + a) + (4 * b1 + b0)) + (2 * c1 + c0)
  OBVIOUS
<1> QED  BY <1>1, <1>2, <1>3 DEF ThreeBytes, TwoBytes

LEMMA Base64Number ==
  ASSUME NEW r \in Seq(Nat), NEW v \in Seq(Nat), NEW n \in Nat,
         Len(r) = 3 * n + 2, Len(v) = 4 * n + 3, HoldsDigits(r, v, n)
  PROVE  2 * Number(r, 16) + (v[4 * n + 3] % 2) = Number(v, 8)
<1> DEFINE P == {g \in Nat : g <= n => Upto(r, 3 * g, 16) = Upto(v, 4 * g, 8)}
<1>1. 0 \in P
  <2>1. Upto(r, 0, 16) = 0 /\ Upto(v, 0, 8) = 0
    BY UptoEnds
  <2>2. 3 * 0 = 0 /\ 4 * 0 = 0
    OBVIOUS
  <2> QED  BY <2>1, <2>2
<1>2. ASSUME NEW g \in Nat, g \in P PROVE g + 1 \in P
  <2> SUFFICES ASSUME g + 1 <= n PROVE Upto(r, 3 * (g + 1), 16) = Upto(v, 4 * (g + 1), 8)
    OBVIOUS
  <2> DEFINE k0 == 4 * g
             k1 == 4 * g + 1
             k2 == 4 * g + 2
             k3 == 4 * g + 3
             k4 == 4 * g + 4
             j0 == 3 * g
             j1 == 3 * g + 1
             j2 == 3 * g + 2
             j3 == 3 * g + 3
  <2>1. /\ {k0, k1, k2, k3, k4, j0, j1, j2, j3} \subseteq Nat
        /\ k1 = k0 + 1 /\ k2 = k1 + 1 /\ k3 = k2 + 1 /\ k4 = k3 + 1 /\ 4 * (g + 1) = k4
        /\ j1 = j0 + 1 /\ j2 = j1 + 1 /\ j3 = j2 + 1 /\ 3 * (g + 1) = j3
        /\ k1 <= Len(v) /\ k2 <= Len(v) /\ k3 <= Len(v) /\ k4 <= Len(v)
        /\ j1 <= Len(r) /\ j2 <= Len(r) /\ j3 <= Len(r)
        /\ Upto(r, j0, 16) = Upto(v, k0, 8)
    BY <1>2
  <2>2. /\ r[j1] = 2 * v[k1] + v[k2] \div 4
        /\ r[j2] = 4 * (v[k2] % 4) + v[k3] \div 2
        /\ r[j3] = 8 * (v[k3] % 2) + v[k4]
    <3>1. g < n
      OBVIOUS
    <3> QED  BY <3>1 DEF HoldsDigits
  <2>0. /\ Follows(v, k0, k1) /\ Follows(v, k1, k2) /\ Follows(v, k2, k3) /\ Follows(v, k3, k4)
        /\ Follows(r, j0, j1) /\ Follows(r, j1, j2) /\ Follows(r, j2, j3)
    BY DEF Follows
  <2> HIDE DEF k0, k1, k2, k3, k4, j0, j1, j2, j3, P
  <2>3. Upto(v, k1, 8) = 8 * Upto(v, k0, 8) + v[k1] /\ Upto(v, k0, 8) \in Nat /\ v[k1] \in Nat
    BY ONLY v \in Seq(Nat), <2>0, UptoStep
  <2>4. Upto(v, k2, 8) = 8 * Upto(v, k1, 8) + v[k2] /\ v[k2] \in Nat
    BY ONLY v \in Seq(Nat), <2>0, UptoStep
  <2>5. Upto(v, k3, 8) = 8 * Upto(v, k2, 8) + v[k3] /\ v[k3] \in Nat
    BY ONLY v \in Seq(Nat), <2>0, UptoStep
  <2>6. Upto(v, k4, 8) = 8 * Upto(v, k3, 8) + v[k4] /\ v[k4] \in Nat
    BY ONLY v \in Seq(Nat), <2>0, UptoStep
  <2>7. Upto(r, j1, 16) = 16 * Upto(r, j0, 16) + r[j1]
    BY ONLY r \in Seq(Nat), <2>0, UptoStep
  <2>8. Upto(r, j2, 16) = 16 * Upto(r, j1, 16) + r[j2]
    BY ONLY r \in Seq(Nat), <2>0, UptoStep
  <2>9. Upto(r, j3, 16) = 16 * Upto(r, j2, 16) + r[j3]
    BY ONLY r \in Seq(Nat), <2>0, UptoStep
  <2>10. Upto(r, j3, 16) = Upto(v, k4, 8)
    <3> DEFINE x == Upto(v, k0, 8)
               a == v[k1]
               b == v[k2]
               c == v[k3]
               d == v[k4]
    <3>1. {x, a, b, c, d} \subseteq Nat
      BY <2>3, <2>4, <2>5, <2>6
    <3>2. Upto(v, k4, 8) = 8 * (8 * (8 * (8 * x + a) + b) + c) + d
      BY <2>3, <2>4, <2>5, <2>6
    <3>3. Upto(r, j3, 16) = 16 * (16 * (16 * x + (2 * a + b \div 4)) + (4 * (b % 4) + c \div 2)) + (8 * (c % 2) + d)
      BY <2>1, <2>2, <2>7, <2>8, <2>9
    <3> HIDE DEF x, a, b, c, d
    <3>4. ThreeBytes(x, a, b, c, d)
      BY <3>1, DigitsSum
    <3> QED  BY <3>2, <3>3, <3>4 DEF ThreeBytes
  <2> QED  BY <2>1, <2>10
<1>3. n \in P
  <2> HIDE DEF P
  <2> QED  BY <1>1, <1>2, NatInduced
<1>4. Upto(r, 3 * n, 16) = Upto(v, 4 * n, 8)
  BY <1>3
<1> DEFINE k0 == 4 * n
           k1 == 4 * n + 1
           k2 == 4 * n + 2
           k3 == 4 * n + 3
           j0 == 3 * n
           j1 == 3 * n + 1
           j2 == 3 * n + 2
<1>5. /\ {k0, k1, k2, k3, j0, j1, j2} \subseteq Nat
      /\ k1 = k0 + 1 /\ k2 = k1 + 1 /\ k3 = k2 + 1 /\ j1 = j0 + 1 /\ j2 = j1 + 1
      /\ k1 <= Len(v) /\ k2 <= Len(v) /\ k3 <= Len(v) /\ k3 = Len(v)
      /\ j1 <= Len(r) /\ j2 <= Len(r) /\ j2 = Len(r)
      /\ Upto(r, j0, 16) = Upto(v, k0, 8)
  BY <1>4
<1>6. /\ r[j1] = 2 * v[k1] + v[k2] \div 4
      /\ r[j2] = 4 * (v[k2] % 4) + v[k3] \div 2
  BY DEF HoldsDigits
<1>0. /\ Follows(v, k0, k1) /\ Follows(v, k1, k2) /\ Follows(v, k2, k3)
      /\ Follows(r, j0, j1) /\ Follows(r, j1, j2)
  BY DEF Follows
<1> HIDE DEF k0, k1, k2, j0, j1, j2, P
<1>7. 2 * Upto(r, j2, 16) + (v[k3] % 2) = Upto(v, k3, 8)
  <2> HIDE DEF k3
  <2>3. Upto(v, k1, 8) = 8 * Upto(v, k0, 8) + v[k1] /\ Upto(v, k0, 8) \in Nat /\ v[k1] \in Nat
    BY ONLY v \in Seq(Nat), <1>0, UptoStep
  <2>4. Upto(v, k2, 8) = 8 * Upto(v, k1, 8) + v[k2] /\ v[k2] \in Nat
    BY ONLY v \in Seq(Nat), <1>0, UptoStep
  <2>5. Upto(v, k3, 8) = 8 * Upto(v, k2, 8) + v[k3] /\ v[k3] \in Nat
    BY ONLY v \in Seq(Nat), <1>0, UptoStep
  <2>7. Upto(r, j1, 16) = 16 * Upto(r, j0, 16) + r[j1]
    BY ONLY r \in Seq(Nat), <1>0, UptoStep
  <2>8. Upto(r, j2, 16) = 16 * Upto(r, j1, 16) + r[j2]
    BY ONLY r \in Seq(Nat), <1>0, UptoStep
  <2> DEFINE x == Upto(v, k0, 8)
             a == v[k1]
             b == v[k2]
             c == v[k3]
  <2>9. {x, a, b, c} \subseteq Nat
    BY <2>3, <2>4, <2>5
  <2>10. Upto(v, k3, 8) = 8 * (8 * (8 * x + a) + b) + c
    BY <2>3, <2>4, <2>5
  <2>11. Upto(r, j2, 16) = 16 * (16 * x + (2 * a + b \div 4)) + (4 * (b % 4) + c \div 2)
    BY <1>5, <1>6, <2>7, <2>8
  <2> HIDE DEF x, a, b, c
  <2>12. TwoBytes(x, a, b, c)
    BY <2>9, DigitsSum
  <2> QED  BY <2>10, <2>11, <2>12 DEF c, TwoBytes
<1>8. Upto(r, j2, 16) = Number(r, 16) /\ Upto(v, k3, 8) = Number(v, 8)
  BY <1>5, UptoEnds
<1> QED  BY <1>7, <1>8

LEMMA KeySums ==
  \A a, b, c, d \in Octals :
    /\ (2 * a + b \div 4) \div 2 = a
    /\ 4 * ((2 * a + b \div 4) % 2) + (4 * (b % 4) + c \div 2) \div 4 = b
    /\ 2 * ((4 * (b % 4) + c \div 2) % 4) + (8 * (c % 2) + d) \div 8 = c
    /\ c % 2 = 0 => 2 * ((4 * (b % 4) + c \div 2) % 4) + 0 \div 8 = c
    /\ (8 * (c % 2) + d) % 8 = d
<1> TAKE a, b, c, d \in Octals
<1>1. /\ {a, b, c, d} \subseteq Nat /\ a <= 7 /\ b <= 7 /\ c <= 7 /\ d <= 7
  BY DEF Octals
<1>2. PICK b1 \in 0..1, b0 \in 0..3 : b = 4 * b1 + b0 /\ b \div 4 = b1 /\ b % 4 = b0
  <2>1. b = 4 * (b \div 4) + (b % 4) /\ b \div 4 \in Nat /\ b % 4 \in 0..3
    BY <1>1
  <2>2. b \div 4 \in 0..1
    BY <1>1
  <2> QED  BY <2>1, <2>2
<1>3. PICK c1 \in 0..3, c0 \in 0..1 : c = 2 * c1 + c0 /\ c \div 2 = c1 /\ c % 2 = c0
  <2>1. c = 2 * (c \div 2) + (c % 2) /\ c \div 2 \in 0..3 /\ c % 2 \in 0..1
    BY <1>1
  <2> QED  BY <2>1
<1>4. (2 * a + b1) \div 2 = a /\ (2 * a + b1) % 2 = b1
  BY <1>1
<1>5. (4 * b0 + c1) \div 4 = b0 /\ (4 * b0 + c1) % 4 = c1
  OBVIOUS
<1>6. (8 * c0 + d) \div 8 = c0 /\ (8 * c0 + d) % 8 = d
  BY <1>1
<1> QED  BY <1>1, <1>2, <1>3, <1>4, <1>5, <1>6

\* A key's digits with no spare bit are the ones that its bytes are written with.
LEMMA DigitsBack ==
  ASSUME NEW v \in Seq(Octals), NEW h \in Nat, Len(v) = 4 * h + 3, v[4 * h + 3] % 2 = 0
  PROVE  \A i \in 1..(4 * h + 3) : Regroup(Regroup(v, 3, 4, 3 * h + 2), 4, 3, 4 * h + 3)[i] = v[i]
<1> TAKE i \in 1..(4 * h + 3)
<1> DEFINE n == 4 * h + 3
           m == 3 * h + 2
           e == Regroup(v, 3, 4, m)
           r == Regroup(e, 4, 3, n)
<1> SUFFICES r[i] = v[i]
  OBVIOUS
<1>0. i \in Nat /\ i # 0 /\ n \in Nat /\ m \in Nat /\ n = 4 * h + 3 /\ m = 3 * h + 2 /\ i <= n
  OBVIOUS
<1> HIDE DEF n, m
<1>1. PICK g \in Nat, j \in 1..4 : i = 4 * g + j
  BY <1>0, InFour
<1> DEFINE a == At(v, 4 * g + 1)
           b == At(v, 4 * g + 2)
           c == At(v, 4 * g + 3)
           d == At(v, 4 * g + 4)
           x == At(e, 3 * g + 1)
           y == At(e, 3 * g + 2)
           z == At(e, 3 * g + 3)
<1>2. a \in Octals /\ b \in Octals /\ c \in Octals /\ d \in Octals
  <2>1. 0 \in Octals
    BY DEF Octals
  <2>2. /\ 4 * g + 1 \in Nat \ {0} /\ 4 * g + 2 \in Nat \ {0} /\ 4 * g + 3 \in Nat \ {0}
        /\ 4 * g + 4 \in Nat \ {0}
    OBVIOUS
  <2> QED  BY <2>1, <2>2, AtType
<1>3. e \in Seq(Nibbles) /\ Len(e) = m
  BY <1>0, BytesType
<1>4. /\ 3 * g + 1 <= m => e[3 * g + 1] = 2 * a + b \div 4
      /\ 3 * g + 2 <= m => e[3 * g + 2] = 4 * (b % 4) + c \div 2
      /\ 3 * g + 3 <= m => e[3 * g + 3] = 8 * (c % 2) + d
  BY <1>0, BytesOfDigits
<1> HIDE DEF e
<1>5. /\ 4 * g + 1 <= n => r[4 * g + 1] = x \div 2
      /\ 4 * g + 2 <= n => r[4 * g + 2] = 4 * (x % 2) + y \div 4
      /\ 4 * g + 3 <= n => r[4 * g + 3] = 2 * (y % 4) + z \div 8
      /\ 4 * g + 4 <= n => r[4 * g + 4] = z % 8
  BY <1>0, <1>3, DigitsOfBytes
<1>6. g <= h /\ (j = 4 => g < h)
  BY <1>0, <1>1
<1>7. /\ 3 * g + 1 <= m /\ 3 * g + 2 <= m /\ 4 * g + 1 <= n /\ 4 * g + 2 <= n /\ 4 * g + 3 <= n
      /\ g < h => 3 * g + 3 <= m /\ 4 * g + 4 <= n
      /\ g = h => ~(3 * g + 3 <= m)
  BY <1>0, <1>6
<1>8. /\ x = 2 * a + b \div 4 /\ y = 4 * (b % 4) + c \div 2
      /\ g < h => z = 8 * (c % 2) + d
      /\ g = h => z = 0
  <2>1. x = e[3 * g + 1] /\ y = e[3 * g + 2]
    BY <1>3, <1>7 DEF At
  <2>2. z = IF 3 * g + 3 <= m THEN e[3 * g + 3] ELSE 0
    BY <1>3 DEF At
  <2> HIDE DEF x, y, z, a, b, c, d
  <2> QED  BY <1>4, <1>7, <2>1, <2>2
<1>9. /\ a = v[4 * g + 1] /\ b = v[4 * g + 2] /\ c = v[4 * g + 3]
      /\ g < h => d = v[4 * g + 4]
      /\ g = h => c % 2 = 0
  BY <1>0, <1>7 DEF At
<1> HIDE DEF x, y, z, a, b, c, d, r
<1>10. r[4 * g + 1] = a /\ r[4 * g + 2] = b
  <2>1. r[4 * g + 1] = (2 * a + b \div 4) \div 2
    BY <1>5, <1>7, <1>8
  <2>2. r[4 * g + 2] = 4 * ((2 * a + b \div 4) % 2) + (4 * (b % 4) + c \div 2) \div 4
    BY <1>5, <1>7, <1>8
  <2> QED  BY <1>2, <2>1, <2>2, KeySums
<1>11. r[4 * g + 3] = c
  <2>1. r[4 * g + 3] = 2 * ((4 * (b % 4) + c \div 2) % 4) + z \div 8
    BY <1>5, <1>7, <1>8
  <2>2. CASE g < h
    <3>1. z = 8 * (c % 2) + d
      BY <1>8, <2>2
    <3>2. 2 * ((4 * (b % 4) + c \div 2) % 4) + (8 * (c % 2) + d) \div 8 = c
      BY <1>2, KeySums
    <3> QED  BY <2>1, <3>1, <3>2
  <2>3. CASE g = h
    <3>1. z = 0 /\ c % 2 = 0
      BY <1>8, <1>9, <2>3
    <3>2. 2 * ((4 * (b % 4) + c \div 2) % 4) + 0 \div 8 = c
      BY <1>2, <3>1, KeySums
    <3> QED  BY <2>1, <3>1, <3>2
  <2>4. g < h \/ g = h
    BY <1>6
  <2> QED  BY <2>2, <2>3, <2>4
<1>12. g < h => r[4 * g + 4] = d
  <2> SUFFICES ASSUME g < h PROVE r[4 * g + 4] = d
    OBVIOUS
  <2>1. r[4 * g + 4] = (8 * (c % 2) + d) % 8
    BY <1>5, <1>7, <1>8
  <2> QED  BY <1>2, <2>1, KeySums
<1>13. j = 1 \/ j = 2 \/ j = 3 \/ j = 4
  OBVIOUS
<1> QED  BY <1>1, <1>6, <1>9, <1>10, <1>11, <1>12, <1>13

-----------------------------------------------------------------------------
(* decodeKey: what is accepted                                             *)

LEMMA HexKey ==
  ASSUME NEW raw \in Seq(16..26), NEW n \in Nat, Len(raw) = 2 * n, \A i \in 1..Len(raw) : raw[i] \in HexDigits
  PROVE  Len(FromHex(raw)) = n /\ Number(FromHex(raw), 16) = Number(Values(raw, HexValue), 4)
<1> DEFINE v == [i \in 1..Len(raw) |-> HexValue(raw[i])]
           r == Regroup(v, 2, 4, n)
<1>1. v \in Seq(Quads) /\ Len(v) = 2 * n /\ v = Values(raw, HexValue)
  <2>1. \A c \in HexDigits : HexValue(c) \in Quads
    BY DEF HexDigits, HexValue, Quads
  <2>2. v \in [1..Len(raw) -> Quads] /\ Len(raw) \in Nat /\ DOMAIN raw = 1..Len(raw)
    BY <2>1
  <2>3. v \in Seq(Quads) /\ Len(v) = Len(raw)
    BY <2>2, IsASeq, LenProperties
  <2> QED  BY <2>2, <2>3 DEF Values
<1>2. FromHex(raw) = r
  <2>1. (Len(raw) * HexBits) \div ByteBits = n /\ HexBits = 2 /\ ByteBits = 4
    BY DEF HexBits, ByteBits
  <2> QED  BY <2>1 DEF FromHex
<1> HIDE DEF v
<1>3. \A g \in Nat : g < n => r[g + 1] = 4 * v[2 * g + 1] + v[2 * g + 2]
  <2> TAKE g \in Nat
  <2> HAVE g < n
  <2>1. r[g + 1] = 4 * At(v, 2 * g + 1) + At(v, 2 * g + 2)
    BY <1>1, ByteOfHex
  <2>2. At(v, 2 * g + 1) = v[2 * g + 1] /\ At(v, 2 * g + 2) = v[2 * g + 2]
    BY <1>1 DEF At
  <2> HIDE DEF r
  <2> QED  BY <2>1, <2>2
<1>4. v \in Seq(Nat)
  <2>1. Quads \subseteq Nat
    BY DEF Quads
  <2> QED  BY <1>1, <2>1, SeqMonotonic
<1>5. r \in Seq(Nat) /\ Len(r) = n
  <2>1. \A g \in Nat : g < n => v[2 * g + 1] \in Nat /\ v[2 * g + 2] \in Nat
    BY <1>1, <1>4
  <2>2. \A k \in 1..n : r[k] \in Nat
    <3> TAKE k \in 1..n
    <3>1. PICK g \in Nat : k = g + 1 /\ g < n
      <4>1. k - 1 \in Nat /\ k = (k - 1) + 1 /\ k - 1 < n
        OBVIOUS
      <4> QED  BY <4>1
    <3> DEFINE x == v[2 * g + 1]
               y == v[2 * g + 2]
    <3>2. x \in Nat /\ y \in Nat /\ r[g + 1] = 4 * x + y
      <4> HIDE DEF r
      <4> QED  BY <1>3, <2>1, <3>1
    <3> HIDE DEF r, x, y
    <3> QED  BY <3>1, <3>2
  <2>3. r \in [1..n -> Nat]
    <3>1. r = [k \in 1..n |-> r[k]]
      BY DEF Regroup
    <3> HIDE DEF r
    <3> QED  BY <2>2, <3>1
  <2> HIDE DEF r
  <2> QED  BY <2>3, IsASeq, LenProperties
<1> HIDE DEF r
<1>6. Number(r, 16) = Number(v, 4)
  BY <1>1, <1>3, <1>4, <1>5, HexNumber
<1> QED  BY <1>1, <1>2, <1>5, <1>6

\* The digits of a key of 3 h + 2 bytes.
KeyDigits(body, h) == body \in Seq(16..24) /\ Len(body) = 4 * h + 3

LEMMA BytesOfKey ==
  ASSUME NEW body, NEW h \in Nat, KeyDigits(body, h), NEW p \in Nat
  PROVE  LET v == DigitValues(body)
             r == FromBase64(body \o Pads(p))
         IN /\ r = Regroup(v, 3, 4, 3 * h + 2) /\ r \in Seq(Nibbles) /\ Len(r) = 3 * h + 2
            /\ v \in Seq(Octals) /\ Len(v) = 4 * h + 3 /\ v[4 * h + 3] \in Octals
            /\ 2 * Number(r, 16) + (v[4 * h + 3] % 2) = Number(v, 8)
            /\ Number(r, 16) \in Nat
<1> DEFINE v == DigitValues(body)
           m == 3 * h + 2
           r == Regroup(v, 3, 4, m)
<1>1. body \in Seq(16..24) /\ Len(body) = 4 * h + 3
  BY DEF KeyDigits
<1>2. v \in Seq(Octals) /\ Len(v) = 4 * h + 3
  BY <1>1, DigitValuesType
<1>3. FromBase64(body \o Pads(p)) = r
  <2>1. FromBase64(body \o Pads(p)) = Regroup(v, 3, 4, (3 * Len(body)) \div 4)
    BY <1>1, FromPadded
  <2>2. (3 * Len(body)) \div 4 = m
    BY <1>1
  <2> QED  BY <2>1, <2>2
<1> HIDE DEF v
<1>4. m \in Nat /\ m = 3 * h + 2
  OBVIOUS
<1> HIDE DEF m
<1>5. r \in Seq(Nibbles) /\ Len(r) = m
  BY <1>2, <1>4, BytesType
<1>6. HoldsDigits(r, v, h)
  <2>1. ASSUME NEW g \in Nat, g <= h
        PROVE  /\ r[3 * g + 1] = 2 * v[4 * g + 1] + v[4 * g + 2] \div 4
               /\ r[3 * g + 2] = 4 * (v[4 * g + 2] % 4) + v[4 * g + 3] \div 2
               /\ g < h => r[3 * g + 3] = 8 * (v[4 * g + 3] % 2) + v[4 * g + 4]
    <3>1. /\ 3 * g + 1 <= m => r[3 * g + 1] = 2 * At(v, 4 * g + 1) + At(v, 4 * g + 2) \div 4
          /\ 3 * g + 2 <= m => r[3 * g + 2] = 4 * (At(v, 4 * g + 2) % 4) + At(v, 4 * g + 3) \div 2
          /\ 3 * g + 3 <= m => r[3 * g + 3] = 8 * (At(v, 4 * g + 3) % 2) + At(v, 4 * g + 4)
      BY <1>2, <1>4, BytesOfDigits
    <3>2. /\ At(v, 4 * g + 1) = v[4 * g + 1] /\ At(v, 4 * g + 2) = v[4 * g + 2]
          /\ At(v, 4 * g + 3) = v[4 * g + 3] /\ (g < h => At(v, 4 * g + 4) = v[4 * g + 4])
      BY <1>2, <2>1 DEF At
    <3>3. 3 * g + 1 <= m /\ 3 * g + 2 <= m /\ (g < h => 3 * g + 3 <= m)
      BY <1>4, <2>1
    <3> HIDE DEF r
    <3> QED  BY <3>1, <3>2, <3>3
  <2>2. h <= h /\ \A g \in Nat : g < h => g <= h
    OBVIOUS
  <2> HIDE DEF r
  <2> QED  BY <2>1, <2>2 DEF HoldsDigits
<1>7. r \in Seq(Nat) /\ v \in Seq(Nat)
  <2>1. Octals \subseteq Nat /\ Nibbles \subseteq Nat
    BY DEF Octals, Nibbles
  <2> HIDE DEF r
  <2> QED  BY <1>2, <1>5, <2>1, SeqMonotonic
<1> HIDE DEF r
<1>8. 2 * Number(r, 16) + (v[4 * h + 3] % 2) = Number(v, 8)
  BY <1>2, <1>4, <1>5, <1>6, <1>7, Base64Number
<1>9. v[4 * h + 3] \in Octals
  <2>1. 4 * h + 3 \in 1..Len(v)
    BY <1>2
  <2> QED  BY <1>2, <2>1
<1>10. Number(r, 16) \in Nat
  BY <1>7, NumberType
<1> QED  BY <1>2, <1>3, <1>4, <1>5, <1>8, <1>9, <1>10 DEF r, v, m

\* A key with no spare bit set is written the way it was.
LEMMA KeyWrittenBack ==
  ASSUME NEW body, NEW h \in Nat, KeyDigits(body, h), \A i \in 1..Len(body) : body[i] \in Digits,
         DigitValues(body)[4 * h + 3] % 2 = 0, NEW p \in Nat
  PROVE  Unpadded(Base64(FromBase64(body \o Pads(p)))) = body
<1> DEFINE v == DigitValues(body)
           r == FromBase64(body \o Pads(p))
           w == Written(r)
           n == 4 * h + 3
<1>1. body \in Seq(16..24) /\ Len(body) = n
  BY DEF KeyDigits
<1>2. r = Regroup(v, 3, 4, 3 * h + 2) /\ r \in Seq(Nibbles) /\ Len(r) = 3 * h + 2
      /\ v \in Seq(Octals) /\ Len(v) = 4 * h + 3
  BY BytesOfKey
<1>3. DigitCount(r) = n
  <2>1. (4 * (3 * h + 2) + 2) \div 3 = 4 * h + 3
    OBVIOUS
  <2> HIDE DEF r, v
  <2> QED  BY <1>2, <2>1 DEF DigitCount
<1>4. \A i \in 1..n : v[i] = DigitValue(body[i])
  BY <1>1, DigitValuesType
<1>5. \A i \in 1..n : Regroup(r, 4, 3, n)[i] = v[i]
  <2> HIDE DEF v, r
  <2>1. v[4 * h + 3] % 2 = 0
    BY DEF v
  <2>2. \A i \in 1..(4 * h + 3) : Regroup(Regroup(v, 3, 4, 3 * h + 2), 4, 3, 4 * h + 3)[i] = v[i]
    BY <1>2, <2>1, DigitsBack
  <2> QED  BY <1>2, <2>2
<1> HIDE DEF v, r
<1>6. w \in Seq(16..24) /\ Len(w) = n
  BY <1>2, <1>3, WrittenType
<1>7. \A i \in 1..n : w[i] = body[i]
  <2> TAKE i \in 1..n
  <2>1. w[i] = 16 + Regroup(r, 4, 3, n)[i]
    BY <1>3 DEF Written
  <2>2. body[i] \in Digits
    BY <1>1
  <2>3. 16 + DigitValue(body[i]) = body[i]
    BY <2>2 DEF Digits, DigitValue, UrlSafe
  <2> HIDE DEF w, n
  <2> QED  BY <1>4, <1>5, <2>1, <2>3
<1> HIDE DEF w
<1>8. w = body
  BY <1>1, <1>6, <1>7, SeqEqual
<1>9. Base64(r) = w \o Pads(PadCount(r)) /\ PadCount(r) \in Nat
  <2>1. Base64(r) = w \o Pads(PadCount(r))
    BY <1>2, Base64Written DEF w
  <2>2. PadCount(r) \in 0..3
    BY <1>2, WrittenType
  <2> QED  BY <2>1, <2>2
<1>10. Unpadded(Base64(r)) = w
  BY <1>6, <1>9, UnpaddedWritten
<1> QED  BY <1>8, <1>10 DEF r

\* What bytes are written with has digits of the standard alphabet and no spare bit set.
LEMMA WrittenIsCanonical ==
  ASSUME NEW r \in Seq(Nibbles), NEW h \in Nat, Len(r) = 3 * h + 2
  PROVE  LET body == Unpadded(Base64(r))
         IN /\ KeyDigits(body, h) /\ body \in [1..(4 * h + 3) -> Digits]
            /\ DigitValues(body)[4 * h + 3] % 2 = 0
<1> DEFINE w == Written(r)
           n == 4 * h + 3
<1>1. w \in Seq(16..23) /\ w \in Seq(16..24) /\ Len(w) = DigitCount(r) /\ DigitCount(r) = n
      /\ \A i \in 1..DigitCount(r) : DigitValue(w[i]) = Regroup(r, 4, 3, DigitCount(r))[i]
  <2>1. (4 * (3 * h + 2) + 2) \div 3 = 4 * h + 3
    OBVIOUS
  <2>2. DigitCount(r) = n
    BY <2>1 DEF DigitCount
  <2> QED  BY <2>2, WrittenType
<1>2. Unpadded(Base64(r)) = w
  <2>1. Base64(r) = w \o Pads(PadCount(r)) /\ PadCount(r) \in Nat
    BY Base64Written, WrittenType
  <2> HIDE DEF w
  <2> QED  BY <1>1, <2>1, UnpaddedWritten
<1> HIDE DEF w
<1>3. KeyDigits(w, h)
  BY <1>1 DEF KeyDigits
<1>4. w \in [1..n -> Digits]
  <2>1. DOMAIN w = 1..Len(w) /\ \A i \in 1..Len(w) : w[i] \in 16..23
    BY <1>1
  <2>2. w = [i \in DOMAIN w |-> w[i]]
    BY <1>1
  <2> QED  BY <1>1, <2>1, <2>2 DEF Digits
<1>5. DigitValues(w)[n] % 2 = 0
  <2> DEFINE c == At(r, 3 * h + 3)
             b == At(r, 3 * h + 2)
  <2>1. n \in Nat /\ n = 4 * h + 3 /\ n <= n
    OBVIOUS
  <2>2. Regroup(r, 4, 3, n)[4 * h + 3] = 2 * (b % 4) + c \div 8
    <3> HIDE DEF n
    <3> QED  BY <2>1, DigitsOfBytes
  <2>3. c = 0 /\ b \in Nibbles
    <3>1. ~(3 * h + 3 <= Len(r)) /\ 3 * h + 2 \in 1..Len(r)
      OBVIOUS
    <3>2. c = 0
      BY <3>1 DEF At
    <3>3. b = r[3 * h + 2] /\ r[3 * h + 2] \in Nibbles
      BY <3>1 DEF At
    <3> QED  BY <3>2, <3>3
  <2>4. DigitValues(w)[n] = DigitValue(w[n])
    <3>1. n \in 1..Len(w)
      BY <1>1
    <3> HIDE DEF n
    <3> QED  BY <1>1, <3>1, DigitValuesType
  <2>5. DigitValue(w[n]) = Regroup(r, 4, 3, n)[n]
    <3>1. n \in 1..DigitCount(r)
      BY <1>1
    <3> HIDE DEF n
    <3> QED  BY <1>1, <3>1
  <2> HIDE DEF c, b
  <2>6. (2 * (b % 4) + c \div 8) % 2 = 0
    <3>1. b % 4 \in Nat /\ 0 \div 8 = 0
      BY <2>3 DEF Nibbles
    <3> QED  BY <2>3, <3>1
  <2> QED  BY <2>2, <2>4, <2>5, <2>6
<1> QED  BY <1>2, <1>3, <1>4, <1>5

LEMMA UptoPadType ==
  ASSUME NEW ascii \in Seq(Nat)
  PROVE  UptoPad(ascii) \in Seq(Nat)
<1> DEFINE n == Len(ascii)
           First(m) == \E k \in 1..m : ascii[k] = Pad /\ \A i \in 1..(k - 1) : ascii[i] # Pad
           P == {m \in Nat : m <= n => First(m) \/ \A i \in 1..m : ascii[i] # Pad}
<1>1. 0 \in P
  OBVIOUS
<1>2. ASSUME NEW m \in Nat, m \in P PROVE m + 1 \in P
  <2> SUFFICES ASSUME m + 1 <= n PROVE First(m + 1) \/ \A i \in 1..(m + 1) : ascii[i] # Pad
    OBVIOUS
  <2>1. CASE First(m)
    <3>1. PICK k \in 1..m : ascii[k] = Pad /\ \A i \in 1..(k - 1) : ascii[i] # Pad
      BY <2>1
    <3>2. k \in 1..(m + 1)
      OBVIOUS
    <3> QED  BY <3>1, <3>2
  <2>2. CASE \A i \in 1..m : ascii[i] # Pad
    <3>1. m + 1 \in 1..(m + 1) /\ (m + 1) - 1 = m
      OBVIOUS
    <3>2. CASE ascii[m + 1] = Pad
      BY <2>2, <3>1, <3>2
    <3>3. CASE ascii[m + 1] # Pad
      <4>1. \A i \in 1..(m + 1) : i \in 1..m \/ i = m + 1
        OBVIOUS
      <4> QED  BY <2>2, <3>3, <4>1
    <3> QED  BY <3>2, <3>3
  <2>3. First(m) \/ \A i \in 1..m : ascii[i] # Pad
    BY <1>2
  <2> QED  BY <2>1, <2>2, <2>3
<1>3. n \in P /\ n \in Nat
  <2> HIDE DEF P, n
  <2>1. n \in Nat
    BY DEF n
  <2> QED  BY <1>1, <1>2, <2>1, NatInduced
<1>4. CASE \A i \in 1..n : ascii[i] # Pad
  BY <1>4, NoPad
<1>5. CASE First(n)
  <2>1. PICK k \in 1..n : ascii[k] = Pad /\ \A i \in 1..(k - 1) : ascii[i] # Pad
    BY <1>5
  <2>2. UptoPad(ascii) = SubSeq(ascii, 1, k - 1)
    BY <2>1, FirstPad
  <2>3. SubSeq(ascii, 1, k - 1) \in Seq(Nat)
    <3>1. k - 1 \in Nat /\ k - 1 < Len(ascii)
      BY <2>1
    <3> DEFINE j == k - 1
    <3> HIDE DEF j
    <3> QED  BY <3>1, PrefixStep DEF j
  <2> QED  BY <2>2, <2>3
<1> QED  BY <1>3, <1>4, <1>5

LEMMA FromBase64Type ==
  ASSUME NEW ascii \in Seq(16..26)
  PROVE  FromBase64(ascii) \in Seq(Nibbles)
<1> DEFINE d == Skimmed(UptoPad(ascii))
           n == (Len(d) * DigitBits) \div ByteBits
<1>1. d \in Seq(16..24)
  <2>1. 16..26 \subseteq Nat
    OBVIOUS
  <2>2. ascii \in Seq(Nat)
    BY <2>1, SeqMonotonic
  <2> QED  BY <2>2, UptoPadType, SkimmedType
<1>2. FromBase64(ascii) = Regroup(DigitValues(d), 3, 4, n)
  BY DEF FromBase64, DigitValues, DigitBits, ByteBits
<1> HIDE DEF d
<1>3. n \in Nat
  <2>1. Len(d) \in Nat
    BY <1>1
  <2> QED  BY <2>1 DEF DigitBits, ByteBits
<1> HIDE DEF n
<1>4. DigitValues(d) \in Seq(Octals)
  BY <1>1, DigitValuesType
<1> QED  BY <1>2, <1>3, <1>4, BytesType

LEMMA KeyCounts ==
  \E h \in Nat :
    /\ KeyLen = 3 * h + 2
    /\ Pow2((DigitBits - ((KeyLen * ByteBits) % DigitBits)) % DigitBits) = 2
    /\ (KeyLen * ByteBits + DigitBits - 1) \div DigitBits = 4 * h + 3
<1>1. KeyLen \in Nat /\ KeyLen % 3 = 2
  BY ConversionsAssumption
<1>2. KeyLen \div 3 \in Nat /\ KeyLen = 3 * (KeyLen \div 3) + 2
  BY <1>1
<1> DEFINE h == KeyLen \div 3
<1>3. h \in Nat /\ KeyLen = 3 * h + 2
  BY <1>2
<1> HIDE DEF h
<1>4. KeyLen * ByteBits = 12 * h + 8 /\ DigitBits = 3
  BY <1>3 DEF ByteBits, DigitBits
<1>5. (12 * h + 8) % 3 = 2 /\ (12 * h + 8 + 3 - 1) \div 3 = 4 * h + 3
  BY <1>3
<1>6. (DigitBits - ((KeyLen * ByteBits) % DigitBits)) % DigitBits = 1
  <2>1. (KeyLen * ByteBits) % DigitBits = 2
    BY <1>4, <1>5
  <2> QED  BY <1>4, <2>1
<1>7. Pow2(1) = 2
  BY DEF Pow2
<1> QED  BY <1>3, <1>4, <1>5, <1>6, <1>7

\* What becomes of every text, the ones with any number of "=" included.
KeyKept(raw, got) ==
  LET body == Unpadded(raw)
      spare == Pow2((DigitBits - ((KeyLen * ByteBits) % DigitBits)) % DigitBits)
      digits == (KeyLen * ByteBits + DigitBits - 1) \div DigitBits
      canonical == body \in [1..digits -> Digits]
  IN IF IsHex(raw)
     THEN /\ Len(got) = KeyLen
          /\ Number(got, Pow2(ByteBits)) = Number(Values(raw, HexValue), Pow2(HexBits))
     ELSE IF canonical /\ Number(Values(body, DigitValue), Pow2(DigitBits)) % spare = 0
     THEN /\ Len(got) = KeyLen
          /\ spare * Number(got, Pow2(ByteBits)) = Number(Values(body, DigitValue), Pow2(DigitBits))
     ELSE got = Thrown

LEMMA KeyIsKept ==
  ASSUME NEW raw \in Seq(16..26)
  PROVE  KeyKept(raw, DecodeKey(raw))
<1> DEFINE body == Unpadded(raw)
           spare == Pow2((DigitBits - ((KeyLen * ByteBits) % DigitBits)) % DigitBits)
           digits == (KeyLen * ByteBits + DigitBits - 1) \div DigitBits
           canonical == body \in [1..digits -> Digits]
           number == Number(Values(body, DigitValue), 8)
           got == DecodeKey(raw)
           buf == FromBase64(raw)
<1>1. PICK h \in Nat : KeyLen = 3 * h + 2 /\ spare = 2 /\ digits = 4 * h + 3
  BY KeyCounts
<1>2. Pow2(ByteBits) = 16 /\ Pow2(HexBits) = 4 /\ Pow2(DigitBits) = 8
  BY DEF Pow2, ByteBits, HexBits, DigitBits
<1>3. CASE IsHex(raw)
  <2>1. Len(raw) = 2 * KeyLen /\ (\A i \in 1..Len(raw) : raw[i] \in HexDigits) /\ KeyLen \in Nat
    <3>1. raw \in [1..(2 * KeyLen) -> HexDigits] /\ 2 * KeyLen \in Nat /\ KeyLen \in Nat
      BY <1>1, <1>3 DEF IsHex
    <3>2. Len(raw) = 2 * KeyLen
      BY <3>1
    <3> QED  BY <3>1, <3>2
  <2>2. got = FromHex(raw)
    BY <1>3 DEF DecodeKey
  <2>3. Len(got) = KeyLen /\ Number(got, 16) = Number(Values(raw, HexValue), 4)
    BY <2>1, <2>2, HexKey
  <2> HIDE DEF got
  <2> QED  BY <1>2, <1>3, <2>3 DEF KeyKept, got
<1>4. CASE ~IsHex(raw)
  <2>1. PICK p \in Nat : body \in Seq(16..26) /\ raw = body \o Pads(p)
    BY UnpaddedPads
  <2>2. got = IF RoundTrips(raw, buf) THEN buf ELSE Thrown
    BY <1>4 DEF DecodeKey
  <2>3. RoundTrips(raw, buf) <=> Len(buf) = 3 * h + 2 /\ Unpadded(Base64(buf)) = body
    BY <1>1 DEF RoundTrips
  <2>4. buf \in Seq(Nibbles)
    BY FromBase64Type
  <2>5. buf = FromBase64(body \o Pads(p))
    BY <2>1
  <2> DEFINE v == DigitValues(body)
  <2>6. Values(body, DigitValue) = v
    BY <2>1 DEF Values, DigitValues
  <2>7. canonical => KeyDigits(body, h) /\ \A i \in 1..Len(body) : body[i] \in Digits
    <3> SUFFICES ASSUME canonical PROVE KeyDigits(body, h) /\ \A i \in 1..Len(body) : body[i] \in Digits
      OBVIOUS
    <3>1. body \in [1..(4 * h + 3) -> Digits] /\ 4 * h + 3 \in Nat
      BY <1>1
    <3> HIDE DEF body
    <3>2. Len(body) = 4 * h + 3 /\ body \in Seq(Digits)
      BY <3>1, IsASeq, LenProperties
    <3>3. Digits \subseteq 16..24
      BY DEF Digits
    <3>4. body \in Seq(16..24)
      BY <3>2, <3>3, SeqMonotonic
    <3> QED  BY <3>1, <3>2, <3>4 DEF KeyDigits
  <2>8. KeyDigits(body, h) =>
          /\ Len(buf) = 3 * h + 2 /\ Number(buf, 16) \in Nat /\ v[4 * h + 3] \in Octals
          /\ 2 * Number(buf, 16) + (v[4 * h + 3] % 2) = Number(v, 8)
    BY <2>5, BytesOfKey
  <2> DEFINE even == v[4 * h + 3] % 2 = 0
  <2>9. KeyDigits(body, h) => (number % 2 = 0 <=> even) /\ (even => 2 * Number(buf, 16) = number)
    <3> SUFFICES ASSUME KeyDigits(body, h)
                 PROVE  (number % 2 = 0 <=> even) /\ (even => 2 * Number(buf, 16) = number)
      OBVIOUS
    <3> DEFINE x == Number(buf, 16)
               c == v[4 * h + 3]
               y == Number(v, 8)
    <3>1. x \in Nat /\ c \in Octals /\ 2 * x + (c % 2) = y
      BY <2>8
    <3>2. number = y
      BY <2>6
    <3> HIDE DEF x, c, y, number
    <3>3. c % 2 \in 0..1
      BY <3>1 DEF Octals
    <3>4. y % 2 = c % 2 /\ (c % 2 = 0 => 2 * x = y)
      <4> DEFINE z == c % 2
      <4> HIDE DEF z
      <4>1. z \in 0..1 /\ 2 * x + z = y
        BY <3>1, <3>3 DEF z
      <4>2. y % 2 = z /\ (z = 0 => 2 * x = y)
        BY <3>1, <4>1, SMTT(60)
      <4> QED  BY <4>2 DEF z
    <3> QED  BY <3>2, <3>4 DEF x, c
  <2>10. canonical /\ even => Unpadded(Base64(buf)) = body
    <3> SUFFICES ASSUME canonical, even PROVE Unpadded(Base64(buf)) = body
      OBVIOUS
    <3>1. KeyDigits(body, h) /\ \A i \in 1..Len(body) : body[i] \in Digits
      BY <2>7
    <3>2. DigitValues(body)[4 * h + 3] % 2 = 0
      OBVIOUS
    <3> HIDE DEF body, v
    <3> QED  BY <2>5, <3>1, <3>2, KeyWrittenBack
  <2>11. RoundTrips(raw, buf) => canonical /\ even /\ KeyDigits(body, h)
    <3> SUFFICES ASSUME RoundTrips(raw, buf) PROVE canonical /\ even /\ KeyDigits(body, h)
      OBVIOUS
    <3>1. Len(buf) = 3 * h + 2 /\ Unpadded(Base64(buf)) = body
      BY <2>3
    <3> DEFINE b == Unpadded(Base64(buf))
    <3>2. KeyDigits(b, h) /\ b \in [1..(4 * h + 3) -> Digits] /\ DigitValues(b)[4 * h + 3] % 2 = 0
      <4> HIDE DEF buf
      <4> QED  BY <2>4, <3>1, WrittenIsCanonical
    <3>3. b = body
      BY <3>1
    <3> HIDE DEF b
    <3> QED  BY <1>1, <3>2, <3>3
  <2> HIDE DEF even, v, buf, number
  <2>12. CASE canonical /\ number % 2 = 0
    <3>1. RoundTrips(raw, buf)
      BY <2>3, <2>7, <2>8, <2>9, <2>10, <2>12
    <3>2. got = buf /\ Len(buf) = KeyLen /\ 2 * Number(buf, 16) = number
      BY <1>1, <2>2, <2>7, <2>8, <2>9, <2>12, <3>1
    <3> HIDE DEF got
    <3>3. Len(got) = KeyLen /\ 2 * Number(got, 16) = number
      BY <3>2
    <3> QED  BY <1>1, <1>2, <1>4, <2>12, <3>3 DEF KeyKept, number, got
  <2>13. CASE ~(canonical /\ number % 2 = 0)
    <3>1. ~RoundTrips(raw, buf)
      BY <2>9, <2>11, <2>13
    <3>2. got = Thrown
      BY <2>2, <3>1
    <3> HIDE DEF got
    <3> QED  BY <1>1, <1>2, <1>4, <2>13, <3>2 DEF KeyKept, number, got
  <2> QED  BY <2>12, <2>13
<1> QED  BY <1>3, <1>4

\* What KeyExact says of one key.
KeyTaken(raw, got) ==
  LET body == Unpadded(raw)
      spare == Pow2((DigitBits - ((KeyLen * ByteBits) % DigitBits)) % DigitBits)
      digits == (KeyLen * ByteBits + DigitBits - 1) \div DigitBits
      pads == (4 - (digits % 4)) % 4
      canonical == /\ body \in [1..digits -> Digits]
                   /\ Number(Values(body, DigitValue), Pow2(DigitBits)) % spare = 0
  IN IF IsHex(raw)
     THEN /\ Len(got) = KeyLen
          /\ Number(got, Pow2(ByteBits)) = Number(Values(raw, HexValue), Pow2(HexBits))
     ELSE /\ canonical /\ Len(raw) = digits + pads => got # Thrown
          /\ got # Thrown =>
               /\ canonical /\ Len(got) = KeyLen
               /\ spare * Number(got, Pow2(ByteBits)) =
                    Number(Values(body, DigitValue), Pow2(DigitBits))

LEMMA KeyKeptTaken ==
  ASSUME NEW raw, NEW got, KeyKept(raw, got)
  PROVE  KeyTaken(raw, got)
<1>1. Len(got) = KeyLen => got # Thrown
  <2>1. KeyLen # 0 /\ Len(<<>>) = 0
    BY ConversionsAssumption
  <2> QED  BY <2>1 DEF Thrown
<1>2. CASE IsHex(raw)
  BY <1>2 DEF KeyKept, KeyTaken
<1>3. CASE ~IsHex(raw)
  BY <1>1, <1>3 DEF KeyKept, KeyTaken
<1> QED  BY <1>2, <1>3

LEMMA KeyCalled ==
  ASSUME Next, Called("decodeKey")'
  PROVE  \E raw \in Seq(16..26) : call'.raw = raw /\ result' = DecodeKey(raw)
<1>1. ~GetJobLog /\ ~GetFileContent /\ ~RegisterTool
  BY DEF Called, GetJobLog, GetFileContent, RegisterTool, Make
<1>2. LoadConfig
  BY <1>1 DEF Next
<1>3. PICK n \in 1..(2 * KeyLen + 1) : \E raw \in [1..n -> 16..Pad] :
        call' = [fn |-> "decodeKey", raw |-> raw] /\ result' = DecodeKey(raw)
  BY <1>2 DEF LoadConfig, Make
<1>4. PICK raw \in [1..n -> 16..Pad] :
        call' = [fn |-> "decodeKey", raw |-> raw] /\ result' = DecodeKey(raw)
  BY <1>3
<1>5. n \in Nat
  <2>1. KeyLen \in Nat
    BY ConversionsAssumption
  <2> QED  BY <2>1
<1>6. raw \in Seq(16..26)
  BY <1>4, <1>5, IsASeq DEF Pad
<1> QED  BY <1>4, <1>6

\* decodeKey: whatever the length of a key (the program's 32 bytes leave two over three,
\* as KeyLen does) and whatever is written in ENCRYPTION_KEY, hex and strict base64 are
\* taken, nothing is whose digits are not those of a key with no spare bit set, and the
\* key is the number that is written.
THEOREM KeyIsExact == Spec => []KeyExact
<1>1. Init => KeyExact
  BY DEF Init, KeyExact, Called, NoCall
<1>2. ASSUME KeyExact, Next PROVE KeyExact'
  <2> SUFFICES ASSUME Called("decodeKey")' PROVE KeyTaken(call'.raw, result')
    BY DEF KeyExact, KeyTaken
  <2>1. PICK raw \in Seq(16..26) : call'.raw = raw /\ result' = DecodeKey(raw)
    BY <1>2, KeyCalled
  <2> QED  BY <2>1, KeyIsKept, KeyKeptTaken
<1>3. ASSUME KeyExact, UNCHANGED vars PROVE KeyExact'
  BY <1>3 DEF KeyExact, vars, Called
<1> QED  BY <1>1, <1>2, <1>3, PTL DEF Spec

-----------------------------------------------------------------------------
(* sanitizeParams: what it makes of a tree, from what it makes of its children *)

\* Leaves before and after.
Marked == {RedactValue(x.leaf) : x \in Leaves} \cup Leaves

AllLeaves(L) == \A v \in L : "leaf" \in DOMAIN v

LEMMA LeavesAreLeaves ==
  AllLeaves(Leaves) /\ AllLeaves(Marked) /\ Redacted \in Marked
<1>0. \A x : "leaf" \in DOMAIN Leaf(x)
  BY DEF Leaf
<1>1. AllLeaves(Leaves)
  BY <1>0 DEF AllLeaves, Leaves
<1>2. \A x : "leaf" \in DOMAIN RedactValue(x)
  BY DEF RedactValue, Redacted, Leaf
<1>3. Redacted \in Marked
  <2>1. Leaf("token") \in Leaves /\ Leaf("token").leaf = "token"
    BY DEF Leaves, Leaf
  <2>2. RedactValue("token") = Redacted
    BY DEF RedactValue
  <2> QED  BY <2>1, <2>2 DEF Marked
<1> QED  BY <1>1, <1>2, <1>3 DEF AllLeaves, Marked

Kids(v) ==
  IF "leaf" \in DOMAIN v THEN {}
  ELSE IF "items" \in DOMAIN v THEN {v.items[i] : i \in DOMAIN v.items}
  ELSE {v.fields[k] : k \in DOMAIN v.fields}

LEMMA ArrayShape ==
  ASSUME NEW s
  PROVE  LET v == Array(s)
         IN v.items = s /\ "leaf" \notin DOMAIN v /\ "items" \in DOMAIN v
BY DEF Array

LEMMA ObjectShape ==
  ASSUME NEW f
  PROVE  LET v == Object(f)
         IN v.fields = f /\ "leaf" \notin DOMAIN v /\ "items" \notin DOMAIN v
BY DEF Object

LEMMA ObjectKids ==
  ASSUME NEW S, NEW v \in Objects(S)
  PROVE  /\ Kids(v) \subseteq S
         /\ \E D \in SUBSET Keys : \E f \in [D -> S] : v = Object(f)
<1>1. PICK D \in SUBSET Keys : \E f \in [D -> S] : v = Object(f)
  BY DEF Objects
<1>2. PICK f \in [D -> S] : v = Object(f)
  BY <1>1
<1>3. v.fields = f /\ "leaf" \notin DOMAIN v /\ "items" \notin DOMAIN v
  BY <1>2, ObjectShape
<1>4. Kids(v) \subseteq S
  BY <1>3 DEF Kids
<1> QED  BY <1>1, <1>4

\* The shapes of what is nested once.
LEMMA NestedKids ==
  ASSUME NEW L, AllLeaves(L), NEW v \in Nested(L)
  PROVE  /\ Kids(v) \subseteq L
         /\ \/ v \in L /\ "leaf" \in DOMAIN v
            \/ \E s \in BoundedSeq(L, 2) : v = Array(s)
            \/ v \in Objects(L)
<1>1. v \in L \/ (\E s \in BoundedSeq(L, 2) : v = Array(s)) \/ v \in Objects(L)
  BY DEF Nested
<1>2. CASE v \in L
  BY <1>2 DEF AllLeaves, Kids
<1>3. CASE \E s \in BoundedSeq(L, 2) : v = Array(s)
  <2>1. PICK s \in BoundedSeq(L, 2) : v = Array(s)
    BY <1>3
  <2>2. v.items = s /\ "leaf" \notin DOMAIN v /\ "items" \in DOMAIN v
    BY <2>1, ArrayShape
  <2>3. s \in Seq(L)
    BY BoundedInSeq
  <2>4. \A i \in DOMAIN s : s[i] \in L
    BY <2>3
  <2>5. Kids(v) \subseteq L
    BY <2>2, <2>4 DEF Kids
  <2> QED  BY <1>3, <2>5
<1>4. CASE v \in Objects(L)
  BY <1>4, ObjectKids
<1> QED  BY <1>1, <1>2, <1>3, <1>4

LEMMA TreeKids ==
  ASSUME NEW L, AllLeaves(L), NEW v \in Trees(L)
  PROVE  Kids(v) \subseteq Nested(L) /\ Nested(L) \subseteq Trees(L) /\ L \subseteq Nested(L)
<1>1. L \subseteq Nested(L) /\ Nested(L) \subseteq Trees(L)
  BY DEF Nested, Trees
<1>2. v \in Objects(Nested(L)) => Kids(v) \subseteq Nested(L)
  BY ObjectKids
<1>3. v \in Nested(L) => Kids(v) \subseteq L
  BY NestedKids
<1> QED  BY <1>1, <1>2, <1>3 DEF Trees

\* sanitizeParams of a tree whose children have become what sanitize says.
SanitizedWith(sanitize, v) ==
  IF "leaf" \in DOMAIN v THEN RedactValue(v.leaf)
  ELSE IF "items" \in DOMAIN v THEN Array(SanitizedItems(sanitize, v.items))
  ELSE Object([k \in DOMAIN v.fields |->
                 IF k \in Secrets THEN Redacted ELSE sanitize[v.fields[k]]])

LEMMA SanitizedSame ==
  ASSUME NEW g, NEW h, NEW v, \A c \in Kids(v) : g[c] = h[c]
  PROVE  SanitizedWith(g, v) = SanitizedWith(h, v)
<1>1. CASE "leaf" \in DOMAIN v
  BY <1>1 DEF SanitizedWith
<1>2. CASE "leaf" \notin DOMAIN v /\ "items" \in DOMAIN v
  <2>1. \A i \in DOMAIN v.items : g[v.items[i]] = h[v.items[i]]
    BY <1>2 DEF Kids
  <2>2. SanitizedItems(g, v.items) = SanitizedItems(h, v.items)
    BY <2>1 DEF SanitizedItems
  <2> QED  BY <1>2, <2>2 DEF SanitizedWith
<1>3. CASE "leaf" \notin DOMAIN v /\ "items" \notin DOMAIN v
  <2>1. \A k \in DOMAIN v.fields : g[v.fields[k]] = h[v.fields[k]]
    BY <1>3 DEF Kids
  <2>2. [k \in DOMAIN v.fields |-> IF k \in Secrets THEN Redacted ELSE g[v.fields[k]]]
        = [k \in DOMAIN v.fields |-> IF k \in Secrets THEN Redacted ELSE h[v.fields[k]]]
    BY <2>1
  <2> QED  BY <1>3, <2>2 DEF SanitizedWith
<1> QED  BY <1>1, <1>2, <1>3

LEMMA SanitizeUnfold ==
  \A v \in Trees(Leaves) : SanitizeParams[v] = SanitizedWith(SanitizeParams, v)
<1> DEFINE g0 == [v \in Leaves |-> SanitizedWith(<<>>, v)]
           g1 == [v \in Nested(Leaves) |-> SanitizedWith(g0, v)]
           f == [v \in Trees(Leaves) |-> SanitizedWith(g1, v)]
           Fixed(g) == g = [v \in Trees(Leaves) |-> SanitizedWith(g, v)]
<1>0. AllLeaves(Leaves)
  BY LeavesAreLeaves
<1>1. ASSUME NEW c \in Leaves PROVE g1[c] = g0[c]
  <2>1. c \in Nested(Leaves) /\ Kids(c) = {}
    BY <1>0 DEF Nested, AllLeaves, Kids
  <2>2. SanitizedWith(g0, c) = SanitizedWith(<<>>, c)
    BY <2>1, SanitizedSame
  <2> QED  BY <2>1, <2>2
<1>2. ASSUME NEW c \in Nested(Leaves) PROVE f[c] = g1[c]
  <2>1. c \in Trees(Leaves) /\ Kids(c) \subseteq Leaves
    BY <1>0, NestedKids DEF Trees
  <2>2. SanitizedWith(g1, c) = SanitizedWith(g0, c)
    <3> HIDE DEF g0, g1
    <3> QED  BY <1>1, <2>1, SanitizedSame
  <2> QED  BY <2>1, <2>2
<1>3. ASSUME NEW v \in Trees(Leaves) PROVE SanitizedWith(f, v) = SanitizedWith(g1, v)
  <2>1. Kids(v) \subseteq Nested(Leaves)
    BY <1>0, TreeKids
  <2> HIDE DEF f, g1
  <2> QED  BY <1>2, <2>1, SanitizedSame
<1>4. Fixed(f)
  <2>1. f = [v \in Trees(Leaves) |-> SanitizedWith(g1, v)]
    OBVIOUS
  <2> HIDE DEF f, g1
  <2> QED  BY <1>3, <2>1
<1>5. SanitizeParams = CHOOSE g : Fixed(g)
  BY DEF SanitizeParams, SanitizedWith
<1> HIDE DEF f
<1>6. Fixed(SanitizeParams)
  <2>1. \E g : Fixed(g)
    BY <1>4
  <2> HIDE DEF Fixed
  <2> QED  BY <1>5, <2>1
<1> QED  BY <1>6

\* The leaves of a tree, from those that paths gives its children.
Walk(paths, v) ==
  IF "leaf" \in DOMAIN v THEN {[path |-> <<>>, leaf |-> v.leaf]}
  ELSE IF "items" \in DOMAIN v
  THEN IF v.items = <<>> THEN {[path |-> <<>>, leaf |-> "[]"]}
       ELSE UNION {Below([index |-> i], paths[v.items[i]]) : i \in DOMAIN v.items}
  ELSE IF DOMAIN v.fields = {} THEN {[path |-> <<>>, leaf |-> "{}"]}
       ELSE UNION {Below([key |-> k], paths[v.fields[k]]) : k \in DOMAIN v.fields}

LEMMA WalkSame ==
  ASSUME NEW g, NEW h, NEW v, \A c \in Kids(v) : g[c] = h[c]
  PROVE  Walk(g, v) = Walk(h, v)
<1>1. CASE "leaf" \in DOMAIN v
  BY <1>1 DEF Walk
<1>2. CASE "leaf" \notin DOMAIN v /\ "items" \in DOMAIN v
  <2>1. \A i \in DOMAIN v.items : g[v.items[i]] = h[v.items[i]]
    BY <1>2 DEF Kids
  <2>2. {Below([index |-> i], g[v.items[i]]) : i \in DOMAIN v.items}
        = {Below([index |-> i], h[v.items[i]]) : i \in DOMAIN v.items}
    BY <2>1
  <2> QED  BY <1>2, <2>2 DEF Walk
<1>3. CASE "leaf" \notin DOMAIN v /\ "items" \notin DOMAIN v
  <2>1. \A k \in DOMAIN v.fields : g[v.fields[k]] = h[v.fields[k]]
    BY <1>3 DEF Kids
  <2>2. {Below([key |-> k], g[v.fields[k]]) : k \in DOMAIN v.fields}
        = {Below([key |-> k], h[v.fields[k]]) : k \in DOMAIN v.fields}
    BY <2>1
  <2> QED  BY <1>3, <2>2 DEF Walk
<1> QED  BY <1>1, <1>2, <1>3

LEMMA PathsUnfold ==
  \A v \in Trees(Marked) : Paths[v] = Walk(Paths, v)
<1> DEFINE g0 == [v \in Marked |-> Walk(<<>>, v)]
           g1 == [v \in Nested(Marked) |-> Walk(g0, v)]
           f == [v \in Trees(Marked) |-> Walk(g1, v)]
           Fixed(g) == g = [v \in Trees(Marked) |-> Walk(g, v)]
<1>0. AllLeaves(Marked)
  BY LeavesAreLeaves
<1>1. ASSUME NEW c \in Marked PROVE g1[c] = g0[c]
  <2>1. c \in Nested(Marked) /\ Kids(c) = {}
    BY <1>0 DEF Nested, AllLeaves, Kids
  <2>2. Walk(g0, c) = Walk(<<>>, c)
    BY <2>1, WalkSame
  <2> QED  BY <2>1, <2>2
<1>2. ASSUME NEW c \in Nested(Marked) PROVE f[c] = g1[c]
  <2>1. c \in Trees(Marked) /\ Kids(c) \subseteq Marked
    BY <1>0, NestedKids DEF Trees
  <2>2. Walk(g1, c) = Walk(g0, c)
    <3> HIDE DEF g0, g1
    <3> QED  BY <1>1, <2>1, WalkSame
  <2> QED  BY <2>1, <2>2
<1>3. ASSUME NEW v \in Trees(Marked) PROVE Walk(f, v) = Walk(g1, v)
  <2>1. Kids(v) \subseteq Nested(Marked)
    BY <1>0, TreeKids
  <2> HIDE DEF f, g1
  <2> QED  BY <1>2, <2>1, WalkSame
<1>4. Fixed(f)
  <2>1. f = [v \in Trees(Marked) |-> Walk(g1, v)]
    OBVIOUS
  <2> HIDE DEF f, g1
  <2> QED  BY <1>3, <2>1
<1>5. Paths = CHOOSE g : Fixed(g)
  BY DEF Paths, Walk, Marked
<1> HIDE DEF f
<1>6. Fixed(Paths)
  <2>1. \E g : Fixed(g)
    BY <1>4
  <2> HIDE DEF Fixed
  <2> QED  BY <1>5, <2>1
<1> QED  BY <1>6

\* What sanitizeParams makes of params nested as deep as they are stays that deep.
LEMMA ArrayNested ==
  ASSUME NEW L, NEW M, NEW s \in BoundedSeq(L, 2), NEW g, \A i \in DOMAIN s : g[s[i]] \in M
  PROVE  /\ SanitizedItems(g, s) \in BoundedSeq(M, 2) /\ DOMAIN SanitizedItems(g, s) = DOMAIN s
         /\ \A i \in DOMAIN s : SanitizedItems(g, s)[i] = g[s[i]]
<1>1. PICK n \in 0..2 : s \in [1..n -> L]
  BY DEF BoundedSeq, SeqOf
<1>2. SanitizedItems(g, s) \in [1..n -> M]
  BY <1>1 DEF SanitizedItems
<1>3. SanitizedItems(g, s) \in BoundedSeq(M, 2)
  BY <1>2 DEF BoundedSeq, SeqOf
<1> QED  BY <1>3 DEF SanitizedItems

LEMMA SanitizedNested ==
  \A v \in Nested(Leaves) : SanitizeParams[v] \in Nested(Marked)
<1>0. AllLeaves(Leaves) /\ Redacted \in Marked /\ Leaves \subseteq Nested(Leaves) /\ Nested(Leaves) \subseteq Trees(Leaves)
  BY LeavesAreLeaves DEF Nested, Trees
<1>1. \A v \in Leaves : SanitizeParams[v] \in Marked
  <2> TAKE v \in Leaves
  <2>1. SanitizeParams[v] = RedactValue(v.leaf)
    <3>1. "leaf" \in DOMAIN v /\ v \in Trees(Leaves)
      BY <1>0 DEF AllLeaves
    <3> QED  BY <3>1, SanitizeUnfold DEF SanitizedWith
  <2> QED  BY <2>1 DEF Marked
<1> TAKE v \in Nested(Leaves)
<1>2. SanitizeParams[v] = SanitizedWith(SanitizeParams, v)
  BY <1>0, SanitizeUnfold
<1>3. CASE v \in Leaves
  BY <1>1, <1>3 DEF Nested
<1>4. CASE \E s \in BoundedSeq(Leaves, 2) : v = Array(s)
  <2>1. PICK s \in BoundedSeq(Leaves, 2) : v = Array(s)
    BY <1>4
  <2>2. SanitizeParams[v] = Array(SanitizedItems(SanitizeParams, s))
    BY <1>2, <2>1, ArrayShape DEF SanitizedWith
  <2>3. \A i \in DOMAIN s : s[i] \in Leaves
    BY BoundedInSeq
  <2>4. SanitizedItems(SanitizeParams, s) \in BoundedSeq(Marked, 2)
    BY <1>1, <2>3, ArrayNested
  <2> QED  BY <2>2, <2>4 DEF Nested
<1>5. CASE v \in Objects(Leaves)
  <2>1. PICK D \in SUBSET Keys : \E f \in [D -> Leaves] : v = Object(f)
    BY <1>5 DEF Objects
  <2>2. PICK f \in [D -> Leaves] : v = Object(f)
    BY <2>1
  <2> DEFINE h == [k \in DOMAIN f |-> IF k \in Secrets THEN Redacted ELSE SanitizeParams[f[k]]]
  <2>3. SanitizeParams[v] = Object(h)
    BY <1>2, <2>2, ObjectShape DEF SanitizedWith
  <2>4. h \in [D -> Marked]
    BY <1>0, <1>1, <2>2
  <2> HIDE DEF h
  <2>5. Object(h) \in Objects(Marked)
    BY <2>4 DEF Objects
  <2> QED  BY <2>3, <2>5 DEF Nested
<1> QED  BY <1>0, <1>3, <1>4, <1>5, NestedKids

-----------------------------------------------------------------------------
(* sanitizeParams: what becomes of the leaves                              *)

Steps == [index : Nat] \cup [key : Keys]

Names == {"token", "text with token", "other", "[]", "{}"}

Located == [path : Seq(Steps), leaf : Names]

\* What Sanitised says of one leaf.
KeptLeaf(p) ==
  IF SecretAt(p) # {}
  THEN [path |-> SubSeq(p.path, 1, CHOOSE i \in SecretAt(p) : \A j \in SecretAt(p) : i <= j),
        leaf |-> "[REDACTED]"]
  ELSE [path |-> p.path, leaf |-> RedactValue(p.leaf).leaf]

LEMMA LeastExists ==
  ASSUME NEW S \in SUBSET Nat, S # {}
  PROVE  \E m \in S : \A j \in S : m <= j
<1> DEFINE Less == {p \in Nat \X Nat : p[1] < p[2]}
<1>1. IsWellFoundedOn(Less, Nat)
  BY NatLessThanWellFounded DEF OpToRel
<1>2. \A m, n \in Nat : m < n => <<m, n>> \in Less
  OBVIOUS
<1> HIDE DEF Less
<1>3. PICK n \in S : \A m \in S : <<m, n>> \notin Less
  BY <1>1, WFMin
<1>4. ASSUME NEW j \in S PROVE n <= j
  <2>1. ~(j < n)
    BY <1>2, <1>3
  <2> QED  BY <2>1
<1> QED  BY <1>4

\* The first secret key on a path.
LEMMA FirstSecret ==
  ASSUME NEW p, NEW m \in SecretAt(p), SecretAt(p) \subseteq Nat, \A j \in SecretAt(p) : m <= j
  PROVE  KeptLeaf(p) = [path |-> SubSeq(p.path, 1, m), leaf |-> "[REDACTED]"]
<1> DEFINE S == SecretAt(p)
           least == CHOOSE i \in S : \A j \in S : i <= j
<1>1. least \in S /\ \A j \in S : least <= j
  BY DEF S
<1>2. least = m
  BY <1>1
<1>3. KeptLeaf(p) = [path |-> SubSeq(p.path, 1, least), leaf |-> "[REDACTED]"]
  BY DEF KeptLeaf
<1> HIDE DEF least
<1> QED  BY <1>2, <1>3

LEMMA StepBelow ==
  ASSUME NEW step \in Steps, NEW path \in Seq(Steps)
  PROVE  LET q == <<step>> \o path
         IN /\ q \in Seq(Steps) /\ Len(q) = Len(path) + 1 /\ Len(path) \in Nat /\ q[1] = step
            /\ \A i \in 1..Len(path) : q[i + 1] = path[i]
            /\ \A m \in Nat : m <= Len(path) => SubSeq(q, 1, m + 1) = <<step>> \o SubSeq(path, 1, m)
<1> DEFINE q == <<step>> \o path
<1>1. /\ q \in Seq(Steps) /\ Len(q) = Len(path) + 1 /\ Len(path) \in Nat /\ q[1] = step
      /\ \A i \in 1..Len(path) : q[i + 1] = path[i]
  OBVIOUS
<1> HIDE DEF q
<1>2. ASSUME NEW m \in Nat, m <= Len(path)
      PROVE  SubSeq(q, 1, m + 1) = <<step>> \o SubSeq(path, 1, m)
  <2> DEFINE h == SubSeq(path, 1, m)
             a == SubSeq(q, 1, m + 1)
             b == <<step>> \o h
  <2>1. h \in Seq(Steps) /\ Len(h) = m /\ \A i \in 1..m : h[i] = path[i]
    BY <1>2
  <2>2. a \in Seq(Steps) /\ Len(a) = m + 1 /\ \A i \in 1..(m + 1) : a[i] = q[i]
    BY <1>1, <1>2
  <2> HIDE DEF h, a
  <2>3. b \in Seq(Steps) /\ Len(b) = m + 1 /\ b[1] = step /\ \A i \in 1..m : b[i + 1] = h[i]
    BY <2>1
  <2> HIDE DEF b
  <2>4. ASSUME NEW i \in 1..(m + 1) PROVE a[i] = b[i]
    <3>1. CASE i = 1
      <4>1. 1 \in 1..(m + 1)
        OBVIOUS
      <4> QED  BY <1>1, <2>2, <2>3, <3>1, <4>1
    <3>2. CASE i # 1
      <4> DEFINE j == i - 1
      <4>1. j \in 1..m /\ j \in 1..Len(path) /\ i = j + 1
        BY <1>1, <1>2, <3>2
      <4> HIDE DEF j
      <4> QED  BY <1>1, <2>1, <2>2, <2>3, <4>1
    <3> QED  BY <3>1, <3>2
  <2>5. a = b
    BY <2>2, <2>3, <2>4, SeqEqual
  <2> QED  BY <2>5 DEF a, b, h
<1> QED  BY <1>1, <1>2 DEF q

\* Below a key that is not secret nothing changes.
LEMMA KeptBelow ==
  ASSUME NEW p \in Located, NEW step \in Steps, step \notin [key : Secrets]
  PROVE  KeptLeaf([path |-> <<step>> \o p.path, leaf |-> p.leaf])
         = [path |-> <<step>> \o KeptLeaf(p).path, leaf |-> KeptLeaf(p).leaf]
<1> DEFINE path == p.path
           n == Len(path)
           w == <<step>> \o path
           q == [path |-> w, leaf |-> p.leaf]
<1>1. path \in Seq(Steps)
  BY DEF Located
<1> HIDE DEF path
<1>2. /\ w \in Seq(Steps) /\ Len(w) = n + 1 /\ n \in Nat /\ w[1] = step
      /\ \A i \in 1..n : w[i + 1] = path[i]
      /\ \A m \in Nat : m <= n => SubSeq(w, 1, m + 1) = <<step>> \o SubSeq(path, 1, m)
  BY <1>1, StepBelow
<1>3. SecretAt(p) = {i \in 1..n : path[i] \in [key : Secrets]}
  BY <1>1 DEF SecretAt, path
<1>4. SecretAt(q) = {i \in 1..(n + 1) : w[i] \in [key : Secrets]}
  <2>1. q.path = w /\ DOMAIN w = 1..(n + 1)
    BY <1>2
  <2> HIDE DEF w, q, n
  <2> QED  BY <2>1 DEF SecretAt
<1>5. q.path = w /\ q.leaf = p.leaf
  OBVIOUS
<1> HIDE DEF w, q, n
<1>6. ASSUME NEW i \in 1..n PROVE i + 1 \in SecretAt(q) <=> i \in SecretAt(p)
  BY <1>2, <1>3, <1>4
<1>7. ASSUME NEW i \in SecretAt(q) PROVE \E j \in SecretAt(p) : i = j + 1
  <2>1. i \in 1..(n + 1) /\ i # 1
    BY <1>2, <1>4
  <2> DEFINE j == i - 1
  <2>2. j \in 1..n /\ i = j + 1
    BY <1>2, <2>1
  <2> HIDE DEF j
  <2> QED  BY <1>6, <2>2
<1>8. CASE SecretAt(p) = {}
  <2>1. SecretAt(q) = {}
    BY <1>7, <1>8
  <2> QED  BY <1>5, <1>8, <2>1 DEF KeptLeaf, q, w, path
<1>9. CASE SecretAt(p) # {}
  <2>1. SecretAt(p) \subseteq Nat /\ SecretAt(q) \subseteq Nat
    BY <1>2, <1>3, <1>4
  <2>2. PICK m \in SecretAt(p) : \A j \in SecretAt(p) : m <= j
    BY <1>9, <2>1, LeastExists
  <2>3. m \in 1..n /\ m \in Nat /\ m <= n
    BY <1>3
  <2> DEFINE k == m + 1
  <2>4. k \in SecretAt(q)
    BY <1>6, <2>3
  <2>5. \A i \in SecretAt(q) : k <= i
    <3> TAKE i \in SecretAt(q)
    <3>1. PICK j \in SecretAt(p) : i = j + 1
      BY <1>7
    <3> QED  BY <2>1, <2>2, <2>3, <3>1
  <2>6. SubSeq(w, 1, k) = <<step>> \o SubSeq(path, 1, m)
    BY <1>2, <2>3
  <2> HIDE DEF k
  <2>7. KeptLeaf(q) = [path |-> SubSeq(w, 1, k), leaf |-> "[REDACTED]"]
    BY <1>5, <2>1, <2>4, <2>5, FirstSecret
  <2>8. KeptLeaf(p) = [path |-> SubSeq(path, 1, m), leaf |-> "[REDACTED]"]
    BY <2>1, <2>2, FirstSecret DEF path
  <2>9. KeptLeaf(p).path = SubSeq(path, 1, m) /\ KeptLeaf(p).leaf = "[REDACTED]"
    <3> DEFINE x == SubSeq(path, 1, m)
               kept == KeptLeaf(p)
    <3>1. kept = [path |-> x, leaf |-> "[REDACTED]"]
      BY <2>8
    <3> HIDE DEF x, kept
    <3>2. kept.path = x /\ kept.leaf = "[REDACTED]"
      BY <3>1
    <3> QED  BY <3>2 DEF x, kept
  <2> QED  BY <2>6, <2>7, <2>9 DEF q, w, path
<1> QED  BY <1>8, <1>9

\* A secret key is where the path ends.
LEMMA KeptAtSecret ==
  ASSUME NEW p \in Located, NEW step \in Steps, step \in [key : Secrets]
  PROVE  KeptLeaf([path |-> <<step>> \o p.path, leaf |-> p.leaf])
         = [path |-> <<step>> \o <<>>, leaf |-> "[REDACTED]"]
<1> DEFINE path == p.path
           n == Len(path)
           w == <<step>> \o path
           q == [path |-> w, leaf |-> p.leaf]
           none == 0
           one == 1
<1>1. path \in Seq(Steps)
  BY DEF Located
<1> HIDE DEF path
<1>2. /\ w \in Seq(Steps) /\ Len(w) = n + 1 /\ n \in Nat /\ w[1] = step
      /\ \A m \in Nat : m <= n => SubSeq(w, 1, m + 1) = <<step>> \o SubSeq(path, 1, m)
  BY <1>1, StepBelow
<1>3. q.path = w /\ DOMAIN w = 1..(n + 1)
  BY <1>2
<1>4. none \in Nat /\ none <= n /\ none + 1 = one /\ one = 1
  BY <1>2
<1> HIDE DEF w, q, n, none, one
<1>5. SecretAt(q) \subseteq Nat /\ one \in SecretAt(q) /\ \A j \in SecretAt(q) : one <= j
  BY <1>2, <1>3, <1>4 DEF SecretAt
<1>6. KeptLeaf(q) = [path |-> SubSeq(w, 1, one), leaf |-> "[REDACTED]"]
  BY <1>3, <1>5, FirstSecret
<1>7. SubSeq(w, 1, one) = <<step>> \o SubSeq(path, 1, none)
  BY <1>2, <1>4
<1>8. SubSeq(path, 1, none) = <<>>
  BY SubSeqEmpty DEF none
<1> QED  BY <1>6, <1>7, <1>8 DEF q, w, path

LEMMA BelowKept ==
  ASSUME NEW paths \in SUBSET Located, NEW step \in Steps, step \notin [key : Secrets]
  PROVE  Below(step, {KeptLeaf(p) : p \in paths}) = {KeptLeaf(q) : q \in Below(step, paths)}
<1> DEFINE Moved(p) == [path |-> <<step>> \o p.path, leaf |-> p.leaf]
<1>1. \A p \in paths : Moved(KeptLeaf(p)) = KeptLeaf(Moved(p))
  BY KeptBelow
<1>2. Below(step, {KeptLeaf(p) : p \in paths}) = {Moved(x) : x \in {KeptLeaf(p) : p \in paths}}
  BY DEF Below
<1>3. Below(step, paths) = {Moved(p) : p \in paths}
  BY DEF Below
<1> HIDE DEF Moved
<1> QED  BY <1>1, <1>2, <1>3

LEMMA BelowSecret ==
  ASSUME NEW paths \in SUBSET Located, paths # {}, NEW step \in Steps, step \in [key : Secrets]
  PROVE  Below(step, {[path |-> <<>>, leaf |-> "[REDACTED]"]}) = {KeptLeaf(q) : q \in Below(step, paths)}
<1> DEFINE Moved(p) == [path |-> <<step>> \o p.path, leaf |-> p.leaf]
           end == [path |-> <<step>> \o <<>>, leaf |-> "[REDACTED]"]
<1>1. \A p \in paths : KeptLeaf(Moved(p)) = end
  BY KeptAtSecret
<1>2. Below(step, {[path |-> <<>>, leaf |-> "[REDACTED]"]}) = {end}
  <2> DEFINE alone == [path |-> <<>>, leaf |-> "[REDACTED]"]
  <2>1. alone.path = <<>> /\ alone.leaf = "[REDACTED]"
    OBVIOUS
  <2> HIDE DEF alone
  <2>2. Below(step, {alone}) = {Moved(alone)}
    BY DEF Below
  <2> QED  BY <2>1, <2>2 DEF alone
<1>3. Below(step, paths) = {Moved(p) : p \in paths}
  BY DEF Below
<1> HIDE DEF Moved, end
<1> QED  BY <1>1, <1>2, <1>3

LEMMA BelowType ==
  ASSUME NEW paths \in SUBSET Located, NEW step \in Steps
  PROVE  Below(step, paths) \subseteq Located /\ (paths # {} => Below(step, paths) # {})
<1>1. ASSUME NEW p \in paths PROVE [path |-> <<step>> \o p.path, leaf |-> p.leaf] \in Located
  <2>1. p.path \in Seq(Steps) /\ p.leaf \in Names
    BY DEF Located
  <2>2. <<step>> \o p.path \in Seq(Steps)
    BY <2>1
  <2> QED  BY <2>1, <2>2 DEF Located
<1> QED  BY <1>1 DEF Below

LEMMA UnionKept ==
  ASSUME NEW D, NEW a, NEW b, \A i \in D : b[i] = {KeptLeaf(q) : q \in a[i]}
  PROVE  UNION {b[i] : i \in D} = {KeptLeaf(q) : q \in UNION {a[i] : i \in D}}
OBVIOUS

\* What the audit keeps of a tree is what it keeps of the tree's leaves.
RightlySanitized(v) ==
  /\ Paths[v] \subseteq Located /\ Paths[v] # {}
  /\ Paths[SanitizeParams[v]] = {KeptLeaf(p) : p \in Paths[v]}

\* A tree that both functions are defined of.
BothTrees(v) == v \in Trees(Leaves) /\ v \in Trees(Marked) /\ SanitizeParams[v] \in Trees(Marked)

LEMMA KeptAlone ==
  ASSUME NEW x \in Names
  PROVE  LET p == [path |-> <<>>, leaf |-> x]
         IN p \in Located /\ KeptLeaf(p) = [path |-> <<>>, leaf |-> RedactValue(x).leaf]
<1> DEFINE p == [path |-> <<>>, leaf |-> x]
<1>1. p.path = <<>> /\ p.leaf = x /\ <<>> \in Seq(Steps) /\ DOMAIN p.path = {}
  OBVIOUS
<1>2. p \in Located
  BY <1>1 DEF Located
<1> HIDE DEF p
<1>3. SecretAt(p) = {}
  BY <1>1 DEF SecretAt
<1> QED  BY <1>1, <1>2, <1>3 DEF KeptLeaf, p

LEMMA LeafIsRight ==
  ASSUME NEW v \in Leaves, BothTrees(v)
  PROVE  RightlySanitized(v)
<1>1. "leaf" \in DOMAIN v /\ v.leaf \in Names
  <2>1. PICK x \in {"token", "text with token", "other"} : v = Leaf(x)
    BY DEF Leaves
  <2>2. v.leaf = x /\ "leaf" \in DOMAIN v
    BY <2>1 DEF Leaf
  <2>3. x \in Names
    BY DEF Names
  <2> QED  BY <2>2, <2>3
<1> DEFINE w == RedactValue(v.leaf)
<1>2. SanitizeParams[v] = w
  BY <1>1, SanitizeUnfold DEF SanitizedWith, BothTrees
<1>3. "leaf" \in DOMAIN w
  BY DEF RedactValue, Redacted, Leaf
<1> HIDE DEF w
<1>4. Paths[v] = {[path |-> <<>>, leaf |-> v.leaf]}
  BY <1>1, PathsUnfold DEF Walk, BothTrees
<1>5. Paths[w] = {[path |-> <<>>, leaf |-> w.leaf]}
  BY <1>2, <1>3, PathsUnfold DEF Walk, BothTrees
<1> DEFINE p == [path |-> <<>>, leaf |-> v.leaf]
<1>6. p \in Located /\ KeptLeaf(p) = [path |-> <<>>, leaf |-> w.leaf]
  BY <1>1, KeptAlone DEF w
<1> HIDE DEF p
<1>7. Paths[v] = {p}
  BY <1>4 DEF p
<1> QED  BY <1>2, <1>5, <1>6, <1>7 DEF RightlySanitized

LEMMA ArrayIsRight ==
  ASSUME NEW L, NEW s \in BoundedSeq(L, 2), BothTrees(Array(s)), \A i \in DOMAIN s : RightlySanitized(s[i])
  PROVE  RightlySanitized(Array(s))
<1> DEFINE v == Array(s)
           t == SanitizedItems(SanitizeParams, s)
           w == Array(t)
<1>1. v.items = s /\ "leaf" \notin DOMAIN v /\ "items" \in DOMAIN v
  BY ArrayShape
<1>2. w.items = t /\ "leaf" \notin DOMAIN w /\ "items" \in DOMAIN w
  BY ArrayShape
<1>3. SanitizeParams[v] = w
  BY <1>1, SanitizeUnfold DEF SanitizedWith, BothTrees
<1>4. DOMAIN t = DOMAIN s /\ \A i \in DOMAIN s : t[i] = SanitizeParams[s[i]]
  BY DEF SanitizedItems
<1>5. Paths[v] = Walk(Paths, v) /\ Paths[w] = Walk(Paths, w)
  BY <1>3, PathsUnfold DEF BothTrees
<1>6. PICK n \in 0..2 : s \in [1..n -> L]
  BY DEF BoundedSeq, SeqOf
<1>7. s = <<>> <=> t = <<>>
  <2>1. DOMAIN s = 1..n /\ t = [i \in 1..n |-> SanitizeParams[s[i]]]
    BY <1>6 DEF SanitizedItems
  <2>2. s \in Seq(L) /\ Len(s) = n
    BY <1>6, IsASeq, LenProperties
  <2> DEFINE S == {t[i] : i \in 1..n}
  <2>3. t \in [1..n -> S]
    BY <2>1
  <2> HIDE DEF t, S
  <2>4. t \in Seq(S) /\ Len(t) = n
    BY <2>3, IsASeq, LenProperties
  <2> QED  BY <2>2, <2>4, EmptySeq
<1> HIDE DEF v, w, t
<1>8. CASE s = <<>>
  <2> DEFINE x == "[]"
             p == [path |-> <<>>, leaf |-> x]
  <2>0. x \in Names
    BY DEF Names
  <2>1. Paths[v] = {p} /\ Paths[w] = {p}
    BY <1>1, <1>2, <1>5, <1>7, <1>8 DEF Walk
  <2>3. RedactValue(x).leaf = x
    BY DEF RedactValue, Leaf
  <2> HIDE DEF x
  <2>2. p \in Located /\ KeptLeaf(p) = [path |-> <<>>, leaf |-> RedactValue(x).leaf]
    BY <2>0, KeptAlone
  <2>4. KeptLeaf(p) = p
    BY <2>2, <2>3
  <2> HIDE DEF p
  <2> QED  BY <1>3, <2>1, <2>2, <2>4 DEF RightlySanitized, v
<1>9. CASE s # <<>>
  <2> DEFINE D == DOMAIN s
             a == [i \in D |-> Below([index |-> i], Paths[s[i]])]
             b == [i \in D |-> Below([index |-> i], Paths[t[i]])]
  <2>1. Paths[v] = UNION {a[i] : i \in D}
    BY <1>1, <1>5, <1>9 DEF Walk
  <2>2. Paths[w] = UNION {b[i] : i \in D}
    <3>1. {Below([index |-> i], Paths[w.items[i]]) : i \in DOMAIN w.items} = {b[i] : i \in D}
      BY <1>2, <1>4
    <3> HIDE DEF b, D
    <3> QED  BY <1>2, <1>5, <1>7, <1>9, <3>1 DEF Walk
  <2>3. ASSUME NEW i \in D
        PROVE  a[i] \subseteq Located /\ a[i] # {} /\ b[i] = {KeptLeaf(q) : q \in a[i]}
    <3> DEFINE step == [index |-> i]
               paths == Paths[s[i]]
    <3>1. step \in Steps /\ step \notin [key : Secrets]
      <4>1. i \in Nat
        BY <1>6
      <4> QED  BY <4>1 DEF Steps
    <3>2. paths \in SUBSET Located /\ paths # {} /\ Paths[t[i]] = {KeptLeaf(p) : p \in paths}
      BY <1>4 DEF RightlySanitized
    <3>3. a[i] = Below(step, paths) /\ b[i] = Below(step, Paths[t[i]])
      OBVIOUS
    <3> HIDE DEF step, paths, a, b
    <3>4. Below(step, paths) \subseteq Located /\ Below(step, paths) # {}
      BY <3>1, <3>2, BelowType
    <3>5. Below(step, {KeptLeaf(p) : p \in paths}) = {KeptLeaf(q) : q \in Below(step, paths)}
      BY <3>1, <3>2, BelowKept
    <3> QED  BY <3>2, <3>3, <3>4, <3>5
  <2>4. D # {}
    <3>1. s = [i \in D |-> s[i]] /\ <<>> = [i \in {} |-> s[i]]
      BY <1>6
    <3> QED  BY <1>9, <3>1
  <2> HIDE DEF a, b, D
  <2>5. UNION {b[i] : i \in D} = {KeptLeaf(q) : q \in UNION {a[i] : i \in D}}
    BY <2>3, UnionKept
  <2>6. Paths[v] \subseteq Located /\ Paths[v] # {}
    BY <2>1, <2>3, <2>4
  <2> QED  BY <1>3, <2>1, <2>2, <2>5, <2>6 DEF RightlySanitized, v
<1> QED  BY <1>8, <1>9

LEMMA ObjectIsRight ==
  ASSUME NEW S, NEW D \in SUBSET Keys, NEW f \in [D -> S], BothTrees(Object(f)),
         Redacted \in Trees(Marked), \A k \in D : RightlySanitized(f[k])
  PROVE  RightlySanitized(Object(f))
<1> DEFINE v == Object(f)
           h == [k \in DOMAIN f |-> IF k \in Secrets THEN Redacted ELSE SanitizeParams[f[k]]]
           w == Object(h)
<1>1. v.fields = f /\ "leaf" \notin DOMAIN v /\ "items" \notin DOMAIN v
  BY ObjectShape
<1>2. w.fields = h /\ "leaf" \notin DOMAIN w /\ "items" \notin DOMAIN w
  BY ObjectShape
<1>3. SanitizeParams[v] = w
  BY <1>1, SanitizeUnfold DEF SanitizedWith, BothTrees
<1>4. /\ DOMAIN f = D /\ DOMAIN h = D
      /\ \A k \in D : h[k] = IF k \in Secrets THEN Redacted ELSE SanitizeParams[f[k]]
  OBVIOUS
<1>5. Paths[v] = Walk(Paths, v) /\ Paths[w] = Walk(Paths, w)
  BY <1>3, PathsUnfold DEF BothTrees
<1>6. Paths[Redacted] = {[path |-> <<>>, leaf |-> "[REDACTED]"]}
  <2>1. "leaf" \in DOMAIN Redacted /\ Redacted.leaf = "[REDACTED]"
    BY DEF Redacted, Leaf
  <2> QED  BY <2>1, PathsUnfold DEF Walk
<1> HIDE DEF v, w, h
<1>7. CASE D = {}
  <2> DEFINE x == "{}"
             p == [path |-> <<>>, leaf |-> x]
  <2>0. x \in Names
    BY DEF Names
  <2>1. Paths[v] = {p} /\ Paths[w] = {p}
    BY <1>1, <1>2, <1>4, <1>5, <1>7 DEF Walk
  <2>3. RedactValue(x).leaf = x
    BY DEF RedactValue, Leaf
  <2> HIDE DEF x
  <2>2. p \in Located /\ KeptLeaf(p) = [path |-> <<>>, leaf |-> RedactValue(x).leaf]
    BY <2>0, KeptAlone
  <2>4. KeptLeaf(p) = p
    BY <2>2, <2>3
  <2> HIDE DEF p
  <2> QED  BY <1>3, <2>1, <2>2, <2>4 DEF RightlySanitized, v
<1>8. CASE D # {}
  <2> DEFINE a == [k \in D |-> Below([key |-> k], Paths[f[k]])]
             b == [k \in D |-> Below([key |-> k], Paths[h[k]])]
  <2>1. Paths[v] = UNION {a[k] : k \in D}
    <3>1. {Below([key |-> k], Paths[v.fields[k]]) : k \in DOMAIN v.fields} = {a[k] : k \in D}
      BY <1>1, <1>4
    <3> HIDE DEF a
    <3> QED  BY <1>1, <1>4, <1>5, <1>8, <3>1 DEF Walk
  <2>2. Paths[w] = UNION {b[k] : k \in D}
    <3>1. {Below([key |-> k], Paths[w.fields[k]]) : k \in DOMAIN w.fields} = {b[k] : k \in D}
      BY <1>2, <1>4
    <3> HIDE DEF b
    <3> QED  BY <1>2, <1>4, <1>5, <1>8, <3>1 DEF Walk
  <2>3. ASSUME NEW k \in D
        PROVE  a[k] \subseteq Located /\ a[k] # {} /\ b[k] = {KeptLeaf(q) : q \in a[k]}
    <3> DEFINE step == [key |-> k]
               paths == Paths[f[k]]
    <3>1. step \in Steps /\ (step \in [key : Secrets] <=> k \in Secrets)
      BY DEF Steps
    <3>2. paths \in SUBSET Located /\ paths # {} /\ Paths[SanitizeParams[f[k]]] = {KeptLeaf(p) : p \in paths}
      BY DEF RightlySanitized
    <3>3. a[k] = Below(step, paths) /\ b[k] = Below(step, Paths[h[k]])
      OBVIOUS
    <3> HIDE DEF step, paths, a, b
    <3>4. Below(step, paths) \subseteq Located /\ Below(step, paths) # {}
      BY <3>1, <3>2, BelowType
    <3>5. CASE k \in Secrets
      <4>1. Paths[h[k]] = {[path |-> <<>>, leaf |-> "[REDACTED]"]}
        BY <1>4, <1>6, <3>5
      <4>2. Below(step, {[path |-> <<>>, leaf |-> "[REDACTED]"]}) = {KeptLeaf(q) : q \in Below(step, paths)}
        BY <3>1, <3>2, <3>5, BelowSecret
      <4> QED  BY <3>3, <3>4, <4>1, <4>2
    <3>6. CASE k \notin Secrets
      <4>1. Paths[h[k]] = {KeptLeaf(p) : p \in paths}
        BY <1>4, <3>2, <3>6
      <4>2. Below(step, {KeptLeaf(p) : p \in paths}) = {KeptLeaf(q) : q \in Below(step, paths)}
        BY <3>1, <3>2, <3>6, BelowKept
      <4> QED  BY <3>3, <3>4, <4>1, <4>2
    <3> QED  BY <3>5, <3>6
  <2> HIDE DEF a, b
  <2>4. UNION {b[k] : k \in D} = {KeptLeaf(q) : q \in UNION {a[k] : k \in D}}
    BY <2>3, UnionKept
  <2>5. Paths[v] \subseteq Located /\ Paths[v] # {}
    BY <1>8, <2>1, <2>3
  <2> QED  BY <1>3, <2>1, <2>2, <2>4, <2>5 DEF RightlySanitized, v
<1> QED  BY <1>7, <1>8

LEMMA ObjectsMonotonic ==
  ASSUME NEW S, NEW T, S \subseteq T
  PROVE  Objects(S) \subseteq Objects(T)
<1>1. ASSUME NEW v \in Objects(S) PROVE v \in Objects(T)
  <2>1. PICK D \in SUBSET Keys : \E f \in [D -> S] : v = Object(f)
    BY DEF Objects
  <2>2. PICK f \in [D -> S] : v = Object(f)
    BY <2>1
  <2>3. f \in [D -> T]
    OBVIOUS
  <2> QED  BY <2>2, <2>3 DEF Objects
<1> QED  BY <1>1

LEMMA LeavesNested == Nested(Leaves) \subseteq Nested(Marked)
<1>1. Leaves \subseteq Marked
  BY DEF Marked
<1>2. Objects(Leaves) \subseteq Objects(Marked)
  BY <1>1, ObjectsMonotonic
<1>3. BoundedSeq(Leaves, 2) \subseteq BoundedSeq(Marked, 2)
  <2>1. ASSUME NEW n \in 0..2, NEW s \in [1..n -> Leaves] PROVE s \in [1..n -> Marked]
    BY <1>1
  <2> QED  BY <2>1 DEF BoundedSeq, SeqOf
<1> QED  BY <1>1, <1>2, <1>3 DEF Nested

LEMMA NestedIsRight ==
  ASSUME NEW v \in Nested(Leaves)
  PROVE  BothTrees(v) /\ RightlySanitized(v)
<1>0. AllLeaves(Leaves) /\ Redacted \in Trees(Marked) /\ Leaves \subseteq Nested(Leaves)
  BY LeavesAreLeaves DEF Nested, Trees
<1>1. ASSUME NEW w \in Nested(Leaves) PROVE BothTrees(w)
  BY SanitizedNested, LeavesNested DEF BothTrees, Trees
<1>2. ASSUME NEW w \in Leaves PROVE RightlySanitized(w)
  BY <1>0, <1>1, LeafIsRight
<1>3. CASE v \in Leaves
  BY <1>1, <1>2, <1>3
<1>4. CASE \E s \in BoundedSeq(Leaves, 2) : v = Array(s)
  <2>1. PICK s \in BoundedSeq(Leaves, 2) : v = Array(s)
    BY <1>4
  <2>2. \A i \in DOMAIN s : s[i] \in Leaves
    BY BoundedInSeq
  <2>3. BothTrees(Array(s)) /\ \A i \in DOMAIN s : RightlySanitized(s[i])
    BY <1>1, <1>2, <2>1, <2>2
  <2>4. RightlySanitized(Array(s))
    BY <2>3, ArrayIsRight
  <2> QED  BY <1>1, <2>1, <2>4
<1>5. CASE v \in Objects(Leaves)
  <2>1. PICK D \in SUBSET Keys : \E f \in [D -> Leaves] : v = Object(f)
    BY <1>5 DEF Objects
  <2>2. PICK f \in [D -> Leaves] : v = Object(f)
    BY <2>1
  <2>3. BothTrees(Object(f)) /\ \A k \in D : RightlySanitized(f[k])
    BY <1>1, <1>2, <2>2
  <2>4. RightlySanitized(Object(f))
    BY <1>0, <2>3, ObjectIsRight
  <2> QED  BY <1>1, <2>2, <2>4
<1> QED  BY <1>0, <1>3, <1>4, <1>5, NestedKids

\* What RegisterTool sanitises.
LEMMA ParamsAreRight ==
  ASSUME NEW v \in Objects(Nested(Leaves))
  PROVE  RightlySanitized(v)
<1>1. Redacted \in Trees(Marked) /\ Redacted \in Nested(Marked)
  BY LeavesAreLeaves DEF Nested, Trees
<1>2. PICK D \in SUBSET Keys : \E f \in [D -> Nested(Leaves)] : v = Object(f)
  BY DEF Objects
<1>3. PICK f \in [D -> Nested(Leaves)] : v = Object(f)
  BY <1>2
<1>4. \A k \in D : RightlySanitized(f[k])
  BY NestedIsRight
<1>5. BothTrees(v)
  <2>1. v \in Trees(Leaves)
    BY DEF Trees
  <2>2. v \in Trees(Marked)
    BY LeavesNested, ObjectsMonotonic DEF Trees
  <2>3. SanitizeParams[v] \in Trees(Marked)
    <3> DEFINE h == [k \in DOMAIN f |-> IF k \in Secrets THEN Redacted ELSE SanitizeParams[f[k]]]
    <3>1. SanitizeParams[v] = Object(h)
      BY <1>3, <2>1, ObjectShape, SanitizeUnfold DEF SanitizedWith
    <3>2. h \in [D -> Nested(Marked)]
      BY <1>1, SanitizedNested
    <3> HIDE DEF h
    <3>3. Object(h) \in Objects(Nested(Marked))
      BY <3>2 DEF Objects
    <3> QED  BY <3>1, <3>3 DEF Trees
  <2> QED  BY <2>1, <2>2, <2>3 DEF BothTrees
<1> QED  BY <1>1, <1>3, <1>4, <1>5, ObjectIsRight

LEMMA ParamsCalled ==
  ASSUME Next, Called("sanitizeParams")'
  PROVE  \E args \in Objects(Nested(Leaves)) : call'.args = args /\ result' = SanitizeParams[args]
<1>1. ~GetJobLog /\ ~GetFileContent /\ ~LoadConfig
  BY DEF Called, GetJobLog, GetFileContent, LoadConfig, Make
<1>2. RegisterTool
  BY <1>1 DEF Next
<1> QED  BY <1>2 DEF RegisterTool, Make

\* sanitizeParams: whatever the keys of the params and whichever of them are secret-like,
\* what the audit keeps is cut below the first secret-like key on every path, has no
\* token in any other place, and is otherwise the params as they were.
THEOREM ParamsAreSanitised == Spec => []Sanitised
<1>1. Init => Sanitised
  BY DEF Init, Sanitised, Called, NoCall
<1>2. ASSUME Sanitised, Next PROVE Sanitised'
  <2> SUFFICES ASSUME Called("sanitizeParams")'
               PROVE  Paths[result'] = {KeptLeaf(p) : p \in Paths[call'.args]}
    BY DEF Sanitised, KeptLeaf
  <2>1. PICK args \in Objects(Nested(Leaves)) : call'.args = args /\ result' = SanitizeParams[args]
    BY <1>2, ParamsCalled
  <2>2. RightlySanitized(args)
    BY ParamsAreRight
  <2> QED  BY <2>1, <2>2 DEF RightlySanitized
<1>3. ASSUME Sanitised, UNCHANGED vars PROVE Sanitised'
  BY <1>3 DEF Sanitised, vars, Called
<1> QED  BY <1>1, <1>2, <1>3, PTL DEF Spec
=============================================================================
