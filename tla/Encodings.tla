------------------------------ MODULE Encodings ------------------------------
(***************************************************************************)
(* UTF-8 and base64 as Node's Buffer reads and writes them: what the code  *)
(* of Conversions stands on.                                               *)
(*                                                                         *)
(* A byte is a small number, one per class that a decoder tells apart:     *)
(*   0, 5    continuation bytes, two so that U+FFFD is one character of    *)
(*           many;                                                         *)
(*   1       ASCII, and from 16 on the ASCII that base64 is written in;    *)
(*   2..4    leads of characters of that many bytes;                       *)
(*   7       a lead of three that narrows its second byte (E0, ED);        *)
(*   6       a byte that occurs in no character.                           *)
(* A character is the sequence of its bytes, and a text of characters.     *)
(***************************************************************************)
EXTENDS Integers, Sequences, SequencesExt

Continuations == {0, 5}
Leads == {2, 3, 4, 7}
Ascii(b) == b = 1 \/ b >= 16

FFFD == <<3, 5, 5>>

Width(b) == IF b = 7 THEN 3 ELSE IF b \in Leads THEN b ELSE 1

\* May the character begun with part go on with byte b?
Continues(part, b) ==
  part # <<>> /\ IF part = <<7>> THEN b = 5 ELSE b \in Continuations

-----------------------------------------------------------------------------
(* UTF-8                                                                   *)

Encode(text) == FlattenSeq(text)

ByteLength(text) == Len(Encode(text))

\* A byte that cannot go on ends the character under way, which becomes one mark,
\* and is read again as the first of the next.
Read(st, b) ==
  LET out == IF st.part = <<>> THEN st.out ELSE Append(st.out, FFFD) IN
  IF Continues(st.part, b)
  THEN LET part == Append(st.part, b) IN
       IF Len(part) = Width(part[1])
       THEN [out |-> Append(st.out, part), part |-> <<>>]
       ELSE [out |-> st.out, part |-> part]
  ELSE IF b \in Leads THEN [out |-> out, part |-> <<b>>]
  ELSE [out |-> Append(out, IF Ascii(b) THEN <<b>> ELSE FFFD), part |-> <<>>]

\* What the decoder has and what it is in the middle of, once it has read the bytes.
Reading(bytes) ==
  LET read[i \in 0..Len(bytes)] ==
        IF i = 0 THEN [out |-> <<>>, part |-> <<>>] ELSE Read(read[i - 1], bytes[i])
  IN read[Len(bytes)]

\* Buffer.toString("utf-8"); an unfinished last character becomes one mark.
Decode(bytes) ==
  LET st == Reading(bytes) IN
  IF st.part = <<>> THEN st.out ELSE Append(st.out, FFFD)

-----------------------------------------------------------------------------
(* Base64 and hex, scaled: a byte has 4 bits and not 8, a base64 digit 3   *)
(* and not 6, a hex digit 2 and not 4.  What matters is kept: three bytes  *)
(* are four base64 digits, one byte is two hex digits.                     *)

ByteBits == 4
DigitBits == 3
HexBits == 2

\* The ASCII of the base64 digits is 16..23; 24 is the url-safe form of the last,
\* 25 is junk, and hex digits are the first ones, with 20 an upper-case form.
Digits == 16..23
UrlSafe == 24
Junk == 25
Pad == 26
HexDigits == 16..20

DigitValue(c) == IF c = UrlSafe THEN 7 ELSE c - 16
HexValue(c) == IF c = 20 THEN 3 ELSE c - 16

\* 2^n, for the few bits there are.
Pow2(n) == <<1, 2, 4, 8, 16>>[n + 1]

\* A numeral, most significant digit first.
Number(digits, base) ==
  LET upto[i \in 0..Len(digits)] == IF i = 0 THEN 0 ELSE base * upto[i - 1] + digits[i]
  IN upto[Len(digits)]

\* Bit i, from 0, of a sequence of numbers of w bits; zeros follow.
Bit(s, w, i) ==
  IF i \div w >= Len(s) THEN 0 ELSE (s[i \div w + 1] \div Pow2(w - 1 - (i % w))) % 2

\* The bits of s, numbers of w bits, as n numbers of v bits.
Regroup(s, w, v, n) ==
  [k \in 1..n |-> Number([j \in 1..v |-> Bit(s, w, (k - 1) * v + j - 1)], 2)]

\* Buffer.toString("base64")
Base64(bytes) ==
  LET n == (Len(bytes) * ByteBits + DigitBits - 1) \div DigitBits
      digits == Regroup(bytes, ByteBits, DigitBits, n)
  IN [i \in 1..n |-> 16 + digits[i]] \o [i \in 1..((4 - (n % 4)) % 4) |-> Pad]

\* What precedes the first "=".
UptoPad(ascii) ==
  LET end == SelectInSeq(ascii, LAMBDA c : c = Pad) IN
  IF end = 0 THEN ascii ELSE SubSeq(ascii, 1, end - 1)

\* The digits among the characters, of either alphabet.
Skimmed(ascii) ==
  LET upto[i \in 0..Len(ascii)] ==
        IF i = 0 THEN <<>>
        ELSE IF ascii[i] \in Digits \cup {UrlSafe} THEN Append(upto[i - 1], ascii[i])
        ELSE upto[i - 1]
  IN upto[Len(ascii)]

\* Buffer.from(_, "base64"): lenient.  It stops at a "=", skips what is no digit,
\* takes either alphabet and drops the bits that do not fill a byte.
FromBase64(ascii) ==
  LET digits == Skimmed(UptoPad(ascii))
  IN Regroup([i \in 1..Len(digits) |-> DigitValue(digits[i])], DigitBits, ByteBits,
             (Len(digits) * DigitBits) \div ByteBits)

\* Buffer.from(_, "hex") of hex digits only
FromHex(ascii) ==
  Regroup([i \in 1..Len(ascii) |-> HexValue(ascii[i])], HexBits, ByteBits,
          (Len(ascii) * HexBits) \div ByteBits)

=============================================================================
