----------------------------- MODULE Conversions -----------------------------
(***************************************************************************)
(* The functions of the program that turn one representation of data into  *)
(* another, as operators, each called once on one of its inputs:           *)
(*   sliceByBytes    src/mcp/tools/common.ts, of get_job_log and           *)
(*                   get_file_content;                                     *)
(*   getFile         src/services/gitlabService.ts, of get_file_content;   *)
(*   sanitizeParams  src/mcp/sanitize.ts, of every audited call;           *)
(*   decodeKey       src/config/index.ts, of the start.                    *)
(***************************************************************************)
EXTENDS Encodings, FiniteSets

CONSTANTS
  MaxChars,      \* bound on the characters of a text
  MaxRaw,        \* bound on the bytes of a file
  FILE_MAX_BYTES,
  KeyLen,        \* bytes of an encryption key (32)
  Keys, Secrets  \* keys of objects, and those that SECRET_KEY_RE matches

ASSUME ConversionsAssumption ==
  /\ {MaxChars, MaxRaw, FILE_MAX_BYTES, KeyLen} \subseteq Nat
  /\ FILE_MAX_BYTES % 4 = 0 /\ KeyLen % 3 = 2 /\ Secrets \subseteq Keys

VARIABLES call, result      \* the call made, and what it returned

vars == <<call, result>>

NoCall == [fn |-> "none"]

Init == call = NoCall /\ result = <<>>

Called(fn) == call.fn = fn

Make(input, output) == call' = input /\ result' = output

-----------------------------------------------------------------------------
(* sliceByBytes                                                            *)

Kept(s) == s                                     \* mutant: nothing is stripped

StripFirst(s) == IF s # <<>> /\ s[1] = FFFD THEN Tail(s) ELSE s

StripLast(s) == IF s # <<>> /\ Last(s) = FFFD THEN Front(s) ELSE s

Slice(text, maxBytes, from) ==
  LET buf == Encode(text) IN
  IF Len(buf) <= maxBytes THEN [slice |-> text, truncated |-> FALSE]
  ELSE [slice |-> IF from = "end"
                  THEN StripFirst(Decode(SubSeq(buf, Len(buf) - maxBytes + 1, Len(buf))))
                  ELSE StripLast(Decode(SubSeq(buf, 1, maxBytes))),
        truncated |-> TRUE]

\* A job's log is text that fetch has decoded, and tail_bytes is at least 1.
Chars == {<<1>>, <<2, 0>>, <<3, 0, 0>>, <<4, 0, 0, 0>>, FFFD}

GetJobLog ==
  \E text \in BoundedSeq(Chars, MaxChars), n \in 1..(4 * MaxChars), from \in {"start", "end"} :
    Make([fn |-> "sliceByBytes", text |-> text, maxBytes |-> n, from |-> from],
         Slice(text, n, from))

-----------------------------------------------------------------------------
(* getFile, and the slice get_file_content makes of it                     *)

NoMarks(raw, text) == FFFD \notin {text[i] : i \in DOMAIN text}    \* mutant: looks for U+FFFD

IsText(raw, text) == Encode(text) = raw

File(raw) ==
  LET text == Decode(raw)
      isText == IsText(raw, text)
      ascii == Base64(raw)
  IN [encoding |-> IF isText THEN "text" ELSE "base64",
      content |-> IF isText THEN text ELSE [i \in DOMAIN ascii |-> <<ascii[i]>>]]

FileContent(raw) ==
  LET file == File(raw)
      cut == Slice(file.content, FILE_MAX_BYTES, "start")
  IN [encoding |-> file.encoding, content |-> cut.slice, truncated |-> cut.truncated]

GetFileContent ==
  \E raw \in BoundedSeq(0..7, MaxRaw) : Make([fn |-> "getFile", raw |-> raw], FileContent(raw))

-----------------------------------------------------------------------------
(* sanitizeParams.  Params are JSON: a leaf, an array or an object.  Leaves *)
(* are what redactValue tells apart: a string that is a token, one with a  *)
(* token inside it, and the others with numbers, booleans and null.        *)

Leaf(x) == [leaf |-> x]
Array(items) == [items |-> items]
Object(fields) == [fields |-> fields]

Redacted == Leaf("[REDACTED]")

RedactValue(x) ==
  IF x = "token" THEN Redacted
  ELSE IF x = "text with token" THEN Leaf("text with [REDACTED]") ELSE Leaf(x)

Leaves == {Leaf("token"), Leaf("text with token"), Leaf("other")}

Objects(S) == UNION {{Object(f) : f \in [D -> S]} : D \in SUBSET Keys}

Nested(L) == L \cup {Array(s) : s \in BoundedSeq(L, 2)} \cup Objects(L)

\* What params are made of leaves, and all that is inside them.
Trees(L) == Objects(Nested(L)) \cup Nested(L)

UnseenItems(sanitize, items) == items              \* mutant: arrays are not entered

SanitizedItems(sanitize, items) == [i \in DOMAIN items |-> sanitize[items[i]]]

SanitizeParams[v \in Trees(Leaves)] ==
  IF "leaf" \in DOMAIN v THEN RedactValue(v.leaf)
  ELSE IF "items" \in DOMAIN v THEN Array(SanitizedItems(SanitizeParams, v.items))
  ELSE Object([k \in DOMAIN v.fields |->
                 IF k \in Secrets THEN Redacted ELSE SanitizeParams[v.fields[k]]])

\* registerTool's callback sanitises the params of a call.
RegisterTool ==
  \E args \in Objects(Nested(Leaves)) : Make([fn |-> "sanitizeParams", args |-> args], SanitizeParams[args])

-----------------------------------------------------------------------------
(* decodeKey: the key's bytes, or <<>> when it throws                      *)

Thrown == <<>>

Unpadded(ascii) ==
  SubSeq(ascii, 1, SelectLastInSeq(ascii, LAMBDA c : c # Pad))

IsHex(raw) == raw \in [1..(2 * KeyLen) -> HexDigits]

Sized(raw, buf) == Len(buf) = KeyLen             \* mutant: the length alone

RoundTrips(raw, buf) == Len(buf) = KeyLen /\ Unpadded(Base64(buf)) = Unpadded(raw)

DecodeKey(raw) ==
  IF IsHex(raw) THEN FromHex(raw)
  ELSE LET buf == FromBase64(raw) IN IF RoundTrips(raw, buf) THEN buf ELSE Thrown

\* ENCRYPTION_KEY is not empty; the longest goes one beyond a padded or a hex key.
LoadConfig ==
  \E n \in 1..(2 * KeyLen + 1) : \E raw \in [1..n -> 16..Pad] :
    Make([fn |-> "decodeKey", raw |-> raw], DecodeKey(raw))

Next ==
  /\ call = NoCall
  /\ GetJobLog \/ GetFileContent \/ RegisterTool \/ LoadConfig

Spec == Init /\ [][Next]_vars

-----------------------------------------------------------------------------
(* Properties                                                              *)

\* s is the longest head of t within n bytes.
Longest(s, t, n) ==
  /\ IsPrefix(s, t) /\ ByteLength(s) <= n
  /\ s # t => ByteLength(s) + Len(t[Len(s) + 1]) > n

\* sliceByBytes, of a text without U+FFFD: a head is the longest prefix of whole
\* characters within the limit.  SliceExact says the same of every text.
HeadExact ==
  Called("sliceByBytes") =>
    (call.from = "start" /\ FFFD \notin ToSet(call.text) =>
       Longest(result.slice, call.text, call.maxBytes))

\* sliceByBytes, of a text without characters wider than two bytes, of which a cut
\* leaves one byte: a tail (a job's log by default) is the longest suffix of whole
\* characters within the limit.  SliceExact says the same of every text.
TailExact ==
  Called("sliceByBytes") =>
    (call.from = "end" /\ (\A x \in ToSet(call.text) : Len(x) <= 2) =>
       Longest(Reverse(result.slice), Reverse(call.text), call.maxBytes))

\* common.ts:36-39 and 53-54, of every text: the character split at the cut goes,
\* with "exactly that one boundary char", so that no "stray replacement glyph" is
\* emitted, and a U+FFFD "already in the source must survive".
SliceExact ==
  Called("sliceByBytes") =>
    IF call.from = "start"
    THEN Longest(result.slice, call.text, call.maxBytes)
    ELSE Longest(Reverse(result.slice), Reverse(call.text), call.maxBytes)

\* Every lead has the bytes it announces, every continuation byte a lead.
WellFormed(raw) ==
  /\ \A i \in DOMAIN raw : raw[i] \in Leads =>
       /\ i + Width(raw[i]) - 1 <= Len(raw)
       /\ \A j \in (i + 1)..(i + Width(raw[i]) - 1) : raw[j] \in Continuations
       /\ raw[i] = 7 => raw[i + 1] = 5
  /\ \A i \in DOMAIN raw :
       \/ raw[i] = 1 \/ raw[i] \in Leads
       \/ /\ raw[i] \in Continuations
          /\ \E j \in 1..(i - 1) : raw[j] \in Leads /\ i - j < Width(raw[j])

\* getFile and get_file_content: a file is called text exactly when it is UTF-8, and
\* either way what the agent decodes is the file's bytes, or a prefix of them when
\* the answer says it is truncated; it never sees a byte changed.
FileExact ==
  Called("getFile") =>
    LET bytes == IF result.encoding = "text" THEN Encode(result.content)
                 ELSE FromBase64(Encode(result.content))
    IN /\ result.encoding = "text" <=> WellFormed(call.raw)
       /\ IsPrefix(bytes, call.raw)
       /\ ~result.truncated => bytes = call.raw

Below(step, paths) == {[path |-> <<step>> \o p.path, leaf |-> p.leaf] : p \in paths}

\* The leaves of a tree, each with the way to it; an empty array or object is one.
Paths[v \in Trees({RedactValue(x.leaf) : x \in Leaves} \cup Leaves)] ==
  IF "leaf" \in DOMAIN v THEN {[path |-> <<>>, leaf |-> v.leaf]}
  ELSE IF "items" \in DOMAIN v
  THEN IF v.items = <<>> THEN {[path |-> <<>>, leaf |-> "[]"]}
       ELSE UNION {Below([index |-> i], Paths[v.items[i]]) : i \in DOMAIN v.items}
  ELSE IF DOMAIN v.fields = {} THEN {[path |-> <<>>, leaf |-> "{}"]}
       ELSE UNION {Below([key |-> k], Paths[v.fields[k]]) : k \in DOMAIN v.fields}

SecretAt(p) == {i \in DOMAIN p.path : p.path[i] \in [key : Secrets]}

\* sanitizeParams: what the audit keeps of a call's params is cut below the first
\* secret-like key on every path, has no token in any other place, and is otherwise
\* the params as they were, whatever the nesting.
Sanitised ==
  Called("sanitizeParams") =>
    Paths[result] =
      {IF SecretAt(p) # {}
       THEN [path |-> SubSeq(p.path, 1, CHOOSE i \in SecretAt(p) : \A j \in SecretAt(p) : i <= j),
             leaf |-> "[REDACTED]"]
       ELSE [path |-> p.path, leaf |-> RedactValue(p.leaf).leaf] : p \in Paths[call.args]}

Values(ascii, Value(_)) == [i \in DOMAIN ascii |-> Value(ascii[i])]

\* decodeKey: what is written in hex is a key, and so is strict base64: the digits
\* of KeyLen bytes, no spare bit set, and the "=" they call for.  Nothing is a key
\* that is not, but for its trailing "=", base64 of that kind; and the bytes of a
\* key are the number that was written.
KeyExact ==
  Called("decodeKey") =>
    LET body == Unpadded(call.raw)
        spare == Pow2((DigitBits - ((KeyLen * ByteBits) % DigitBits)) % DigitBits)
        digits == (KeyLen * ByteBits + DigitBits - 1) \div DigitBits
        pads == (4 - (digits % 4)) % 4
        canonical == /\ body \in [1..digits -> Digits]
                     /\ Number(Values(body, DigitValue), Pow2(DigitBits)) % spare = 0
    IN IF IsHex(call.raw)
       THEN /\ Len(result) = KeyLen
            /\ Number(result, Pow2(ByteBits)) = Number(Values(call.raw, HexValue), Pow2(HexBits))
       ELSE /\ canonical /\ Len(call.raw) = digits + pads => result # Thrown
            /\ result # Thrown =>
                 /\ canonical /\ Len(result) = KeyLen
                 /\ spare * Number(result, Pow2(ByteBits)) =
                      Number(Values(body, DigitValue), Pow2(DigitBits))

=============================================================================
