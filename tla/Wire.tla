-------------------------------- MODULE Wire --------------------------------
(***************************************************************************)
(* The protobuf runtime the generated classes of proto/gen call: what goes *)
(* over the wire and how one field of it is written, measured and read.    *)
(* Everything here is external to the repository.                          *)
(*                                                                         *)
(* A wire is a sequence of fields.  A field keeps its tag (8 * number +    *)
(* wire type), and, for a length-delimited one, the length written before  *)
(* the payload: the runtime takes it from ByteSizeLong, so nothing but     *)
(* that function makes it agree with the bytes that follow.                *)
(*                                                                         *)
(* A string is a sequence of bytes; a uint32_t is the int of the same      *)
(* bits, so that the sign-extended char 0x80 is -128; a float is its bits. *)
(***************************************************************************)
EXTENDS Integers, Sequences, SequencesExt

\* The field a cut leaves at the end: a length prefix with too little after it.
Blank == [tag |-> 0, n |-> 0, s |-> <<>>, ns |-> <<>>, sub |-> <<>>, len |-> 0]

Varint(tag, n)        == [Blank EXCEPT !.tag = tag, !.n = n]
Fixed32(tag, bits)    == [Blank EXCEPT !.tag = tag, !.n = bits]
String(tag, s)        == [Blank EXCEPT !.tag = tag, !.s = s, !.len = Len(s)]
Packed(tag, ns, len)  == [Blank EXCEPT !.tag = tag, !.ns = ns, !.len = len]
Message(tag, w, len)  == [Blank EXCEPT !.tag = tag, !.sub = w, !.len = len]

-----------------------------------------------------------------------------
\* Sizes, in bytes.  Every tag of these classes takes one byte.

VarintSize(n) ==
  IF n < 0 THEN 5
  ELSE 1 + Cardinality({b \in {128, 128 * 128, 128 * 128 * 128} : n >= b})

Total(ns) ==
  LET upto[i \in 0..Len(ns)] == IF i = 0 THEN 0 ELSE upto[i - 1] + ns[i]
  IN upto[Len(ns)]

SumOf(op(_), seq) == Total([i \in 1..Len(seq) |-> op(seq[i])])

Delimited(len)     == VarintSize(len) + len
StringSize(s)      == Delimited(Len(s))
MessageSize(size)  == Delimited(size)
UInt32Size(ns)     == SumOf(VarintSize, ns)
UInt32SizePlusOne(n) == 1 + VarintSize(n)

IsDelimited(f) == f.tag % 8 = 2
FieldSize(f) ==
  CASE f.tag % 8 = 0 -> 1 + VarintSize(f.n)
    [] f.tag % 8 = 5 -> 1 + 4
    [] OTHER         -> 1 + Delimited(f.len)
WireSize(w) == SumOf(FieldSize, w)

\* The bytes that follow the length of a length-delimited field.
Payload(f) == Len(f.s) + UInt32Size(f.ns) + WireSize(f.sub)
Whole(f)   == IsDelimited(f) => f.len = Payload(f)

\* A single byte above 0x7f is never UTF-8; the strings here hold no longer
\* sequences.
VerifyUTF8(s) == \A i \in 1..Len(s) : s[i] < 128

-----------------------------------------------------------------------------
\* Writing: a field that has its default value is left out.

VarintUnlessZero(tag, n)     == IF n = 0 THEN <<>> ELSE <<Varint(tag, n)>>
Fixed32UnlessZero(tag, bits) == IF bits = 0 THEN <<>> ELSE <<Fixed32(tag, bits)>>
StringUnlessEmpty(tag, s)    == IF s = <<>> THEN <<>> ELSE <<String(tag, s)>>
Each(write(_), seq)          == [i \in 1..Len(seq) |-> write(seq[i])]

-----------------------------------------------------------------------------
(***************************************************************************)
(* Reading: a parse is the message as far as it was read and whether the   *)
(* reading goes on.  What follows a failure is not read.  The field that   *)
(* fails leaves the rest of its message as it was.                         *)
(***************************************************************************)
Read(m)        == [msg |-> m, ok |-> TRUE]
ReadIf(ok, m)  == [msg |-> m, ok |-> ok]
Unknown(m, f)  == Read([m EXCEPT !.unknown = Append(@, f)])

\* FoldLeft, one step for each field: a wire is read in every transition.
Along(op(_, _), base, seq) ==
  LET upto[i \in 0..Len(seq)] == IF i = 0 THEN base ELSE op(upto[i - 1], seq[i])
  IN upto[Len(seq)]

ParseWith(field(_, _), m, w) ==
  LET next(r, f) ==
        IF ~r.ok THEN r
        ELSE IF ~Whole(f) THEN ReadIf(FALSE, r.msg)
        ELSE field(r.msg, f)
  IN Along(next, Read(m), w)

\* A map entry is a message of its own: key = 1, value = 2, both always written.
WriteEntry(tag, key, value, len) == Message(tag, <<key, value>>, len)
EntrySize(key, value) == FieldSize(key) + FieldSize(value)

\* Inserts the entries of a map over those it has.
MergeMap(map, from) ==
  [k \in DOMAIN map \cup DOMAIN from |-> IF k \in DOMAIN from THEN from[k] ELSE map[k]]

\* The order in which a hash map is written is unspecified; one order stands for all.
Keys(map) == SetToSeq(DOMAIN map)
=============================================================================
