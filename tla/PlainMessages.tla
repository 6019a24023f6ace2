---------------------------- MODULE PlainMessages ----------------------------
(***************************************************************************)
(* The generated classes without submessages: Response, Error,             *)
(* OTServiceData, Bytes and Fields (proto/gen).  A message is a record of  *)
(* its members; of each class there are                                    *)
(*                                                                         *)
(*   C_New         a message just constructed                              *)
(*   C_Construct   the copy constructor                                    *)
(*   C_Clear, C_MergeFrom, C_CopyFrom                                      *)
(*   C_Swap        InternalSwap: what this and the other hold then         *)
(*   C_Field       one turn of the loop of _InternalParse                  *)
(*   C_Serialize   _InternalSerialize, and C_ByteSizeLong                  *)
(*   C_Accessors   the messages one call of an accessor away               *)
(*                                                                         *)
(* No arena is used anywhere in the repository: two messages always have   *)
(* the same owning arena, none.                                            *)
(***************************************************************************)
EXTENDS Wire

CONSTANTS Texts,    \* strings an accessor is given, none empty
          Numbers,  \* uint32_t values, none zero
          MaxItems  \* accessors add to a repeated field or a map up to here

ASSUME TextsAssumption    == Texts \subseteq Seq(Int) \ {<<>>}
ASSUME NumbersAssumption  == Numbers \subseteq Int \ {0}
ASSUME MaxItemsAssumption == MaxItems \in Nat

Add(seq, item) == IF Len(seq) < MaxItems THEN {Append(seq, item)} ELSE {}

\* Accessors of a repeated field: add, set one, remove the last, clear.
Edits(seq, items) ==
  {<<>>} \cup {SubSeq(seq, 1, Len(seq) - 1) : last \in DOMAIN seq}
         \cup (UNION {Add(seq, item) : item \in items})
         \cup {[seq EXCEPT ![i] = item] : i \in DOMAIN seq, item \in items}

\* A map with one entry; a map without one.
Entry(k, v) == [x \in {k} |-> v]
Erased(map, k) == [x \in DOMAIN map \ {k} |-> map[x]]

\* Accessors of a map: insert leaves a key that is there alone, [] does not.
MapEdits(map, keys, values) ==
  {<<>>} \cup {Erased(map, k) : k \in DOMAIN map}
         \cup {MergeMap(Entry(k, v), map) : k \in keys, v \in values}
         \cup {MergeMap(map, Entry(k, v)) : k \in keys, v \in values}

Unless(default, value, old) == IF value = default THEN old ELSE value

-----------------------------------------------------------------------------
\* Response

Response_New ==
  [class |-> "Response", message |-> <<>>, data |-> <<>>, code |-> 0, reqTimeMillis |-> 0,
   unknown |-> <<>>]

Response_Construct(from) ==
  [Response_New EXCEPT !.unknown = from.unknown, !.message = from.message, !.data = from.data,
                       !.code = from.code, !.reqTimeMillis = from.reqTimeMillis]

Response_Clear(m) ==
  [m EXCEPT !.message = <<>>, !.data = <<>>, !.code = 0, !.reqTimeMillis = 0, !.unknown = <<>>]

Response_Field(m, f) ==
  CASE f.tag = 8  -> Read([m EXCEPT !.code = f.n])
    [] f.tag = 18 -> ReadIf(VerifyUTF8(f.s), [m EXCEPT !.message = f.s])
    [] f.tag = 29 -> Read([m EXCEPT !.reqTimeMillis = f.n])
    [] f.tag = 34 -> ReadIf(VerifyUTF8(f.s), [m EXCEPT !.data = f.s])
    [] OTHER      -> Unknown(m, f)

Response_Serialize(m) ==
  VarintUnlessZero(8, m.code) \o StringUnlessEmpty(18, m.message)
    \o Fixed32UnlessZero(29, m.reqTimeMillis) \o StringUnlessEmpty(34, m.data) \o m.unknown

Response_ByteSizeLong(m) ==
  LET text(s) == IF s = <<>> THEN 0 ELSE 1 + StringSize(s)
  IN text(m.message) + text(m.data)
       + (IF m.code = 0 THEN 0 ELSE UInt32SizePlusOne(m.code))
       + (IF m.reqTimeMillis = 0 THEN 0 ELSE 1 + 4) + WireSize(m.unknown)

\* Variant: every member is taken, set or not.
Response_MergeFromAll(m, from) ==
  [m EXCEPT !.message = from.message, !.data = from.data, !.code = from.code,
            !.reqTimeMillis = from.reqTimeMillis, !.unknown = @ \o from.unknown]

Response_MergeFrom(m, from) ==
  [m EXCEPT !.message = Unless(<<>>, from.message, @), !.data = Unless(<<>>, from.data, @),
            !.code = Unless(0, from.code, @),
            !.reqTimeMillis = Unless(0, from.reqTimeMillis, @),
            !.unknown = @ \o from.unknown]

Response_CopyFrom(m, from) == Response_MergeFrom(Response_Clear(m), from)

Response_Swap(m, other) ==
  [m EXCEPT !.unknown = other.unknown, !.message = other.message, !.data = other.data,
            !.code = other.code, !.reqTimeMillis = other.reqTimeMillis]

Response_Accessors(m) ==
  {[m EXCEPT !.code = v] : v \in Numbers \cup {0}}
    \cup {[m EXCEPT !.message = s] : s \in Texts \cup {<<>>}}
    \cup {[m EXCEPT !.reqTimeMillis = v] : v \in Numbers \cup {0}}
    \cup {[m EXCEPT !.data = s] : s \in Texts \cup {<<>>}}

-----------------------------------------------------------------------------
\* Error

Error_New == [class |-> "Error", message |-> <<>>, code |-> 0, unknown |-> <<>>]

Error_Construct(from) ==
  [Error_New EXCEPT !.unknown = from.unknown, !.message = from.message, !.code = from.code]

Error_Clear(m) == [m EXCEPT !.message = <<>>, !.code = 0, !.unknown = <<>>]

Error_Field(m, f) ==
  CASE f.tag = 8  -> Read([m EXCEPT !.code = f.n])
    [] f.tag = 18 -> ReadIf(VerifyUTF8(f.s), [m EXCEPT !.message = f.s])
    [] OTHER      -> Unknown(m, f)

Error_Serialize(m) ==
  VarintUnlessZero(8, m.code) \o StringUnlessEmpty(18, m.message) \o m.unknown

Error_ByteSizeLong(m) ==
  (IF m.message = <<>> THEN 0 ELSE 1 + StringSize(m.message))
    + (IF m.code = 0 THEN 0 ELSE UInt32SizePlusOne(m.code)) + WireSize(m.unknown)

Error_MergeFrom(m, from) ==
  [m EXCEPT !.message = Unless(<<>>, from.message, @), !.code = Unless(0, from.code, @),
            !.unknown = @ \o from.unknown]

Error_CopyFrom(m, from) == Error_MergeFrom(Error_Clear(m), from)

Error_Swap(m, other) ==
  [m EXCEPT !.unknown = other.unknown, !.message = other.message, !.code = other.code]

Error_Accessors(m) ==
  {[m EXCEPT !.code = v] : v \in Numbers \cup {0}}
    \cup {[m EXCEPT !.message = s] : s \in Texts \cup {<<>>}}

-----------------------------------------------------------------------------
\* OTServiceData

OTServiceData_New == [class |-> "OTServiceData", value |-> <<>>, unknown |-> <<>>]

OTServiceData_Construct(from) ==
  [OTServiceData_New EXCEPT !.unknown = from.unknown, !.value = from.value]

OTServiceData_Clear(m) == [m EXCEPT !.value = <<>>, !.unknown = <<>>]

OTServiceData_Field(m, f) ==
  IF f.tag = 10 THEN ReadIf(VerifyUTF8(f.s), [m EXCEPT !.value = f.s]) ELSE Unknown(m, f)

OTServiceData_Serialize(m) == StringUnlessEmpty(10, m.value) \o m.unknown

OTServiceData_ByteSizeLong(m) ==
  (IF m.value = <<>> THEN 0 ELSE 1 + StringSize(m.value)) + WireSize(m.unknown)

OTServiceData_MergeFrom(m, from) ==
  [m EXCEPT !.value = Unless(<<>>, from.value, @), !.unknown = @ \o from.unknown]

OTServiceData_CopyFrom(m, from) == OTServiceData_MergeFrom(OTServiceData_Clear(m), from)

OTServiceData_Swap(m, other) == [m EXCEPT !.unknown = other.unknown, !.value = other.value]

OTServiceData_Accessors(m) == {[m EXCEPT !.value = s] : s \in Texts \cup {<<>>}}

-----------------------------------------------------------------------------
\* Bytes

Bytes_New == [class |-> "Bytes", bts |-> <<>>, unknown |-> <<>>]

Bytes_Construct(from) == [Bytes_New EXCEPT !.bts = from.bts, !.unknown = from.unknown]

Bytes_Clear(m) == [m EXCEPT !.bts = <<>>, !.unknown = <<>>]

\* Packed, as it is written, or one number a field.
Bytes_Field(m, f) ==
  CASE f.tag = 10 -> Read([m EXCEPT !.bts = @ \o f.ns])
    [] f.tag = 8  -> Read([m EXCEPT !.bts = Append(@, f.n)])
    [] OTHER      -> Unknown(m, f)

\* The length is the one ByteSizeLong left in _bts_cached_byte_size_.
Bytes_Serialize(m) ==
  (IF UInt32Size(m.bts) > 0 THEN <<Packed(10, m.bts, UInt32Size(m.bts))>> ELSE <<>>) \o m.unknown

Bytes_ByteSizeLong(m) ==
  LET data_size == UInt32Size(m.bts)
  IN (IF data_size > 0 THEN 1 + VarintSize(data_size) ELSE 0) + data_size + WireSize(m.unknown)

Bytes_MergeFrom(m, from) == [m EXCEPT !.bts = @ \o from.bts, !.unknown = @ \o from.unknown]

Bytes_CopyFrom(m, from) == Bytes_MergeFrom(Bytes_Clear(m), from)

Bytes_Swap(m, other) == [m EXCEPT !.unknown = other.unknown, !.bts = other.bts]

Bytes_Accessors(m) == {[m EXCEPT !.bts = ns] : ns \in Edits(m.bts, Numbers)}

\* char is signed: a byte above 0x7f becomes a number of five bytes, and back.
string2bytes(s, bytes) ==
  [bytes EXCEPT !.bts = @ \o [i \in 1..Len(s) |-> IF s[i] > 127 THEN s[i] - 256 ELSE s[i]]]

bytes2string(bytes, s) == s \o [i \in 1..Len(bytes.bts) |-> bytes.bts[i] % 256]

-----------------------------------------------------------------------------
\* Fields

Fields_New == [class |-> "Fields", msg |-> <<>>, unknown |-> <<>>]

Fields_Construct(from) ==
  [Fields_New EXCEPT !.unknown = from.unknown, !.msg = MergeMap(@, from.msg)]

Fields_Clear(m) == [m EXCEPT !.msg = <<>>, !.unknown = <<>>]

\* ValidateKey and ValidateValue of the map entries of strings.
Fields_MsgEntry_Valid(entry) == \A i \in DOMAIN entry : VerifyUTF8(entry[i].s)

\* What the entry, a wire of its own, puts into the map.
TextEntry(entry) == [k \in {entry[1].s} |-> entry[2].s]
WriteText(tag, k, v) ==
  LET key == String(10, k)
      value == String(18, v)
  IN WriteEntry(tag, key, value, EntrySize(key, value))
TextEntrySize(k, v) == MessageSize(EntrySize(String(10, k), String(18, v)))

Fields_Field(m, f) ==
  IF f.tag = 10
  THEN IF Fields_MsgEntry_Valid(f.sub)
       THEN Read([m EXCEPT !.msg = MergeMap(@, TextEntry(f.sub))])
       ELSE ReadIf(FALSE, m)
  ELSE Unknown(m, f)

Fields_Serialize(m) ==
  Each(LAMBDA k : WriteText(10, k, m.msg[k]), Keys(m.msg)) \o m.unknown

Fields_ByteSizeLong(m) ==
  Len(Keys(m.msg)) + SumOf(LAMBDA k : TextEntrySize(k, m.msg[k]), Keys(m.msg))
    + WireSize(m.unknown)

Fields_MergeFrom(m, from) ==
  [m EXCEPT !.msg = MergeMap(@, from.msg), !.unknown = @ \o from.unknown]

Fields_CopyFrom(m, from) == Fields_MergeFrom(Fields_Clear(m), from)

Fields_Swap(m, other) == [m EXCEPT !.unknown = other.unknown, !.msg = other.msg]

Fields_Accessors(m) == {[m EXCEPT !.msg = map] : map \in MapEdits(m.msg, Texts, Texts)}
=============================================================================
