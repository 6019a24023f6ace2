----------------------------- MODULE OTMessages -----------------------------
(***************************************************************************)
(* The generated classes of the transfer: OTServerRequest,                 *)
(* OTServerResponse, OTClientRequest and OTClientResponse, laid out as in  *)
(* PlainMessages.  A repeated message field owns its elements; they are    *)
(* values here.                                                            *)
(***************************************************************************)
EXTENDS PlainMessages

\* A Bytes inside another message: its wire, and the length written before it.
WriteBytes(tag, bytes) == Message(tag, Bytes_Serialize(bytes), Bytes_ByteSizeLong(bytes))
BytesSize(bytes) == MessageSize(Bytes_ByteSizeLong(bytes))
TextSizes(seq) == Len(seq) + SumOf(StringSize, seq)
BytesSizes(seq) == Len(seq) + SumOf(BytesSize, seq)

\* add_bytes filled by string2bytes, the last one removed, or none.
BytesEdits(seq) ==
  {<<>>} \cup {SubSeq(seq, 1, Len(seq) - 1) : last \in DOMAIN seq}
         \cup UNION {Add(seq, string2bytes(s, Bytes_New)) : s \in Texts}

-----------------------------------------------------------------------------
\* OTServerRequest

OTServerRequest_New ==
  [class |-> "OTServerRequest", keys |-> <<>>, bytes |-> <<>>, function |-> <<>>,
   sessionToken |-> 0, k |-> 0, unknown |-> <<>>]

OTServerRequest_Construct(from) ==
  [OTServerRequest_New EXCEPT !.keys = from.keys, !.bytes = from.bytes,
                              !.unknown = from.unknown, !.function = from.function,
                              !.sessionToken = from.sessionToken, !.k = from.k]

OTServerRequest_Clear(m) ==
  [m EXCEPT !.keys = <<>>, !.bytes = <<>>, !.function = <<>>, !.sessionToken = 0, !.k = 0,
            !.unknown = <<>>]

OTServerRequest_Field(m, f) ==
  LET bytes == ParseWith(Bytes_Field, Bytes_New, f.sub)
  IN CASE f.tag = 10 -> ReadIf(VerifyUTF8(f.s), [m EXCEPT !.function = f.s])
       [] f.tag = 16 -> Read([m EXCEPT !.sessionToken = f.n])
       [] f.tag = 24 -> Read([m EXCEPT !.k = f.n])
       [] f.tag = 34 -> ReadIf(VerifyUTF8(f.s), [m EXCEPT !.keys = Append(@, f.s)])
       [] f.tag = 42 -> ReadIf(bytes.ok, [m EXCEPT !.bytes = Append(@, bytes.msg)])
       [] OTHER      -> Unknown(m, f)

OTServerRequest_Serialize(m) ==
  StringUnlessEmpty(10, m.function) \o VarintUnlessZero(16, m.sessionToken)
    \o VarintUnlessZero(24, m.k) \o Each(LAMBDA s : String(34, s), m.keys)
    \o Each(LAMBDA b : WriteBytes(42, b), m.bytes) \o m.unknown

OTServerRequest_ByteSizeLong(m) ==
  LET number(n) == IF n = 0 THEN 0 ELSE UInt32SizePlusOne(n)
  IN TextSizes(m.keys) + BytesSizes(m.bytes)
       + (IF m.function = <<>> THEN 0 ELSE 1 + StringSize(m.function))
       + number(m.sessionToken) + number(m.k) + WireSize(m.unknown)

OTServerRequest_MergeFrom(m, from) ==
  [m EXCEPT !.keys = @ \o from.keys, !.bytes = @ \o from.bytes,
            !.function = Unless(<<>>, from.function, @),
            !.sessionToken = Unless(0, from.sessionToken, @), !.k = Unless(0, from.k, @),
            !.unknown = @ \o from.unknown]

OTServerRequest_CopyFrom(m, from) == OTServerRequest_MergeFrom(OTServerRequest_Clear(m), from)

OTServerRequest_Swap(m, other) ==
  [m EXCEPT !.unknown = other.unknown, !.keys = other.keys, !.bytes = other.bytes,
            !.function = other.function, !.sessionToken = other.sessionToken, !.k = other.k]

OTServerRequest_Accessors(m) ==
  {[m EXCEPT !.function = s] : s \in Texts \cup {<<>>}}
    \cup {[m EXCEPT !.sessionToken = v] : v \in Numbers \cup {0}}
    \cup {[m EXCEPT !.k = v] : v \in Numbers \cup {0}}
    \cup {[m EXCEPT !.keys = seq] : seq \in Edits(m.keys, Texts)}
    \cup {[m EXCEPT !.bytes = seq] : seq \in BytesEdits(m.bytes)}

-----------------------------------------------------------------------------
\* OTServerResponse

OTServerResponse_New ==
  [class |-> "OTServerResponse", values |-> <<>>, bytes |-> <<>>, function |-> <<>>,
   unknown |-> <<>>]

OTServerResponse_Construct(from) ==
  [OTServerResponse_New EXCEPT !.values = from.values, !.bytes = from.bytes,
                               !.unknown = from.unknown, !.function = from.function]

OTServerResponse_Clear(m) ==
  [m EXCEPT !.values = <<>>, !.bytes = <<>>, !.function = <<>>, !.unknown = <<>>]

OTServerResponse_Field(m, f) ==
  LET bytes == ParseWith(Bytes_Field, Bytes_New, f.sub)
  IN CASE f.tag = 10 -> ReadIf(VerifyUTF8(f.s), [m EXCEPT !.function = f.s])
       [] f.tag = 18 -> ReadIf(VerifyUTF8(f.s), [m EXCEPT !.values = Append(@, f.s)])
       [] f.tag = 26 -> ReadIf(bytes.ok, [m EXCEPT !.bytes = Append(@, bytes.msg)])
       [] OTHER      -> Unknown(m, f)

OTServerResponse_Serialize(m) ==
  StringUnlessEmpty(10, m.function) \o Each(LAMBDA s : String(18, s), m.values)
    \o Each(LAMBDA b : WriteBytes(26, b), m.bytes) \o m.unknown

\* Variant: the elements of values are counted without their tags.
OTServerResponse_ByteSizeShort(m) ==
  SumOf(StringSize, m.values) + BytesSizes(m.bytes)
    + (IF m.function = <<>> THEN 0 ELSE 1 + StringSize(m.function)) + WireSize(m.unknown)

OTServerResponse_ByteSizeLong(m) ==
  TextSizes(m.values) + BytesSizes(m.bytes)
    + (IF m.function = <<>> THEN 0 ELSE 1 + StringSize(m.function)) + WireSize(m.unknown)

OTServerResponse_MergeFrom(m, from) ==
  [m EXCEPT !.values = @ \o from.values, !.bytes = @ \o from.bytes,
            !.function = Unless(<<>>, from.function, @), !.unknown = @ \o from.unknown]

OTServerResponse_CopyFrom(m, from) ==
  OTServerResponse_MergeFrom(OTServerResponse_Clear(m), from)

OTServerResponse_Swap(m, other) ==
  [m EXCEPT !.unknown = other.unknown, !.values = other.values, !.bytes = other.bytes,
            !.function = other.function]

OTServerResponse_Accessors(m) ==
  {[m EXCEPT !.function = s] : s \in Texts \cup {<<>>}}
    \cup {[m EXCEPT !.values = seq] : seq \in Edits(m.values, Texts)}
    \cup {[m EXCEPT !.bytes = seq] : seq \in BytesEdits(m.bytes)}

-----------------------------------------------------------------------------
\* OTClientRequest

OTClientRequest_New ==
  [class |-> "OTClientRequest", uinWithLabelMap |-> <<>>, function |-> <<>>, unknown |-> <<>>]

OTClientRequest_Construct(from) ==
  [OTClientRequest_New EXCEPT !.unknown = from.unknown,
                              !.uinWithLabelMap = MergeMap(@, from.uinWithLabelMap),
                              !.function = from.function]

OTClientRequest_Clear(m) ==
  [m EXCEPT !.uinWithLabelMap = <<>>, !.function = <<>>, !.unknown = <<>>]

NumberEntry(entry) == [k \in {entry[1].n} |-> entry[2].n]
WriteNumbers(tag, k, v) ==
  LET key == Varint(8, k)
      value == Varint(16, v)
  IN WriteEntry(tag, key, value, EntrySize(key, value))
NumberEntrySize(k, v) == MessageSize(EntrySize(Varint(8, k), Varint(16, v)))

OTClientRequest_Field(m, f) ==
  CASE f.tag = 10 -> ReadIf(VerifyUTF8(f.s), [m EXCEPT !.function = f.s])
    [] f.tag = 18 -> Read([m EXCEPT !.uinWithLabelMap = MergeMap(@, NumberEntry(f.sub))])
    [] OTHER      -> Unknown(m, f)

OTClientRequest_Serialize(m) ==
  LET map == m.uinWithLabelMap
  IN StringUnlessEmpty(10, m.function)
       \o Each(LAMBDA k : WriteNumbers(18, k, map[k]), Keys(map)) \o m.unknown

OTClientRequest_ByteSizeLong(m) ==
  LET map == m.uinWithLabelMap
  IN Len(Keys(map)) + SumOf(LAMBDA k : NumberEntrySize(k, map[k]), Keys(map))
       + (IF m.function = <<>> THEN 0 ELSE 1 + StringSize(m.function)) + WireSize(m.unknown)

OTClientRequest_MergeFrom(m, from) ==
  [m EXCEPT !.uinWithLabelMap = MergeMap(@, from.uinWithLabelMap),
            !.function = Unless(<<>>, from.function, @), !.unknown = @ \o from.unknown]

OTClientRequest_CopyFrom(m, from) == OTClientRequest_MergeFrom(OTClientRequest_Clear(m), from)

OTClientRequest_Swap(m, other) ==
  [m EXCEPT !.unknown = other.unknown, !.uinWithLabelMap = other.uinWithLabelMap,
            !.function = other.function]

OTClientRequest_Accessors(m) ==
  {[m EXCEPT !.function = s] : s \in Texts \cup {<<>>}}
    \cup {[m EXCEPT !.uinWithLabelMap = map] :
             map \in MapEdits(m.uinWithLabelMap, Numbers, Numbers)}

-----------------------------------------------------------------------------
\* OTClientResponse

OTClientResponse_New ==
  [class |-> "OTClientResponse", resMap |-> <<>>, function |-> <<>>, reqTimeMillis |-> 0,
   unknown |-> <<>>]

OTClientResponse_Construct(from) ==
  [OTClientResponse_New EXCEPT !.unknown = from.unknown, !.resMap = MergeMap(@, from.resMap),
                               !.function = from.function,
                               !.reqTimeMillis = from.reqTimeMillis]

OTClientResponse_Clear(m) ==
  [m EXCEPT !.resMap = <<>>, !.function = <<>>, !.reqTimeMillis = 0, !.unknown = <<>>]

\* ValidateKey and ValidateValue.
OTClientResponse_ResMapEntry_Valid(entry) == \A i \in DOMAIN entry : VerifyUTF8(entry[i].s)

OTClientResponse_Field(m, f) ==
  CASE f.tag = 10 -> ReadIf(VerifyUTF8(f.s), [m EXCEPT !.function = f.s])
    [] f.tag = 21 -> Read([m EXCEPT !.reqTimeMillis = f.n])
    [] f.tag = 26 -> IF OTClientResponse_ResMapEntry_Valid(f.sub)
                     THEN Read([m EXCEPT !.resMap = MergeMap(@, TextEntry(f.sub))])
                     ELSE ReadIf(FALSE, m)
    [] OTHER      -> Unknown(m, f)

OTClientResponse_Serialize(m) ==
  StringUnlessEmpty(10, m.function) \o Fixed32UnlessZero(21, m.reqTimeMillis)
    \o Each(LAMBDA k : WriteText(26, k, m.resMap[k]), Keys(m.resMap)) \o m.unknown

OTClientResponse_ByteSizeLong(m) ==
  Len(Keys(m.resMap)) + SumOf(LAMBDA k : TextEntrySize(k, m.resMap[k]), Keys(m.resMap))
    + (IF m.function = <<>> THEN 0 ELSE 1 + StringSize(m.function))
    + (IF m.reqTimeMillis = 0 THEN 0 ELSE 1 + 4) + WireSize(m.unknown)

OTClientResponse_MergeFrom(m, from) ==
  [m EXCEPT !.resMap = MergeMap(@, from.resMap), !.function = Unless(<<>>, from.function, @),
            !.reqTimeMillis = Unless(0, from.reqTimeMillis, @), !.unknown = @ \o from.unknown]

OTClientResponse_CopyFrom(m, from) ==
  OTClientResponse_MergeFrom(OTClientResponse_Clear(m), from)

OTClientResponse_Swap(m, other) ==
  [m EXCEPT !.unknown = other.unknown, !.resMap = other.resMap, !.function = other.function,
            !.reqTimeMillis = other.reqTimeMillis]

OTClientResponse_Accessors(m) ==
  {[m EXCEPT !.function = s] : s \in Texts \cup {<<>>}}
    \cup {[m EXCEPT !.reqTimeMillis = v] : v \in Numbers \cup {0}}
    \cup {[m EXCEPT !.resMap = map] : map \in MapEdits(m.resMap, Texts, Texts)}

-----------------------------------------------------------------------------
\* The virtual _InternalParse: one turn of the loop of the message's class.
Field(m, f) ==
  CASE m.class = "Response"         -> Response_Field(m, f)
    [] m.class = "Error"            -> Error_Field(m, f)
    [] m.class = "OTServiceData"    -> OTServiceData_Field(m, f)
    [] m.class = "Bytes"            -> Bytes_Field(m, f)
    [] m.class = "Fields"           -> Fields_Field(m, f)
    [] m.class = "OTServerRequest"  -> OTServerRequest_Field(m, f)
    [] m.class = "OTServerResponse" -> OTServerResponse_Field(m, f)
    [] m.class = "OTClientRequest"  -> OTClientRequest_Field(m, f)
    [] m.class = "OTClientResponse" -> OTClientResponse_Field(m, f)

Parsed(m, w) == ParseWith(Field, m, w)
=============================================================================
