------------------------ MODULE MessageValues_proofs ------------------------
(***************************************************************************)
(* Proofs that the operations of MessageObjects, which work on pointers    *)
(* into a heap, are those of ProtoMessages on the values of the messages,  *)
(* for any texts, numbers, addresses and message class.                    *)
(*                                                                         *)
(* Each operation is followed through the heap to what it makes of the     *)
(* value of its message (Turns), and the rest of the heap is shown to be   *)
(* as it was (Keeps): no two messages share a submessage, by the invariant *)
(* of MessageObjects_proofs.                                               *)
(***************************************************************************)
EXTENDS MessageObjects_proofs

-----------------------------------------------------------------------------
(* The schema, as the abstract specification states it. *)

\* The schema the abstract specification is stated with is the one of TypeOK.
LEMMA SameSchema ==
  /\ Abstract!Schema = P!Schema /\ Abstract!Classes = P!Classes /\ Abstract!None = P!None
  /\ \A c : Abstract!Fields(c) = P!Fields(c) /\ Abstract!Names(c) = P!Names(c)
  /\ \A c, x : Abstract!FieldOf(c, x) = P!FieldOf(c, x)
  /\ \A f : Abstract!IsOptional(f) <=> P!IsOptional(f)
  /\ \A f : Abstract!DefaultOf(f) = P!DefaultOf(f)
  /\ \A c : Abstract!Default(c) = P!Default(c)
<1>1. Abstract!Schema = P!Schema
  BY DEF Abstract!Schema, P!Schema, Abstract!one, P!one, Abstract!repeated, P!repeated, Abstract!map, P!map
<1>2. Abstract!Classes = P!Classes
  BY <1>1 DEF Abstract!Classes, P!Classes
<1>3. Abstract!None = P!None
  BY DEF Abstract!None, P!None
<1>4. ASSUME NEW c PROVE Abstract!Fields(c) = P!Fields(c) /\ Abstract!Names(c) = P!Names(c)
  BY <1>1 DEF Abstract!Fields, P!Fields, Abstract!Names, P!Names, Abstract!ToSet, P!ToSet
<1>5. ASSUME NEW c, NEW x PROVE Abstract!FieldOf(c, x) = P!FieldOf(c, x)
  BY <1>4 DEF Abstract!FieldOf, P!FieldOf
<1>6. ASSUME NEW f PROVE Abstract!IsOptional(f) <=> P!IsOptional(f)
  BY <1>2 DEF Abstract!IsOptional, P!IsOptional, Abstract!IsMessage, P!IsMessage
<1>7. ASSUME NEW f PROVE Abstract!DefaultOf(f) = P!DefaultOf(f)
  BY <1>2, <1>3 DEF Abstract!DefaultOf, P!DefaultOf, Abstract!IsMessage, P!IsMessage
<1>8. ASSUME NEW c PROVE Abstract!Default(c) = P!Default(c)
  <2>1. DOMAIN Abstract!Default(c) = DOMAIN P!Default(c)
    BY <1>4 DEF Abstract!Default, P!Default
  <2>. QED
    BY <1>4, <1>5, <1>7 DEF Abstract!Default, P!Default
<1>. QED
  BY <1>1, <1>2, <1>3, <1>4, <1>5, <1>6, <1>7, <1>8

\* The fields of Response in the schema.
LEMMA ResponseSchema ==
  LET F(x) == Abstract!FieldOf("Response", x)
  IN  /\ Abstract!Names("Response") = {"code", "message", "reqTimeMillis", "data"}
      /\ F("code").label = "one" /\ F("code").type = "uint32"
      /\ F("message").label = "one" /\ F("message").type = "string"
      /\ F("reqTimeMillis").label = "one" /\ F("reqTimeMillis").type = "float"
      /\ F("data").label = "one" /\ F("data").type = "string"
<1>. DEFINE s == P!Schema["Response"]
<1>1. /\ "Response" \in P!Classes /\ DOMAIN s = {1, 2, 3, 4}
      /\ s[1].name = "code" /\ s[1].label = "one" /\ s[1].type = "uint32"
      /\ s[2].name = "message" /\ s[2].label = "one" /\ s[2].type = "string"
      /\ s[3].name = "reqTimeMillis" /\ s[3].label = "one" /\ s[3].type = "float"
      /\ s[4].name = "data" /\ s[4].label = "one" /\ s[4].type = "string"
  BY DEF P!Classes, P!Schema, P!one, P!repeated, P!map
<1>0. P!Fields("Response") = {s[i] : i \in DOMAIN s}
  BY <1>1, FieldsOfSchema
<1>. HIDE DEF s
<1>2. P!Fields("Response") = {s[1], s[2], s[3], s[4]}
  BY <1>0, <1>1
<1>3. P!Names("Response") = {"code", "message", "reqTimeMillis", "data"}
  BY <1>1, <1>2 DEF P!Names
<1>4. P!FieldOf("Response", "code") = s[1] /\ P!FieldOf("Response", "message") = s[2] /\ P!FieldOf("Response", "reqTimeMillis") = s[3] /\ P!FieldOf("Response", "data") = s[4]
  BY <1>1, <1>2 DEF P!FieldOf
<1>. QED
  BY <1>1, <1>3, <1>4, SameSchema

\* The fields of Error in the schema.
LEMMA ErrorSchema ==
  LET F(x) == Abstract!FieldOf("Error", x)
  IN  /\ Abstract!Names("Error") = {"code", "message"}
      /\ F("code").label = "one" /\ F("code").type = "uint32"
      /\ F("message").label = "one" /\ F("message").type = "string"
<1>. DEFINE s == P!Schema["Error"]
<1>1. /\ "Error" \in P!Classes /\ DOMAIN s = {1, 2}
      /\ s[1].name = "code" /\ s[1].label = "one" /\ s[1].type = "uint32"
      /\ s[2].name = "message" /\ s[2].label = "one" /\ s[2].type = "string"
  BY DEF P!Classes, P!Schema, P!one, P!repeated, P!map
<1>0. P!Fields("Error") = {s[i] : i \in DOMAIN s}
  BY <1>1, FieldsOfSchema
<1>. HIDE DEF s
<1>2. P!Fields("Error") = {s[1], s[2]}
  BY <1>0, <1>1
<1>3. P!Names("Error") = {"code", "message"}
  BY <1>1, <1>2 DEF P!Names
<1>4. P!FieldOf("Error", "code") = s[1] /\ P!FieldOf("Error", "message") = s[2]
  BY <1>1, <1>2 DEF P!FieldOf
<1>. QED
  BY <1>1, <1>3, <1>4, SameSchema

\* The fields of ServiceData in the schema.
LEMMA ServiceDataSchema ==
  LET F(x) == Abstract!FieldOf("OTServiceData", x)
  IN  /\ Abstract!Names("OTServiceData") = {"value"}
      /\ F("value").label = "one" /\ F("value").type = "string"
<1>. DEFINE s == P!Schema["OTServiceData"]
<1>1. /\ "OTServiceData" \in P!Classes /\ DOMAIN s = {1}
      /\ s[1].name = "value" /\ s[1].label = "one" /\ s[1].type = "string"
  BY DEF P!Classes, P!Schema, P!one, P!repeated, P!map
<1>0. P!Fields("OTServiceData") = {s[i] : i \in DOMAIN s}
  BY <1>1, FieldsOfSchema
<1>. HIDE DEF s
<1>2. P!Fields("OTServiceData") = {s[1]}
  BY <1>0, <1>1
<1>3. P!Names("OTServiceData") = {"value"}
  BY <1>1, <1>2 DEF P!Names
<1>4. P!FieldOf("OTServiceData", "value") = s[1]
  BY <1>1, <1>2 DEF P!FieldOf
<1>. QED
  BY <1>1, <1>3, <1>4, SameSchema

\* The fields of Bytes in the schema.
LEMMA BytesSchema ==
  LET F(x) == Abstract!FieldOf("Bytes", x)
  IN  /\ Abstract!Names("Bytes") = {"bts"}
      /\ F("bts").label = "repeated" /\ F("bts").type = "uint32"
<1>. DEFINE s == P!Schema["Bytes"]
<1>1. /\ "Bytes" \in P!Classes /\ DOMAIN s = {1}
      /\ s[1].name = "bts" /\ s[1].label = "repeated" /\ s[1].type = "uint32"
  BY DEF P!Classes, P!Schema, P!one, P!repeated, P!map
<1>0. P!Fields("Bytes") = {s[i] : i \in DOMAIN s}
  BY <1>1, FieldsOfSchema
<1>. HIDE DEF s
<1>2. P!Fields("Bytes") = {s[1]}
  BY <1>0, <1>1
<1>3. P!Names("Bytes") = {"bts"}
  BY <1>1, <1>2 DEF P!Names
<1>4. P!FieldOf("Bytes", "bts") = s[1]
  BY <1>1, <1>2 DEF P!FieldOf
<1>. QED
  BY <1>1, <1>3, <1>4, SameSchema

\* The fields of Fields in the schema.
LEMMA FieldsSchema ==
  LET F(x) == Abstract!FieldOf("Fields", x)
  IN  /\ Abstract!Names("Fields") = {"msg"}
      /\ F("msg").label = "map" /\ F("msg").type = "string"
<1>. DEFINE s == P!Schema["Fields"]
<1>1. /\ "Fields" \in P!Classes /\ DOMAIN s = {1}
      /\ s[1].name = "msg" /\ s[1].label = "map" /\ s[1].type = "string"
  BY DEF P!Classes, P!Schema, P!one, P!repeated, P!map
<1>0. P!Fields("Fields") = {s[i] : i \in DOMAIN s}
  BY <1>1, FieldsOfSchema
<1>. HIDE DEF s
<1>2. P!Fields("Fields") = {s[1]}
  BY <1>0, <1>1
<1>3. P!Names("Fields") = {"msg"}
  BY <1>1, <1>2 DEF P!Names
<1>4. P!FieldOf("Fields", "msg") = s[1]
  BY <1>1, <1>2 DEF P!FieldOf
<1>. QED
  BY <1>1, <1>3, <1>4, SameSchema

\* The fields of OTServerRequest in the schema.
LEMMA ServerRequestSchema ==
  LET F(x) == Abstract!FieldOf("OTServerRequest", x)
  IN  /\ Abstract!Names("OTServerRequest") = {"function", "sessionToken", "k", "keys", "bytes"}
      /\ F("function").label = "one" /\ F("function").type = "string"
      /\ F("sessionToken").label = "one" /\ F("sessionToken").type = "uint32"
      /\ F("k").label = "one" /\ F("k").type = "uint32"
      /\ F("keys").label = "repeated" /\ F("keys").type = "string"
      /\ F("bytes").label = "repeated" /\ F("bytes").type = "Bytes"
<1>. DEFINE s == P!Schema["OTServerRequest"]
<1>1. /\ "OTServerRequest" \in P!Classes /\ DOMAIN s = {1, 2, 3, 4, 5}
      /\ s[1].name = "function" /\ s[1].label = "one" /\ s[1].type = "string"
      /\ s[2].name = "sessionToken" /\ s[2].label = "one" /\ s[2].type = "uint32"
      /\ s[3].name = "k" /\ s[3].label = "one" /\ s[3].type = "uint32"
      /\ s[4].name = "keys" /\ s[4].label = "repeated" /\ s[4].type = "string"
      /\ s[5].name = "bytes" /\ s[5].label = "repeated" /\ s[5].type = "Bytes"
  BY DEF P!Classes, P!Schema, P!one, P!repeated, P!map
<1>0. P!Fields("OTServerRequest") = {s[i] : i \in DOMAIN s}
  BY <1>1, FieldsOfSchema
<1>. HIDE DEF s
<1>2. P!Fields("OTServerRequest") = {s[1], s[2], s[3], s[4], s[5]}
  BY <1>0, <1>1
<1>3. P!Names("OTServerRequest") = {"function", "sessionToken", "k", "keys", "bytes"}
  BY <1>1, <1>2 DEF P!Names
<1>4. P!FieldOf("OTServerRequest", "function") = s[1] /\ P!FieldOf("OTServerRequest", "sessionToken") = s[2] /\ P!FieldOf("OTServerRequest", "k") = s[3] /\ P!FieldOf("OTServerRequest", "keys") = s[4] /\ P!FieldOf("OTServerRequest", "bytes") = s[5]
  BY <1>1, <1>2 DEF P!FieldOf
<1>. QED
  BY <1>1, <1>3, <1>4, SameSchema

\* The fields of OTServerResponse in the schema.
LEMMA ServerResponseSchema ==
  LET F(x) == Abstract!FieldOf("OTServerResponse", x)
  IN  /\ Abstract!Names("OTServerResponse") = {"function", "values", "bytes"}
      /\ F("function").label = "one" /\ F("function").type = "string"
      /\ F("values").label = "repeated" /\ F("values").type = "string"
      /\ F("bytes").label = "repeated" /\ F("bytes").type = "Bytes"
<1>. DEFINE s == P!Schema["OTServerResponse"]
<1>1. /\ "OTServerResponse" \in P!Classes /\ DOMAIN s = {1, 2, 3}
      /\ s[1].name = "function" /\ s[1].label = "one" /\ s[1].type = "string"
      /\ s[2].name = "values" /\ s[2].label = "repeated" /\ s[2].type = "string"
      /\ s[3].name = "bytes" /\ s[3].label = "repeated" /\ s[3].type = "Bytes"
  BY DEF P!Classes, P!Schema, P!one, P!repeated, P!map
<1>0. P!Fields("OTServerResponse") = {s[i] : i \in DOMAIN s}
  BY <1>1, FieldsOfSchema
<1>. HIDE DEF s
<1>2. P!Fields("OTServerResponse") = {s[1], s[2], s[3]}
  BY <1>0, <1>1
<1>3. P!Names("OTServerResponse") = {"function", "values", "bytes"}
  BY <1>1, <1>2 DEF P!Names
<1>4. P!FieldOf("OTServerResponse", "function") = s[1] /\ P!FieldOf("OTServerResponse", "values") = s[2] /\ P!FieldOf("OTServerResponse", "bytes") = s[3]
  BY <1>1, <1>2 DEF P!FieldOf
<1>. QED
  BY <1>1, <1>3, <1>4, SameSchema

\* The fields of OTClientRequest in the schema.
LEMMA ClientRequestSchema ==
  LET F(x) == Abstract!FieldOf("OTClientRequest", x)
  IN  /\ Abstract!Names("OTClientRequest") = {"function", "uinWithLabelMap"}
      /\ F("function").label = "one" /\ F("function").type = "string"
      /\ F("uinWithLabelMap").label = "map" /\ F("uinWithLabelMap").type = "uint32"
<1>. DEFINE s == P!Schema["OTClientRequest"]
<1>1. /\ "OTClientRequest" \in P!Classes /\ DOMAIN s = {1, 2}
      /\ s[1].name = "function" /\ s[1].label = "one" /\ s[1].type = "string"
      /\ s[2].name = "uinWithLabelMap" /\ s[2].label = "map" /\ s[2].type = "uint32"
  BY DEF P!Classes, P!Schema, P!one, P!repeated, P!map
<1>0. P!Fields("OTClientRequest") = {s[i] : i \in DOMAIN s}
  BY <1>1, FieldsOfSchema
<1>. HIDE DEF s
<1>2. P!Fields("OTClientRequest") = {s[1], s[2]}
  BY <1>0, <1>1
<1>3. P!Names("OTClientRequest") = {"function", "uinWithLabelMap"}
  BY <1>1, <1>2 DEF P!Names
<1>4. P!FieldOf("OTClientRequest", "function") = s[1] /\ P!FieldOf("OTClientRequest", "uinWithLabelMap") = s[2]
  BY <1>1, <1>2 DEF P!FieldOf
<1>. QED
  BY <1>1, <1>3, <1>4, SameSchema

\* The fields of OTClientResponse in the schema.
LEMMA ClientResponseSchema ==
  LET F(x) == Abstract!FieldOf("OTClientResponse", x)
  IN  /\ Abstract!Names("OTClientResponse") = {"function", "reqTimeMillis", "resMap"}
      /\ F("function").label = "one" /\ F("function").type = "string"
      /\ F("reqTimeMillis").label = "one" /\ F("reqTimeMillis").type = "float"
      /\ F("resMap").label = "map" /\ F("resMap").type = "string"
<1>. DEFINE s == P!Schema["OTClientResponse"]
<1>1. /\ "OTClientResponse" \in P!Classes /\ DOMAIN s = {1, 2, 3}
      /\ s[1].name = "function" /\ s[1].label = "one" /\ s[1].type = "string"
      /\ s[2].name = "reqTimeMillis" /\ s[2].label = "one" /\ s[2].type = "float"
      /\ s[3].name = "resMap" /\ s[3].label = "map" /\ s[3].type = "string"
  BY DEF P!Classes, P!Schema, P!one, P!repeated, P!map
<1>0. P!Fields("OTClientResponse") = {s[i] : i \in DOMAIN s}
  BY <1>1, FieldsOfSchema
<1>. HIDE DEF s
<1>2. P!Fields("OTClientResponse") = {s[1], s[2], s[3]}
  BY <1>0, <1>1
<1>3. P!Names("OTClientResponse") = {"function", "reqTimeMillis", "resMap"}
  BY <1>1, <1>2 DEF P!Names
<1>4. P!FieldOf("OTClientResponse", "function") = s[1] /\ P!FieldOf("OTClientResponse", "reqTimeMillis") = s[2] /\ P!FieldOf("OTClientResponse", "resMap") = s[3]
  BY <1>1, <1>2 DEF P!FieldOf
<1>. QED
  BY <1>1, <1>3, <1>4, SameSchema

\* The fields of OTServerResponseWrapper in the schema.
LEMMA ServerWrapperSchema ==
  LET F(x) == Abstract!FieldOf("OTServerResponseWrapper", x)
  IN  /\ Abstract!Names("OTServerResponseWrapper") = {"error", "result"}
      /\ F("error").label = "one" /\ F("error").type = "Error"
      /\ F("result").label = "one" /\ F("result").type = "OTServerResponse"
<1>. DEFINE s == P!Schema["OTServerResponseWrapper"]
<1>1. /\ "OTServerResponseWrapper" \in P!Classes /\ DOMAIN s = {1, 2}
      /\ s[1].name = "error" /\ s[1].label = "one" /\ s[1].type = "Error"
      /\ s[2].name = "result" /\ s[2].label = "one" /\ s[2].type = "OTServerResponse"
  BY DEF P!Classes, P!Schema, P!one, P!repeated, P!map
<1>0. P!Fields("OTServerResponseWrapper") = {s[i] : i \in DOMAIN s}
  BY <1>1, FieldsOfSchema
<1>. HIDE DEF s
<1>2. P!Fields("OTServerResponseWrapper") = {s[1], s[2]}
  BY <1>0, <1>1
<1>3. P!Names("OTServerResponseWrapper") = {"error", "result"}
  BY <1>1, <1>2 DEF P!Names
<1>4. P!FieldOf("OTServerResponseWrapper", "error") = s[1] /\ P!FieldOf("OTServerResponseWrapper", "result") = s[2]
  BY <1>1, <1>2 DEF P!FieldOf
<1>. QED
  BY <1>1, <1>3, <1>4, SameSchema

\* The fields of OTClientResponseWrapper in the schema.
LEMMA ClientWrapperSchema ==
  LET F(x) == Abstract!FieldOf("OTClientResponseWrapper", x)
  IN  /\ Abstract!Names("OTClientResponseWrapper") = {"error", "result"}
      /\ F("error").label = "one" /\ F("error").type = "Error"
      /\ F("result").label = "repeated" /\ F("result").type = "OTClientResponse"
<1>. DEFINE s == P!Schema["OTClientResponseWrapper"]
<1>1. /\ "OTClientResponseWrapper" \in P!Classes /\ DOMAIN s = {1, 2}
      /\ s[1].name = "error" /\ s[1].label = "one" /\ s[1].type = "Error"
      /\ s[2].name = "result" /\ s[2].label = "repeated" /\ s[2].type = "OTClientResponse"
  BY DEF P!Classes, P!Schema, P!one, P!repeated, P!map
<1>0. P!Fields("OTClientResponseWrapper") = {s[i] : i \in DOMAIN s}
  BY <1>1, FieldsOfSchema
<1>. HIDE DEF s
<1>2. P!Fields("OTClientResponseWrapper") = {s[1], s[2]}
  BY <1>0, <1>1
<1>3. P!Names("OTClientResponseWrapper") = {"error", "result"}
  BY <1>1, <1>2 DEF P!Names
<1>4. P!FieldOf("OTClientResponseWrapper", "error") = s[1] /\ P!FieldOf("OTClientResponseWrapper", "result") = s[2]
  BY <1>1, <1>2 DEF P!FieldOf
<1>. QED
  BY <1>1, <1>3, <1>4, SameSchema

\* The default of a field, by its label and type.
LEMMA DefaultIs ==
  ASSUME NEW f
  PROVE  /\ f.label # "one" \/ f.type = "string" => Abstract!DefaultOf(f) = <<>>
         /\ f.label = "one" /\ f.type \in {"uint32", "float"} => Abstract!DefaultOf(f) = 0
         /\ f.label = "one" /\ f.type \in {"Error", "OTServerResponse"} =>
              Abstract!DefaultOf(f) = P!None /\ Abstract!IsOptional(f)
<1>1. f.type \in {"uint32", "float"} => f.type \notin P!Classes
  BY DEF P!Classes, P!Schema
<1>2. f.type \in {"Error", "OTServerResponse"} => f.type \in P!Classes
  BY DEF P!Classes, P!Schema
<1>. QED
  BY <1>1, <1>2, SameSchema DEF P!DefaultOf, P!IsMessage, P!IsOptional

-----------------------------------------------------------------------------
(* Merging, field by field. *)

\* A member that holds no message, or a repeated one, merged.
LEMMA OverIs ==
  ASSUME NEW f, NEW u, NEW v
  PROVE  /\ f.label = "repeated" => Abstract!Over(f, u, v) = u \o v
         /\ f.label = "map" => Abstract!Over(f, u, v) = MergeMap(u, v)
         /\ f.label = "one" /\ f.type = "string" =>
              Abstract!Over(f, u, v) = Unless(<<>>, v, u) /\ ~Abstract!IsOptional(f)
         /\ f.label = "one" /\ f.type \in {"uint32", "float"} =>
              Abstract!Over(f, u, v) = Unless(0, v, u) /\ ~Abstract!IsOptional(f)
         /\ f.label # "one" => ~Abstract!IsOptional(f)
<1>1. \A t \in {"string", "uint32", "float"} : t \notin P!Classes
  BY DEF P!Classes, P!Schema
<1>2. f.type \in {"string", "uint32", "float"} => ~Abstract!IsOptional(f)
  BY <1>1, SameSchema DEF P!IsOptional, P!IsMessage
<1>3. f.label # "one" => ~Abstract!IsOptional(f)
  BY SameSchema DEF P!IsOptional
<1>4. f.label = "repeated" => Abstract!Over(f, u, v) = u \o v
  BY DEF Abstract!Over
<1>5. f.label = "map" => Abstract!Over(f, u, v) = MergeMap(u, v)
  BY DEF Abstract!Over, MergeMap
<1>6. f.label = "one" => Abstract!Over(f, u, v) = Unless(Abstract!DefaultOf(f), v, u)
  BY DEF Abstract!Over, Unless
<1>. QED
  BY <1>2, <1>3, <1>4, <1>5, <1>6, DefaultIs

\* Repeated fields are merged by appending.
LEMMA RepeatedOver ==
  \A f, u, v : f.label = "repeated" => Abstract!Over(f, u, v) = u \o v
BY OverIs

\* g is a and b merged, member by member.
AsMerged(a, b, g) ==
  /\ g = [x \in DOMAIN a |-> g[x]]
  /\ \A x \in DOMAIN a :
       /\ x = "class" => g[x] = a[x]
       /\ x = "unknown" => g[x] = a[x] \o b[x]
       /\ x \notin {"class", "unknown"} =>
            g[x] = Abstract!Over(Abstract!FieldOf(a.class, x), a[x], b[x])

\* MergedBy goes member by member.
LEMMA MergedByOver ==
  ASSUME NEW a, NEW b
  PROVE  AsMerged(a, b, Abstract!MergedBy(Abstract!Over, a, b))
BY DEF AsMerged, Abstract!MergedBy

\* So does Merged, in a class without submessages.
LEMMA MergedPlain ==
  ASSUME NEW a, NEW b,
         \A x \in DOMAIN a \ {"class", "unknown"} : ~Abstract!IsOptional(Abstract!FieldOf(a.class, x))
  PROVE  AsMerged(a, b, Abstract!Merged(a, b))
BY DEF AsMerged, Abstract!MergedBy, Abstract!Merged

\* Merging into an empty map.
LEMMA MergedIntoNone ==
  ASSUME NEW D, NEW R, NEW b \in MapsOver(D, R)
  PROVE  MergeMap(<<>>, b) = b
<1>1. b = [k \in DOMAIN b |-> b[k]] /\ DOMAIN <<>> = {}
  BY MapsKnown
<1>. QED
  BY <1>1 DEF MergeMap

-----------------------------------------------------------------------------
(* The classes without submessages: each operation, in values. *)

\* A Response is its fields.
LEMMA ResponseSame ==
  ASSUME NEW U, NEW m \in ResponseType(U), NEW o \in ResponseType(U),
         m.code = o.code, m.message = o.message, m.reqTimeMillis = o.reqTimeMillis, m.data = o.data, m.unknown = o.unknown
  PROVE  m = o
<1>1. m = [x \in {"class", "unknown", "code", "message", "reqTimeMillis", "data"} |-> m[x]] /\ m.class = "Response"
  BY DEF ResponseType
<1>2. o = [x \in {"class", "unknown", "code", "message", "reqTimeMillis", "data"} |-> o[x]] /\ o.class = "Response"
  BY DEF ResponseType
<1>3. \A x \in {"class", "unknown", "code", "message", "reqTimeMillis", "data"} : m[x] = o[x]
  BY <1>1, <1>2
<1>. QED
  BY <1>1, <1>2, <1>3

\* What the operations of Response do, in values.
LEMMA ResponseValues ==
  ASSUME NEW U, NEW m \in ResponseType(U), NEW o \in ResponseType(U)
  PROVE  /\ Response_New = Abstract!Default("Response")
         /\ Response_Construct(o) = o /\ Response_Clear(m) = Response_New /\ Response_CopyFrom(m, o) = o
         /\ Response_MergeFrom(Response_New, o) = o /\ Response_Swap(m, o) = o
         /\ \A g : AsMerged(m, o, g) => Response_MergeFrom(m, o) = g
         /\ Response_MergeFrom(m, o) = Abstract!Merged(m, o)
         /\ \A n \in Response_Accessors(m) :
              \E x \in Abstract!Names("Response") : n = [m EXCEPT ![x] = n[x]]
<1>. DEFINE F(x) == Abstract!FieldOf("Response", x)
<1>1. /\ DOMAIN m = {"class", "unknown", "code", "message", "reqTimeMillis", "data"} /\ m.class = "Response"
      /\ DOMAIN o = {"class", "unknown", "code", "message", "reqTimeMillis", "data"}
      /\ DOMAIN Response_New = {"class", "unknown", "code", "message", "reqTimeMillis", "data"} /\ Response_New.class = "Response"
      /\ Response_New.code = 0 /\ Response_New.message = <<>> /\ Response_New.reqTimeMillis = 0 /\ Response_New.data = <<>>
      /\ Response_New.unknown = <<>>
  BY DEF ResponseType, Response_New
<1>2. m.unknown \in Seq(U) /\ o.unknown \in Seq(U)
  BY ResponseMembers
<1>3. Response_New = Abstract!Default("Response")
  <2>. DEFINE d == Abstract!Default("Response")
  <2>1. d = [x \in DOMAIN d |-> d[x]] /\ DOMAIN d = {"class", "unknown", "code", "message", "reqTimeMillis", "data"}
        /\ d.class = "Response" /\ d.unknown = <<>>
        /\ \A x \in {"code", "message", "reqTimeMillis", "data"} : d[x] = Abstract!DefaultOf(F(x))
    BY ResponseSchema DEF Abstract!Default
  <2>2. Abstract!DefaultOf(F("code")) = 0 /\ Abstract!DefaultOf(F("message")) = <<>> /\ Abstract!DefaultOf(F("reqTimeMillis")) = 0 /\ Abstract!DefaultOf(F("data")) = <<>>
    BY ResponseSchema, DefaultIs
  <2>3. Response_New = [x \in DOMAIN Response_New |-> Response_New[x]]
    BY DEF Response_New
  <2>. HIDE DEF d, F
  <2>4. DOMAIN d = DOMAIN Response_New /\ \A x \in DOMAIN d : d[x] = Response_New[x]
    BY <1>1, <2>1, <2>2
  <2>. QED
    BY <2>1, <2>3, <2>4 DEF d
<1>4. {Response_New, Response_Construct(o), Response_Clear(m), Response_MergeFrom(Response_New, o), Response_MergeFrom(m, o), Response_Swap(m, o)}
        \subseteq ResponseType(U)
  <2>1. Response_New \in ResponseType(U)
    BY ResponseKept
  <2>2. {Response_Construct(o), Response_Clear(m), Response_MergeFrom(m, o), Response_Swap(m, o)} \subseteq ResponseType(U)
    BY ResponseKept
  <2>3. Response_MergeFrom(Response_New, o) \in ResponseType(U)
    BY <2>1, ResponseKept
  <2>. QED
    BY <2>1, <2>2, <2>3
<1>5. Response_Construct(o) = o
  <2>1. Response_Construct(o).code = o.code /\ Response_Construct(o).message = o.message /\ Response_Construct(o).reqTimeMillis = o.reqTimeMillis /\ Response_Construct(o).data = o.data /\ Response_Construct(o).unknown = o.unknown
    BY <1>1 DEF Response_Construct
  <2>. QED
    BY <1>4, <2>1, ResponseSame
<1>6. Response_Clear(m) = Response_New
  <2>1. Response_Clear(m).code = 0 /\ Response_Clear(m).message = <<>> /\ Response_Clear(m).reqTimeMillis = 0 /\ Response_Clear(m).data = <<>> /\ Response_Clear(m).unknown = <<>>
    BY <1>1 DEF Response_Clear
  <2>. QED
    BY <1>1, <1>4, <2>1, ResponseSame
<1>7. /\ Response_MergeFrom(m, o).code = Unless(0, o.code, m.code)
      /\ Response_MergeFrom(m, o).message = Unless(<<>>, o.message, m.message)
      /\ Response_MergeFrom(m, o).reqTimeMillis = Unless(0, o.reqTimeMillis, m.reqTimeMillis)
      /\ Response_MergeFrom(m, o).data = Unless(<<>>, o.data, m.data)
      /\ Response_MergeFrom(m, o).unknown = m.unknown \o o.unknown
  BY <1>1 DEF Response_MergeFrom
<1>8. /\ Response_MergeFrom(Response_New, o).code = Unless(0, o.code, Response_New.code)
      /\ Response_MergeFrom(Response_New, o).message = Unless(<<>>, o.message, Response_New.message)
      /\ Response_MergeFrom(Response_New, o).reqTimeMillis = Unless(0, o.reqTimeMillis, Response_New.reqTimeMillis)
      /\ Response_MergeFrom(Response_New, o).data = Unless(<<>>, o.data, Response_New.data)
      /\ Response_MergeFrom(Response_New, o).unknown = Response_New.unknown \o o.unknown
  BY <1>1 DEF Response_MergeFrom
<1>9. Response_MergeFrom(Response_New, o) = o
  <2>1. /\ Unless(0, o.code, Response_New.code) = o.code
        /\ Unless(<<>>, o.message, Response_New.message) = o.message
        /\ Unless(0, o.reqTimeMillis, Response_New.reqTimeMillis) = o.reqTimeMillis
        /\ Unless(<<>>, o.data, Response_New.data) = o.data
        /\ Response_New.unknown \o o.unknown = o.unknown
    BY <1>1, <1>2 DEF Unless
  <2>. QED
    BY <1>4, <1>8, <2>1, ResponseSame
<1>10. Response_Swap(m, o) = o
  <2>1. Response_Swap(m, o).code = o.code /\ Response_Swap(m, o).message = o.message /\ Response_Swap(m, o).reqTimeMillis = o.reqTimeMillis /\ Response_Swap(m, o).data = o.data /\ Response_Swap(m, o).unknown = o.unknown
    BY <1>1 DEF Response_Swap
  <2>. QED
    BY <1>4, <2>1, ResponseSame
<1>11. ASSUME NEW g, AsMerged(m, o, g) PROVE Response_MergeFrom(m, o) = g
  <2>. DEFINE r == Response_MergeFrom(m, o)
  <2>1. /\ g = [x \in DOMAIN m |-> g[x]] /\ g["class"] = m.class /\ g["unknown"] = m.unknown \o o.unknown
        /\ g["code"] = Abstract!Over(F("code"), m["code"], o["code"])
        /\ g["message"] = Abstract!Over(F("message"), m["message"], o["message"])
        /\ g["reqTimeMillis"] = Abstract!Over(F("reqTimeMillis"), m["reqTimeMillis"], o["reqTimeMillis"])
        /\ g["data"] = Abstract!Over(F("data"), m["data"], o["data"])
    BY <1>1, <1>11 DEF AsMerged
  <2>2. /\ Abstract!Over(F("code"), m["code"], o["code"]) = Unless(0, o.code, m.code)
        /\ Abstract!Over(F("message"), m["message"], o["message"]) = Unless(<<>>, o.message, m.message)
        /\ Abstract!Over(F("reqTimeMillis"), m["reqTimeMillis"], o["reqTimeMillis"]) = Unless(0, o.reqTimeMillis, m.reqTimeMillis)
        /\ Abstract!Over(F("data"), m["data"], o["data"]) = Unless(<<>>, o.data, m.data)
    BY ResponseSchema, OverIs
  <2>3. r = [x \in DOMAIN r |-> r[x]] /\ DOMAIN r = DOMAIN m /\ r["class"] = m.class
    BY <1>1, <1>4 DEF ResponseType
  <2>4. \A x \in DOMAIN m : r[x] = g[x]
    <3>. HIDE DEF r, F
    <3>1. /\ r["code"] = Unless(0, o.code, m.code)
          /\ r["message"] = Unless(<<>>, o.message, m.message)
          /\ r["reqTimeMillis"] = Unless(0, o.reqTimeMillis, m.reqTimeMillis)
          /\ r["data"] = Unless(<<>>, o.data, m.data)
          /\ r["unknown"] = m.unknown \o o.unknown
      BY <1>7 DEF r
    <3>. QED
      BY <1>1, <2>1, <2>2, <2>3, <3>1
  <2>. HIDE DEF r
  <2>. QED
    BY <2>1, <2>3, <2>4 DEF r
<1>12. Response_MergeFrom(m, o) = Abstract!Merged(m, o)
  <2>1. \A x \in {"code", "message", "reqTimeMillis", "data"} : ~Abstract!IsOptional(F(x))
    BY ResponseSchema, OverIs
  <2>. QED
    BY <1>1, <1>11, <2>1, MergedPlain
<1>13. ASSUME NEW n \in Response_Accessors(m)
       PROVE  \E x \in Abstract!Names("Response") : n = [m EXCEPT ![x] = n[x]]
  <2>1. \/ \E v : n = [m EXCEPT !.code = v]
        \/ \E v : n = [m EXCEPT !.message = v]
        \/ \E v : n = [m EXCEPT !.reqTimeMillis = v]
        \/ \E v : n = [m EXCEPT !.data = v]
    BY DEF Response_Accessors
  <2>2. ASSUME NEW v, n = [m EXCEPT !.code = v] PROVE n = [m EXCEPT !["code"] = n["code"]]
    BY <1>1, <2>2
  <2>3. ASSUME NEW v, n = [m EXCEPT !.message = v] PROVE n = [m EXCEPT !["message"] = n["message"]]
    BY <1>1, <2>3
  <2>4. ASSUME NEW v, n = [m EXCEPT !.reqTimeMillis = v] PROVE n = [m EXCEPT !["reqTimeMillis"] = n["reqTimeMillis"]]
    BY <1>1, <2>4
  <2>5. ASSUME NEW v, n = [m EXCEPT !.data = v] PROVE n = [m EXCEPT !["data"] = n["data"]]
    BY <1>1, <2>5
  <2>. QED
    BY <2>1, <2>2, <2>3, <2>4, <2>5, ResponseSchema
<1>. QED
  BY <1>3, <1>5, <1>6, <1>9, <1>10, <1>11, <1>12, <1>13 DEF Response_CopyFrom

\* An Error is its fields.
LEMMA ErrorSame ==
  ASSUME NEW U, NEW m \in ErrorType(U), NEW o \in ErrorType(U),
         m.code = o.code, m.message = o.message, m.unknown = o.unknown
  PROVE  m = o
<1>1. m = [x \in {"class", "unknown", "code", "message"} |-> m[x]] /\ m.class = "Error"
  BY DEF ErrorType
<1>2. o = [x \in {"class", "unknown", "code", "message"} |-> o[x]] /\ o.class = "Error"
  BY DEF ErrorType
<1>3. \A x \in {"class", "unknown", "code", "message"} : m[x] = o[x]
  BY <1>1, <1>2
<1>. QED
  BY <1>1, <1>2, <1>3

\* What the operations of Error do, in values.
LEMMA ErrorValues ==
  ASSUME NEW U, NEW m \in ErrorType(U), NEW o \in ErrorType(U)
  PROVE  /\ Error_New = Abstract!Default("Error")
         /\ Error_Construct(o) = o /\ Error_Clear(m) = Error_New /\ Error_CopyFrom(m, o) = o
         /\ Error_MergeFrom(Error_New, o) = o /\ Error_Swap(m, o) = o
         /\ \A g : AsMerged(m, o, g) => Error_MergeFrom(m, o) = g
         /\ Error_MergeFrom(m, o) = Abstract!Merged(m, o)
         /\ \A n \in Error_Accessors(m) :
              \E x \in Abstract!Names("Error") : n = [m EXCEPT ![x] = n[x]]
<1>. DEFINE F(x) == Abstract!FieldOf("Error", x)
<1>1. /\ DOMAIN m = {"class", "unknown", "code", "message"} /\ m.class = "Error"
      /\ DOMAIN o = {"class", "unknown", "code", "message"}
      /\ DOMAIN Error_New = {"class", "unknown", "code", "message"} /\ Error_New.class = "Error"
      /\ Error_New.code = 0 /\ Error_New.message = <<>>
      /\ Error_New.unknown = <<>>
  BY DEF ErrorType, Error_New
<1>2. m.unknown \in Seq(U) /\ o.unknown \in Seq(U)
  BY ErrorMembers
<1>3. Error_New = Abstract!Default("Error")
  <2>. DEFINE d == Abstract!Default("Error")
  <2>1. d = [x \in DOMAIN d |-> d[x]] /\ DOMAIN d = {"class", "unknown", "code", "message"}
        /\ d.class = "Error" /\ d.unknown = <<>>
        /\ \A x \in {"code", "message"} : d[x] = Abstract!DefaultOf(F(x))
    BY ErrorSchema DEF Abstract!Default
  <2>2. Abstract!DefaultOf(F("code")) = 0 /\ Abstract!DefaultOf(F("message")) = <<>>
    BY ErrorSchema, DefaultIs
  <2>3. Error_New = [x \in DOMAIN Error_New |-> Error_New[x]]
    BY DEF Error_New
  <2>. HIDE DEF d, F
  <2>4. DOMAIN d = DOMAIN Error_New /\ \A x \in DOMAIN d : d[x] = Error_New[x]
    BY <1>1, <2>1, <2>2
  <2>. QED
    BY <2>1, <2>3, <2>4 DEF d
<1>4. {Error_New, Error_Construct(o), Error_Clear(m), Error_MergeFrom(Error_New, o), Error_MergeFrom(m, o), Error_Swap(m, o)}
        \subseteq ErrorType(U)
  <2>1. Error_New \in ErrorType(U)
    BY ErrorKept
  <2>2. {Error_Construct(o), Error_Clear(m), Error_MergeFrom(m, o), Error_Swap(m, o)} \subseteq ErrorType(U)
    BY ErrorKept
  <2>3. Error_MergeFrom(Error_New, o) \in ErrorType(U)
    BY <2>1, ErrorKept
  <2>. QED
    BY <2>1, <2>2, <2>3
<1>5. Error_Construct(o) = o
  <2>1. Error_Construct(o).code = o.code /\ Error_Construct(o).message = o.message /\ Error_Construct(o).unknown = o.unknown
    BY <1>1 DEF Error_Construct
  <2>. QED
    BY <1>4, <2>1, ErrorSame
<1>6. Error_Clear(m) = Error_New
  <2>1. Error_Clear(m).code = 0 /\ Error_Clear(m).message = <<>> /\ Error_Clear(m).unknown = <<>>
    BY <1>1 DEF Error_Clear
  <2>. QED
    BY <1>1, <1>4, <2>1, ErrorSame
<1>7. /\ Error_MergeFrom(m, o).code = Unless(0, o.code, m.code)
      /\ Error_MergeFrom(m, o).message = Unless(<<>>, o.message, m.message)
      /\ Error_MergeFrom(m, o).unknown = m.unknown \o o.unknown
  BY <1>1 DEF Error_MergeFrom
<1>8. /\ Error_MergeFrom(Error_New, o).code = Unless(0, o.code, Error_New.code)
      /\ Error_MergeFrom(Error_New, o).message = Unless(<<>>, o.message, Error_New.message)
      /\ Error_MergeFrom(Error_New, o).unknown = Error_New.unknown \o o.unknown
  BY <1>1 DEF Error_MergeFrom
<1>9. Error_MergeFrom(Error_New, o) = o
  <2>1. /\ Unless(0, o.code, Error_New.code) = o.code
        /\ Unless(<<>>, o.message, Error_New.message) = o.message
        /\ Error_New.unknown \o o.unknown = o.unknown
    BY <1>1, <1>2 DEF Unless
  <2>. QED
    BY <1>4, <1>8, <2>1, ErrorSame
<1>10. Error_Swap(m, o) = o
  <2>1. Error_Swap(m, o).code = o.code /\ Error_Swap(m, o).message = o.message /\ Error_Swap(m, o).unknown = o.unknown
    BY <1>1 DEF Error_Swap
  <2>. QED
    BY <1>4, <2>1, ErrorSame
<1>11. ASSUME NEW g, AsMerged(m, o, g) PROVE Error_MergeFrom(m, o) = g
  <2>. DEFINE r == Error_MergeFrom(m, o)
  <2>1. /\ g = [x \in DOMAIN m |-> g[x]] /\ g["class"] = m.class /\ g["unknown"] = m.unknown \o o.unknown
        /\ g["code"] = Abstract!Over(F("code"), m["code"], o["code"])
        /\ g["message"] = Abstract!Over(F("message"), m["message"], o["message"])
    BY <1>1, <1>11 DEF AsMerged
  <2>2. /\ Abstract!Over(F("code"), m["code"], o["code"]) = Unless(0, o.code, m.code)
        /\ Abstract!Over(F("message"), m["message"], o["message"]) = Unless(<<>>, o.message, m.message)
    BY ErrorSchema, OverIs
  <2>3. r = [x \in DOMAIN r |-> r[x]] /\ DOMAIN r = DOMAIN m /\ r["class"] = m.class
    BY <1>1, <1>4 DEF ErrorType
  <2>4. \A x \in DOMAIN m : r[x] = g[x]
    <3>. HIDE DEF r, F
    <3>1. /\ r["code"] = Unless(0, o.code, m.code)
          /\ r["message"] = Unless(<<>>, o.message, m.message)
          /\ r["unknown"] = m.unknown \o o.unknown
      BY <1>7 DEF r
    <3>. QED
      BY <1>1, <2>1, <2>2, <2>3, <3>1
  <2>. HIDE DEF r
  <2>. QED
    BY <2>1, <2>3, <2>4 DEF r
<1>12. Error_MergeFrom(m, o) = Abstract!Merged(m, o)
  <2>1. \A x \in {"code", "message"} : ~Abstract!IsOptional(F(x))
    BY ErrorSchema, OverIs
  <2>. QED
    BY <1>1, <1>11, <2>1, MergedPlain
<1>13. ASSUME NEW n \in Error_Accessors(m)
       PROVE  \E x \in Abstract!Names("Error") : n = [m EXCEPT ![x] = n[x]]
  <2>1. \/ \E v : n = [m EXCEPT !.code = v]
        \/ \E v : n = [m EXCEPT !.message = v]
    BY DEF Error_Accessors
  <2>2. ASSUME NEW v, n = [m EXCEPT !.code = v] PROVE n = [m EXCEPT !["code"] = n["code"]]
    BY <1>1, <2>2
  <2>3. ASSUME NEW v, n = [m EXCEPT !.message = v] PROVE n = [m EXCEPT !["message"] = n["message"]]
    BY <1>1, <2>3
  <2>. QED
    BY <2>1, <2>2, <2>3, ErrorSchema
<1>. QED
  BY <1>3, <1>5, <1>6, <1>9, <1>10, <1>11, <1>12, <1>13 DEF Error_CopyFrom

\* A ServiceData is its fields.
LEMMA ServiceDataSame ==
  ASSUME NEW U, NEW m \in ServiceDataType(U), NEW o \in ServiceDataType(U),
         m.value = o.value, m.unknown = o.unknown
  PROVE  m = o
<1>1. m = [x \in {"class", "unknown", "value"} |-> m[x]] /\ m.class = "OTServiceData"
  BY DEF ServiceDataType
<1>2. o = [x \in {"class", "unknown", "value"} |-> o[x]] /\ o.class = "OTServiceData"
  BY DEF ServiceDataType
<1>3. \A x \in {"class", "unknown", "value"} : m[x] = o[x]
  BY <1>1, <1>2
<1>. QED
  BY <1>1, <1>2, <1>3

\* What the operations of ServiceData do, in values.
LEMMA ServiceDataValues ==
  ASSUME NEW U, NEW m \in ServiceDataType(U), NEW o \in ServiceDataType(U)
  PROVE  /\ OTServiceData_New = Abstract!Default("OTServiceData")
         /\ OTServiceData_Construct(o) = o /\ OTServiceData_Clear(m) = OTServiceData_New /\ OTServiceData_CopyFrom(m, o) = o
         /\ OTServiceData_MergeFrom(OTServiceData_New, o) = o /\ OTServiceData_Swap(m, o) = o
         /\ \A g : AsMerged(m, o, g) => OTServiceData_MergeFrom(m, o) = g
         /\ OTServiceData_MergeFrom(m, o) = Abstract!Merged(m, o)
         /\ \A n \in OTServiceData_Accessors(m) :
              \E x \in Abstract!Names("OTServiceData") : n = [m EXCEPT ![x] = n[x]]
<1>. DEFINE F(x) == Abstract!FieldOf("OTServiceData", x)
<1>1. /\ DOMAIN m = {"class", "unknown", "value"} /\ m.class = "OTServiceData"
      /\ DOMAIN o = {"class", "unknown", "value"}
      /\ DOMAIN OTServiceData_New = {"class", "unknown", "value"} /\ OTServiceData_New.class = "OTServiceData"
      /\ OTServiceData_New.value = <<>>
      /\ OTServiceData_New.unknown = <<>>
  BY DEF ServiceDataType, OTServiceData_New
<1>2. m.unknown \in Seq(U) /\ o.unknown \in Seq(U)
  BY ServiceDataMembers
<1>3. OTServiceData_New = Abstract!Default("OTServiceData")
  <2>. DEFINE d == Abstract!Default("OTServiceData")
  <2>1. d = [x \in DOMAIN d |-> d[x]] /\ DOMAIN d = {"class", "unknown", "value"}
        /\ d.class = "OTServiceData" /\ d.unknown = <<>>
        /\ \A x \in {"value"} : d[x] = Abstract!DefaultOf(F(x))
    BY ServiceDataSchema DEF Abstract!Default
  <2>2. Abstract!DefaultOf(F("value")) = <<>>
    BY ServiceDataSchema, DefaultIs
  <2>3. OTServiceData_New = [x \in DOMAIN OTServiceData_New |-> OTServiceData_New[x]]
    BY DEF OTServiceData_New
  <2>. HIDE DEF d, F
  <2>4. DOMAIN d = DOMAIN OTServiceData_New /\ \A x \in DOMAIN d : d[x] = OTServiceData_New[x]
    BY <1>1, <2>1, <2>2
  <2>. QED
    BY <2>1, <2>3, <2>4 DEF d
<1>4. {OTServiceData_New, OTServiceData_Construct(o), OTServiceData_Clear(m), OTServiceData_MergeFrom(OTServiceData_New, o), OTServiceData_MergeFrom(m, o), OTServiceData_Swap(m, o)}
        \subseteq ServiceDataType(U)
  <2>1. OTServiceData_New \in ServiceDataType(U)
    BY ServiceDataKept
  <2>2. {OTServiceData_Construct(o), OTServiceData_Clear(m), OTServiceData_MergeFrom(m, o), OTServiceData_Swap(m, o)} \subseteq ServiceDataType(U)
    BY ServiceDataKept
  <2>3. OTServiceData_MergeFrom(OTServiceData_New, o) \in ServiceDataType(U)
    BY <2>1, ServiceDataKept
  <2>. QED
    BY <2>1, <2>2, <2>3
<1>5. OTServiceData_Construct(o) = o
  <2>1. OTServiceData_Construct(o).value = o.value /\ OTServiceData_Construct(o).unknown = o.unknown
    BY <1>1 DEF OTServiceData_Construct
  <2>. QED
    BY <1>4, <2>1, ServiceDataSame
<1>6. OTServiceData_Clear(m) = OTServiceData_New
  <2>1. OTServiceData_Clear(m).value = <<>> /\ OTServiceData_Clear(m).unknown = <<>>
    BY <1>1 DEF OTServiceData_Clear
  <2>. QED
    BY <1>1, <1>4, <2>1, ServiceDataSame
<1>7. /\ OTServiceData_MergeFrom(m, o).value = Unless(<<>>, o.value, m.value)
      /\ OTServiceData_MergeFrom(m, o).unknown = m.unknown \o o.unknown
  BY <1>1 DEF OTServiceData_MergeFrom
<1>8. /\ OTServiceData_MergeFrom(OTServiceData_New, o).value = Unless(<<>>, o.value, OTServiceData_New.value)
      /\ OTServiceData_MergeFrom(OTServiceData_New, o).unknown = OTServiceData_New.unknown \o o.unknown
  BY <1>1 DEF OTServiceData_MergeFrom
<1>9. OTServiceData_MergeFrom(OTServiceData_New, o) = o
  <2>1. /\ Unless(<<>>, o.value, OTServiceData_New.value) = o.value
        /\ OTServiceData_New.unknown \o o.unknown = o.unknown
    BY <1>1, <1>2 DEF Unless
  <2>. QED
    BY <1>4, <1>8, <2>1, ServiceDataSame
<1>10. OTServiceData_Swap(m, o) = o
  <2>1. OTServiceData_Swap(m, o).value = o.value /\ OTServiceData_Swap(m, o).unknown = o.unknown
    BY <1>1 DEF OTServiceData_Swap
  <2>. QED
    BY <1>4, <2>1, ServiceDataSame
<1>11. ASSUME NEW g, AsMerged(m, o, g) PROVE OTServiceData_MergeFrom(m, o) = g
  <2>. DEFINE r == OTServiceData_MergeFrom(m, o)
  <2>1. /\ g = [x \in DOMAIN m |-> g[x]] /\ g["class"] = m.class /\ g["unknown"] = m.unknown \o o.unknown
        /\ g["value"] = Abstract!Over(F("value"), m["value"], o["value"])
    BY <1>1, <1>11 DEF AsMerged
  <2>2. /\ Abstract!Over(F("value"), m["value"], o["value"]) = Unless(<<>>, o.value, m.value)
    BY ServiceDataSchema, OverIs
  <2>3. r = [x \in DOMAIN r |-> r[x]] /\ DOMAIN r = DOMAIN m /\ r["class"] = m.class
    BY <1>1, <1>4 DEF ServiceDataType
  <2>4. \A x \in DOMAIN m : r[x] = g[x]
    <3>. HIDE DEF r, F
    <3>1. /\ r["value"] = Unless(<<>>, o.value, m.value)
          /\ r["unknown"] = m.unknown \o o.unknown
      BY <1>7 DEF r
    <3>. QED
      BY <1>1, <2>1, <2>2, <2>3, <3>1
  <2>. HIDE DEF r
  <2>. QED
    BY <2>1, <2>3, <2>4 DEF r
<1>12. OTServiceData_MergeFrom(m, o) = Abstract!Merged(m, o)
  <2>1. \A x \in {"value"} : ~Abstract!IsOptional(F(x))
    BY ServiceDataSchema, OverIs
  <2>. QED
    BY <1>1, <1>11, <2>1, MergedPlain
<1>13. ASSUME NEW n \in OTServiceData_Accessors(m)
       PROVE  \E x \in Abstract!Names("OTServiceData") : n = [m EXCEPT ![x] = n[x]]
  <2>1. \/ \E v : n = [m EXCEPT !.value = v]
    BY DEF OTServiceData_Accessors
  <2>2. ASSUME NEW v, n = [m EXCEPT !.value = v] PROVE n = [m EXCEPT !["value"] = n["value"]]
    BY <1>1, <2>2
  <2>. QED
    BY <2>1, <2>2, ServiceDataSchema
<1>. QED
  BY <1>3, <1>5, <1>6, <1>9, <1>10, <1>11, <1>12, <1>13 DEF OTServiceData_CopyFrom

\* A Bytes is its fields.
LEMMA BytesSame ==
  ASSUME NEW U, NEW m \in BytesType(U), NEW o \in BytesType(U),
         m.bts = o.bts, m.unknown = o.unknown
  PROVE  m = o
<1>1. m = [x \in {"class", "unknown", "bts"} |-> m[x]] /\ m.class = "Bytes"
  BY DEF BytesType
<1>2. o = [x \in {"class", "unknown", "bts"} |-> o[x]] /\ o.class = "Bytes"
  BY DEF BytesType
<1>3. \A x \in {"class", "unknown", "bts"} : m[x] = o[x]
  BY <1>1, <1>2
<1>. QED
  BY <1>1, <1>2, <1>3

\* What the operations of Bytes do, in values.
LEMMA BytesValues ==
  ASSUME NEW U, NEW m \in BytesType(U), NEW o \in BytesType(U)
  PROVE  /\ Bytes_New = Abstract!Default("Bytes")
         /\ Bytes_Construct(o) = o /\ Bytes_Clear(m) = Bytes_New /\ Bytes_CopyFrom(m, o) = o
         /\ Bytes_MergeFrom(Bytes_New, o) = o /\ Bytes_Swap(m, o) = o
         /\ \A g : AsMerged(m, o, g) => Bytes_MergeFrom(m, o) = g
         /\ Bytes_MergeFrom(m, o) = Abstract!Merged(m, o)
         /\ \A n \in Bytes_Accessors(m) :
              \E x \in Abstract!Names("Bytes") : n = [m EXCEPT ![x] = n[x]]
<1>. DEFINE F(x) == Abstract!FieldOf("Bytes", x)
<1>1. /\ DOMAIN m = {"class", "unknown", "bts"} /\ m.class = "Bytes"
      /\ DOMAIN o = {"class", "unknown", "bts"}
      /\ DOMAIN Bytes_New = {"class", "unknown", "bts"} /\ Bytes_New.class = "Bytes"
      /\ Bytes_New.bts = <<>>
      /\ Bytes_New.unknown = <<>>
  BY DEF BytesType, Bytes_New
<1>2. m.unknown \in Seq(U) /\ o.unknown \in Seq(U) /\ o.bts \in Seq(Int)
  BY BytesMembers
<1>3. Bytes_New = Abstract!Default("Bytes")
  <2>. DEFINE d == Abstract!Default("Bytes")
  <2>1. d = [x \in DOMAIN d |-> d[x]] /\ DOMAIN d = {"class", "unknown", "bts"}
        /\ d.class = "Bytes" /\ d.unknown = <<>>
        /\ \A x \in {"bts"} : d[x] = Abstract!DefaultOf(F(x))
    BY BytesSchema DEF Abstract!Default
  <2>2. Abstract!DefaultOf(F("bts")) = <<>>
    BY BytesSchema, DefaultIs
  <2>3. Bytes_New = [x \in DOMAIN Bytes_New |-> Bytes_New[x]]
    BY DEF Bytes_New
  <2>. HIDE DEF d, F
  <2>4. DOMAIN d = DOMAIN Bytes_New /\ \A x \in DOMAIN d : d[x] = Bytes_New[x]
    BY <1>1, <2>1, <2>2
  <2>. QED
    BY <2>1, <2>3, <2>4 DEF d
<1>4. {Bytes_New, Bytes_Construct(o), Bytes_Clear(m), Bytes_MergeFrom(Bytes_New, o), Bytes_MergeFrom(m, o), Bytes_Swap(m, o)}
        \subseteq BytesType(U)
  <2>1. Bytes_New \in BytesType(U)
    BY BytesKept
  <2>2. {Bytes_Construct(o), Bytes_Clear(m), Bytes_MergeFrom(m, o), Bytes_Swap(m, o)} \subseteq BytesType(U)
    BY BytesKept
  <2>3. Bytes_MergeFrom(Bytes_New, o) \in BytesType(U)
    BY <2>1, BytesKept
  <2>. QED
    BY <2>1, <2>2, <2>3
<1>5. Bytes_Construct(o) = o
  <2>1. Bytes_Construct(o).bts = o.bts /\ Bytes_Construct(o).unknown = o.unknown
    BY <1>1 DEF Bytes_Construct
  <2>. QED
    BY <1>4, <2>1, BytesSame
<1>6. Bytes_Clear(m) = Bytes_New
  <2>1. Bytes_Clear(m).bts = <<>> /\ Bytes_Clear(m).unknown = <<>>
    BY <1>1 DEF Bytes_Clear
  <2>. QED
    BY <1>1, <1>4, <2>1, BytesSame
<1>7. /\ Bytes_MergeFrom(m, o).bts = m.bts \o o.bts
      /\ Bytes_MergeFrom(m, o).unknown = m.unknown \o o.unknown
  BY <1>1 DEF Bytes_MergeFrom
<1>8. /\ Bytes_MergeFrom(Bytes_New, o).bts = Bytes_New.bts \o o.bts
      /\ Bytes_MergeFrom(Bytes_New, o).unknown = Bytes_New.unknown \o o.unknown
  BY <1>1 DEF Bytes_MergeFrom
<1>9. Bytes_MergeFrom(Bytes_New, o) = o
  <2>1. /\ Bytes_New.bts \o o.bts = o.bts
        /\ Bytes_New.unknown \o o.unknown = o.unknown
    BY <1>1, <1>2 DEF Unless
  <2>. QED
    BY <1>4, <1>8, <2>1, BytesSame
<1>10. Bytes_Swap(m, o) = o
  <2>1. Bytes_Swap(m, o).bts = o.bts /\ Bytes_Swap(m, o).unknown = o.unknown
    BY <1>1 DEF Bytes_Swap
  <2>. QED
    BY <1>4, <2>1, BytesSame
<1>11. ASSUME NEW g, AsMerged(m, o, g) PROVE Bytes_MergeFrom(m, o) = g
  <2>. DEFINE r == Bytes_MergeFrom(m, o)
  <2>1. /\ g = [x \in DOMAIN m |-> g[x]] /\ g["class"] = m.class /\ g["unknown"] = m.unknown \o o.unknown
        /\ g["bts"] = Abstract!Over(F("bts"), m["bts"], o["bts"])
    BY <1>1, <1>11 DEF AsMerged
  <2>2. /\ Abstract!Over(F("bts"), m["bts"], o["bts"]) = m.bts \o o.bts
    <3>2. F("bts").label = "repeated"
      BY BytesSchema
    <3>3. /\ Abstract!Over(F("bts"), m["bts"], o["bts"]) = m.bts \o o.bts
      BY <3>2, RepeatedOver
    <3>. QED
      BY <3>3
  <2>3. r = [x \in DOMAIN r |-> r[x]] /\ DOMAIN r = DOMAIN m /\ r["class"] = m.class
    BY <1>1, <1>4 DEF BytesType
  <2>4. \A x \in DOMAIN m : r[x] = g[x]
    <3>. HIDE DEF r, F
    <3>1. /\ r["bts"] = m.bts \o o.bts
          /\ r["unknown"] = m.unknown \o o.unknown
      BY <1>7 DEF r
    <3>. QED
      BY <1>1, <2>1, <2>2, <2>3, <3>1
  <2>. HIDE DEF r
  <2>. QED
    BY <2>1, <2>3, <2>4 DEF r
<1>12. Bytes_MergeFrom(m, o) = Abstract!Merged(m, o)
  <2>1. \A x \in {"bts"} : ~Abstract!IsOptional(F(x))
    BY BytesSchema, OverIs
  <2>. QED
    BY <1>1, <1>11, <2>1, MergedPlain
<1>13. ASSUME NEW n \in Bytes_Accessors(m)
       PROVE  \E x \in Abstract!Names("Bytes") : n = [m EXCEPT ![x] = n[x]]
  <2>1. \/ \E v : n = [m EXCEPT !.bts = v]
    BY DEF Bytes_Accessors
  <2>2. ASSUME NEW v, n = [m EXCEPT !.bts = v] PROVE n = [m EXCEPT !["bts"] = n["bts"]]
    BY <1>1, <2>2
  <2>. QED
    BY <2>1, <2>2, BytesSchema
<1>. QED
  BY <1>3, <1>5, <1>6, <1>9, <1>10, <1>11, <1>12, <1>13 DEF Bytes_CopyFrom

\* A Fields is its fields.
LEMMA FieldsSame ==
  ASSUME NEW U, NEW m \in FieldsType(U), NEW o \in FieldsType(U),
         m.msg = o.msg, m.unknown = o.unknown
  PROVE  m = o
<1>1. m = [x \in {"class", "unknown", "msg"} |-> m[x]] /\ m.class = "Fields"
  BY DEF FieldsType
<1>2. o = [x \in {"class", "unknown", "msg"} |-> o[x]] /\ o.class = "Fields"
  BY DEF FieldsType
<1>3. \A x \in {"class", "unknown", "msg"} : m[x] = o[x]
  BY <1>1, <1>2
<1>. QED
  BY <1>1, <1>2, <1>3

\* What the operations of Fields do, in values.
LEMMA FieldsValues ==
  ASSUME NEW U, NEW m \in FieldsType(U), NEW o \in FieldsType(U)
  PROVE  /\ Fields_New = Abstract!Default("Fields")
         /\ Fields_Construct(o) = o /\ Fields_Clear(m) = Fields_New /\ Fields_CopyFrom(m, o) = o
         /\ Fields_MergeFrom(Fields_New, o) = o /\ Fields_Swap(m, o) = o
         /\ \A g : AsMerged(m, o, g) => Fields_MergeFrom(m, o) = g
         /\ Fields_MergeFrom(m, o) = Abstract!Merged(m, o)
         /\ \A n \in Fields_Accessors(m) :
              \E x \in Abstract!Names("Fields") : n = [m EXCEPT ![x] = n[x]]
<1>. DEFINE F(x) == Abstract!FieldOf("Fields", x)
<1>1. /\ DOMAIN m = {"class", "unknown", "msg"} /\ m.class = "Fields"
      /\ DOMAIN o = {"class", "unknown", "msg"}
      /\ DOMAIN Fields_New = {"class", "unknown", "msg"} /\ Fields_New.class = "Fields"
      /\ Fields_New.msg = <<>>
      /\ Fields_New.unknown = <<>>
  BY DEF FieldsType, Fields_New
<1>2. m.unknown \in Seq(U) /\ o.unknown \in Seq(U)
  BY FieldsMembers
<1>3. Fields_New = Abstract!Default("Fields")
  <2>. DEFINE d == Abstract!Default("Fields")
  <2>1. d = [x \in DOMAIN d |-> d[x]] /\ DOMAIN d = {"class", "unknown", "msg"}
        /\ d.class = "Fields" /\ d.unknown = <<>>
        /\ \A x \in {"msg"} : d[x] = Abstract!DefaultOf(F(x))
    BY FieldsSchema DEF Abstract!Default
  <2>2. Abstract!DefaultOf(F("msg")) = <<>>
    BY FieldsSchema, DefaultIs
  <2>3. Fields_New = [x \in DOMAIN Fields_New |-> Fields_New[x]]
    BY DEF Fields_New
  <2>. HIDE DEF d, F
  <2>4. DOMAIN d = DOMAIN Fields_New /\ \A x \in DOMAIN d : d[x] = Fields_New[x]
    BY <1>1, <2>1, <2>2
  <2>. QED
    BY <2>1, <2>3, <2>4 DEF d
<1>4. {Fields_New, Fields_Construct(o), Fields_Clear(m), Fields_MergeFrom(Fields_New, o), Fields_MergeFrom(m, o), Fields_Swap(m, o)}
        \subseteq FieldsType(U)
  <2>1. Fields_New \in FieldsType(U)
    BY FieldsKept
  <2>2. {Fields_Construct(o), Fields_Clear(m), Fields_MergeFrom(m, o), Fields_Swap(m, o)} \subseteq FieldsType(U)
    BY FieldsKept
  <2>3. Fields_MergeFrom(Fields_New, o) \in FieldsType(U)
    BY <2>1, FieldsKept
  <2>. QED
    BY <2>1, <2>2, <2>3
<1>5. Fields_Construct(o) = o
  <2>0. MergeMap(<<>>, o.msg) = o.msg
    BY FieldsMembers, MergedIntoNone
  <2>1. Fields_Construct(o).msg = o.msg /\ Fields_Construct(o).unknown = o.unknown
    BY <1>1, <2>0 DEF Fields_Construct
  <2>. QED
    BY <1>4, <2>1, FieldsSame
<1>6. Fields_Clear(m) = Fields_New
  <2>1. Fields_Clear(m).msg = <<>> /\ Fields_Clear(m).unknown = <<>>
    BY <1>1 DEF Fields_Clear
  <2>. QED
    BY <1>1, <1>4, <2>1, FieldsSame
<1>7. /\ Fields_MergeFrom(m, o).msg = MergeMap(m.msg, o.msg)
      /\ Fields_MergeFrom(m, o).unknown = m.unknown \o o.unknown
  BY <1>1 DEF Fields_MergeFrom
<1>8. /\ Fields_MergeFrom(Fields_New, o).msg = MergeMap(Fields_New.msg, o.msg)
      /\ Fields_MergeFrom(Fields_New, o).unknown = Fields_New.unknown \o o.unknown
  BY <1>1 DEF Fields_MergeFrom
<1>9. Fields_MergeFrom(Fields_New, o) = o
  <2>1. /\ MergeMap(Fields_New.msg, o.msg) = o.msg
        /\ Fields_New.unknown \o o.unknown = o.unknown
    BY <1>1, <1>2, FieldsMembers, MapsKnown, MergedIntoNone DEF Unless
  <2>. QED
    BY <1>4, <1>8, <2>1, FieldsSame
<1>10. Fields_Swap(m, o) = o
  <2>1. Fields_Swap(m, o).msg = o.msg /\ Fields_Swap(m, o).unknown = o.unknown
    BY <1>1 DEF Fields_Swap
  <2>. QED
    BY <1>4, <2>1, FieldsSame
<1>11. ASSUME NEW g, AsMerged(m, o, g) PROVE Fields_MergeFrom(m, o) = g
  <2>. DEFINE r == Fields_MergeFrom(m, o)
  <2>1. /\ g = [x \in DOMAIN m |-> g[x]] /\ g["class"] = m.class /\ g["unknown"] = m.unknown \o o.unknown
        /\ g["msg"] = Abstract!Over(F("msg"), m["msg"], o["msg"])
    BY <1>1, <1>11 DEF AsMerged
  <2>2. /\ Abstract!Over(F("msg"), m["msg"], o["msg"]) = MergeMap(m.msg, o.msg)
    BY FieldsSchema, OverIs
  <2>3. r = [x \in DOMAIN r |-> r[x]] /\ DOMAIN r = DOMAIN m /\ r["class"] = m.class
    BY <1>1, <1>4 DEF FieldsType
  <2>4. \A x \in DOMAIN m : r[x] = g[x]
    <3>. HIDE DEF r, F
    <3>1. /\ r["msg"] = MergeMap(m.msg, o.msg)
          /\ r["unknown"] = m.unknown \o o.unknown
      BY <1>7 DEF r
    <3>. QED
      BY <1>1, <2>1, <2>2, <2>3, <3>1
  <2>. HIDE DEF r
  <2>. QED
    BY <2>1, <2>3, <2>4 DEF r
<1>12. Fields_MergeFrom(m, o) = Abstract!Merged(m, o)
  <2>1. \A x \in {"msg"} : ~Abstract!IsOptional(F(x))
    BY FieldsSchema, OverIs
  <2>. QED
    BY <1>1, <1>11, <2>1, MergedPlain
<1>13. ASSUME NEW n \in Fields_Accessors(m)
       PROVE  \E x \in Abstract!Names("Fields") : n = [m EXCEPT ![x] = n[x]]
  <2>1. \/ \E v : n = [m EXCEPT !.msg = v]
    BY DEF Fields_Accessors
  <2>2. ASSUME NEW v, n = [m EXCEPT !.msg = v] PROVE n = [m EXCEPT !["msg"] = n["msg"]]
    BY <1>1, <2>2
  <2>. QED
    BY <2>1, <2>2, FieldsSchema
<1>. QED
  BY <1>3, <1>5, <1>6, <1>9, <1>10, <1>11, <1>12, <1>13 DEF Fields_CopyFrom

\* An OTServerRequest is its fields.
LEMMA ServerRequestSame ==
  ASSUME NEW U, NEW V, NEW m \in ServerRequestType(U, V), NEW o \in ServerRequestType(U, V),
         m.function = o.function, m.sessionToken = o.sessionToken, m.k = o.k, m.keys = o.keys, m.bytes = o.bytes, m.unknown = o.unknown
  PROVE  m = o
<1>1. m = [x \in {"class", "unknown", "function", "sessionToken", "k", "keys", "bytes"} |-> m[x]] /\ m.class = "OTServerRequest"
  BY DEF ServerRequestType
<1>2. o = [x \in {"class", "unknown", "function", "sessionToken", "k", "keys", "bytes"} |-> o[x]] /\ o.class = "OTServerRequest"
  BY DEF ServerRequestType
<1>3. \A x \in {"class", "unknown", "function", "sessionToken", "k", "keys", "bytes"} : m[x] = o[x]
  BY <1>1, <1>2
<1>. QED
  BY <1>1, <1>2, <1>3

\* What the operations of OTServerRequest do, in values.
LEMMA ServerRequestValues ==
  ASSUME NEW U, NEW V, NEW m \in ServerRequestType(U, V), NEW o \in ServerRequestType(U, V)
  PROVE  /\ OTServerRequest_New = Abstract!Default("OTServerRequest")
         /\ OTServerRequest_Construct(o) = o /\ OTServerRequest_Clear(m) = OTServerRequest_New /\ OTServerRequest_CopyFrom(m, o) = o
         /\ OTServerRequest_MergeFrom(OTServerRequest_New, o) = o /\ OTServerRequest_Swap(m, o) = o
         /\ \A g : AsMerged(m, o, g) => OTServerRequest_MergeFrom(m, o) = g
         /\ OTServerRequest_MergeFrom(m, o) = Abstract!Merged(m, o)
         /\ \A n \in OTServerRequest_Accessors(m) :
              \E x \in Abstract!Names("OTServerRequest") : n = [m EXCEPT ![x] = n[x]]
<1>. DEFINE F(x) == Abstract!FieldOf("OTServerRequest", x)
<1>1. /\ DOMAIN m = {"class", "unknown", "function", "sessionToken", "k", "keys", "bytes"} /\ m.class = "OTServerRequest"
      /\ DOMAIN o = {"class", "unknown", "function", "sessionToken", "k", "keys", "bytes"}
      /\ DOMAIN OTServerRequest_New = {"class", "unknown", "function", "sessionToken", "k", "keys", "bytes"} /\ OTServerRequest_New.class = "OTServerRequest"
      /\ OTServerRequest_New.function = <<>> /\ OTServerRequest_New.sessionToken = 0 /\ OTServerRequest_New.k = 0 /\ OTServerRequest_New.keys = <<>> /\ OTServerRequest_New.bytes = <<>>
      /\ OTServerRequest_New.unknown = <<>>
  BY DEF ServerRequestType, OTServerRequest_New
<1>2. m.unknown \in Seq(U) /\ o.unknown \in Seq(U) /\ o.keys \in Seq(Seq(Int)) /\ o.bytes \in Seq(BytesType(V))
  BY ServerRequestMembers
<1>3. OTServerRequest_New = Abstract!Default("OTServerRequest")
  <2>. DEFINE d == Abstract!Default("OTServerRequest")
  <2>1. d = [x \in DOMAIN d |-> d[x]] /\ DOMAIN d = {"class", "unknown", "function", "sessionToken", "k", "keys", "bytes"}
        /\ d.class = "OTServerRequest" /\ d.unknown = <<>>
        /\ \A x \in {"function", "sessionToken", "k", "keys", "bytes"} : d[x] = Abstract!DefaultOf(F(x))
    BY ServerRequestSchema DEF Abstract!Default
  <2>2. Abstract!DefaultOf(F("function")) = <<>> /\ Abstract!DefaultOf(F("sessionToken")) = 0 /\ Abstract!DefaultOf(F("k")) = 0 /\ Abstract!DefaultOf(F("keys")) = <<>> /\ Abstract!DefaultOf(F("bytes")) = <<>>
    BY ServerRequestSchema, DefaultIs
  <2>3. OTServerRequest_New = [x \in DOMAIN OTServerRequest_New |-> OTServerRequest_New[x]]
    BY DEF OTServerRequest_New
  <2>. HIDE DEF d, F
  <2>4. DOMAIN d = DOMAIN OTServerRequest_New /\ \A x \in DOMAIN d : d[x] = OTServerRequest_New[x]
    BY <1>1, <2>1, <2>2
  <2>. QED
    BY <2>1, <2>3, <2>4 DEF d
<1>4. {OTServerRequest_New, OTServerRequest_Construct(o), OTServerRequest_Clear(m), OTServerRequest_MergeFrom(OTServerRequest_New, o), OTServerRequest_MergeFrom(m, o), OTServerRequest_Swap(m, o)}
        \subseteq ServerRequestType(U, V)
  <2>1. OTServerRequest_New \in ServerRequestType(U, V)
    BY ServerRequestKept
  <2>2. {OTServerRequest_Construct(o), OTServerRequest_Clear(m), OTServerRequest_MergeFrom(m, o), OTServerRequest_Swap(m, o)} \subseteq ServerRequestType(U, V)
    BY ServerRequestKept
  <2>3. OTServerRequest_MergeFrom(OTServerRequest_New, o) \in ServerRequestType(U, V)
    BY <2>1, ServerRequestKept
  <2>. QED
    BY <2>1, <2>2, <2>3
<1>5. OTServerRequest_Construct(o) = o
  <2>1. OTServerRequest_Construct(o).function = o.function /\ OTServerRequest_Construct(o).sessionToken = o.sessionToken /\ OTServerRequest_Construct(o).k = o.k /\ OTServerRequest_Construct(o).keys = o.keys /\ OTServerRequest_Construct(o).bytes = o.bytes /\ OTServerRequest_Construct(o).unknown = o.unknown
    BY <1>1 DEF OTServerRequest_Construct
  <2>. QED
    BY <1>4, <2>1, ServerRequestSame
<1>6. OTServerRequest_Clear(m) = OTServerRequest_New
  <2>1. OTServerRequest_Clear(m).function = <<>> /\ OTServerRequest_Clear(m).sessionToken = 0 /\ OTServerRequest_Clear(m).k = 0 /\ OTServerRequest_Clear(m).keys = <<>> /\ OTServerRequest_Clear(m).bytes = <<>> /\ OTServerRequest_Clear(m).unknown = <<>>
    BY <1>1 DEF OTServerRequest_Clear
  <2>. QED
    BY <1>1, <1>4, <2>1, ServerRequestSame
<1>7. /\ OTServerRequest_MergeFrom(m, o).function = Unless(<<>>, o.function, m.function)
      /\ OTServerRequest_MergeFrom(m, o).sessionToken = Unless(0, o.sessionToken, m.sessionToken)
      /\ OTServerRequest_MergeFrom(m, o).k = Unless(0, o.k, m.k)
      /\ OTServerRequest_MergeFrom(m, o).keys = m.keys \o o.keys
      /\ OTServerRequest_MergeFrom(m, o).bytes = m.bytes \o o.bytes
      /\ OTServerRequest_MergeFrom(m, o).unknown = m.unknown \o o.unknown
  BY <1>1 DEF OTServerRequest_MergeFrom
<1>8. /\ OTServerRequest_MergeFrom(OTServerRequest_New, o).function = Unless(<<>>, o.function, OTServerRequest_New.function)
      /\ OTServerRequest_MergeFrom(OTServerRequest_New, o).sessionToken = Unless(0, o.sessionToken, OTServerRequest_New.sessionToken)
      /\ OTServerRequest_MergeFrom(OTServerRequest_New, o).k = Unless(0, o.k, OTServerRequest_New.k)
      /\ OTServerRequest_MergeFrom(OTServerRequest_New, o).keys = OTServerRequest_New.keys \o o.keys
      /\ OTServerRequest_MergeFrom(OTServerRequest_New, o).bytes = OTServerRequest_New.bytes \o o.bytes
      /\ OTServerRequest_MergeFrom(OTServerRequest_New, o).unknown = OTServerRequest_New.unknown \o o.unknown
  BY <1>1 DEF OTServerRequest_MergeFrom
<1>9. OTServerRequest_MergeFrom(OTServerRequest_New, o) = o
  <2>1. /\ Unless(<<>>, o.function, OTServerRequest_New.function) = o.function
        /\ Unless(0, o.sessionToken, OTServerRequest_New.sessionToken) = o.sessionToken
        /\ Unless(0, o.k, OTServerRequest_New.k) = o.k
        /\ OTServerRequest_New.keys \o o.keys = o.keys
        /\ OTServerRequest_New.bytes \o o.bytes = o.bytes
        /\ OTServerRequest_New.unknown \o o.unknown = o.unknown
    BY <1>1, <1>2 DEF Unless
  <2>. QED
    BY <1>4, <1>8, <2>1, ServerRequestSame
<1>10. OTServerRequest_Swap(m, o) = o
  <2>1. OTServerRequest_Swap(m, o).function = o.function /\ OTServerRequest_Swap(m, o).sessionToken = o.sessionToken /\ OTServerRequest_Swap(m, o).k = o.k /\ OTServerRequest_Swap(m, o).keys = o.keys /\ OTServerRequest_Swap(m, o).bytes = o.bytes /\ OTServerRequest_Swap(m, o).unknown = o.unknown
    BY <1>1 DEF OTServerRequest_Swap
  <2>. QED
    BY <1>4, <2>1, ServerRequestSame
<1>11. ASSUME NEW g, AsMerged(m, o, g) PROVE OTServerRequest_MergeFrom(m, o) = g
  <2>. DEFINE r == OTServerRequest_MergeFrom(m, o)
  <2>1. /\ g = [x \in DOMAIN m |-> g[x]] /\ g["class"] = m.class /\ g["unknown"] = m.unknown \o o.unknown
        /\ g["function"] = Abstract!Over(F("function"), m["function"], o["function"])
        /\ g["sessionToken"] = Abstract!Over(F("sessionToken"), m["sessionToken"], o["sessionToken"])
        /\ g["k"] = Abstract!Over(F("k"), m["k"], o["k"])
        /\ g["keys"] = Abstract!Over(F("keys"), m["keys"], o["keys"])
        /\ g["bytes"] = Abstract!Over(F("bytes"), m["bytes"], o["bytes"])
    BY <1>1, <1>11 DEF AsMerged
  <2>2. /\ Abstract!Over(F("function"), m["function"], o["function"]) = Unless(<<>>, o.function, m.function)
        /\ Abstract!Over(F("sessionToken"), m["sessionToken"], o["sessionToken"]) = Unless(0, o.sessionToken, m.sessionToken)
        /\ Abstract!Over(F("k"), m["k"], o["k"]) = Unless(0, o.k, m.k)
        /\ Abstract!Over(F("keys"), m["keys"], o["keys"]) = m.keys \o o.keys
        /\ Abstract!Over(F("bytes"), m["bytes"], o["bytes"]) = m.bytes \o o.bytes
    <3>1. /\ Abstract!Over(F("function"), m["function"], o["function"]) = Unless(<<>>, o.function, m.function)
          /\ Abstract!Over(F("sessionToken"), m["sessionToken"], o["sessionToken"]) = Unless(0, o.sessionToken, m.sessionToken)
          /\ Abstract!Over(F("k"), m["k"], o["k"]) = Unless(0, o.k, m.k)
      BY ServerRequestSchema, OverIs
    <3>2. F("keys").label = "repeated" /\ F("bytes").label = "repeated"
      BY ServerRequestSchema
    <3>3. /\ Abstract!Over(F("keys"), m["keys"], o["keys"]) = m.keys \o o.keys
          /\ Abstract!Over(F("bytes"), m["bytes"], o["bytes"]) = m.bytes \o o.bytes
      BY <3>2, RepeatedOver
    <3>. QED
      BY <3>1, <3>3
  <2>3. r = [x \in DOMAIN r |-> r[x]] /\ DOMAIN r = DOMAIN m /\ r["class"] = m.class
    BY <1>1, <1>4 DEF ServerRequestType
  <2>4. \A x \in DOMAIN m : r[x] = g[x]
    <3>. HIDE DEF r, F
    <3>1. /\ r["function"] = Unless(<<>>, o.function, m.function)
          /\ r["sessionToken"] = Unless(0, o.sessionToken, m.sessionToken)
          /\ r["k"] = Unless(0, o.k, m.k)
          /\ r["keys"] = m.keys \o o.keys
          /\ r["bytes"] = m.bytes \o o.bytes
          /\ r["unknown"] = m.unknown \o o.unknown
      BY <1>7 DEF r
    <3>. QED
      BY <1>1, <2>1, <2>2, <2>3, <3>1
  <2>. HIDE DEF r
  <2>. QED
    BY <2>1, <2>3, <2>4 DEF r
<1>12. OTServerRequest_MergeFrom(m, o) = Abstract!Merged(m, o)
  <2>1. \A x \in {"function", "sessionToken", "k", "keys", "bytes"} : ~Abstract!IsOptional(F(x))
    BY ServerRequestSchema, OverIs
  <2>. QED
    BY <1>1, <1>11, <2>1, MergedPlain
<1>13. ASSUME NEW n \in OTServerRequest_Accessors(m)
       PROVE  \E x \in Abstract!Names("OTServerRequest") : n = [m EXCEPT ![x] = n[x]]
  <2>1. \/ \E v : n = [m EXCEPT !.function = v]
        \/ \E v : n = [m EXCEPT !.sessionToken = v]
        \/ \E v : n = [m EXCEPT !.k = v]
        \/ \E v : n = [m EXCEPT !.keys = v]
        \/ \E v : n = [m EXCEPT !.bytes = v]
    BY DEF OTServerRequest_Accessors
  <2>2. ASSUME NEW v, n = [m EXCEPT !.function = v] PROVE n = [m EXCEPT !["function"] = n["function"]]
    BY <1>1, <2>2
  <2>3. ASSUME NEW v, n = [m EXCEPT !.sessionToken = v] PROVE n = [m EXCEPT !["sessionToken"] = n["sessionToken"]]
    BY <1>1, <2>3
  <2>4. ASSUME NEW v, n = [m EXCEPT !.k = v] PROVE n = [m EXCEPT !["k"] = n["k"]]
    BY <1>1, <2>4
  <2>5. ASSUME NEW v, n = [m EXCEPT !.keys = v] PROVE n = [m EXCEPT !["keys"] = n["keys"]]
    BY <1>1, <2>5
  <2>6. ASSUME NEW v, n = [m EXCEPT !.bytes = v] PROVE n = [m EXCEPT !["bytes"] = n["bytes"]]
    BY <1>1, <2>6
  <2>. QED
    BY <2>1, <2>2, <2>3, <2>4, <2>5, <2>6, ServerRequestSchema
<1>. QED
  BY <1>3, <1>5, <1>6, <1>9, <1>10, <1>11, <1>12, <1>13 DEF OTServerRequest_CopyFrom

\* An OTServerResponse is its fields.
LEMMA ServerResponseSame ==
  ASSUME NEW U, NEW V, NEW m \in ServerResponseType(U, V), NEW o \in ServerResponseType(U, V),
         m.function = o.function, m.values = o.values, m.bytes = o.bytes, m.unknown = o.unknown
  PROVE  m = o
<1>1. m = [x \in {"class", "unknown", "function", "values", "bytes"} |-> m[x]] /\ m.class = "OTServerResponse"
  BY DEF ServerResponseType
<1>2. o = [x \in {"class", "unknown", "function", "values", "bytes"} |-> o[x]] /\ o.class = "OTServerResponse"
  BY DEF ServerResponseType
<1>3. \A x \in {"class", "unknown", "function", "values", "bytes"} : m[x] = o[x]
  BY <1>1, <1>2
<1>. QED
  BY <1>1, <1>2, <1>3

\* What the operations of OTServerResponse do, in values.
LEMMA ServerResponseValues ==
  ASSUME NEW U, NEW V, NEW m \in ServerResponseType(U, V), NEW o \in ServerResponseType(U, V)
  PROVE  /\ OTServerResponse_New = Abstract!Default("OTServerResponse")
         /\ OTServerResponse_Construct(o) = o /\ OTServerResponse_Clear(m) = OTServerResponse_New /\ OTServerResponse_CopyFrom(m, o) = o
         /\ OTServerResponse_MergeFrom(OTServerResponse_New, o) = o /\ OTServerResponse_Swap(m, o) = o
         /\ \A g : AsMerged(m, o, g) => OTServerResponse_MergeFrom(m, o) = g
         /\ OTServerResponse_MergeFrom(m, o) = Abstract!Merged(m, o)
         /\ \A n \in OTServerResponse_Accessors(m) :
              \E x \in Abstract!Names("OTServerResponse") : n = [m EXCEPT ![x] = n[x]]
<1>. DEFINE F(x) == Abstract!FieldOf("OTServerResponse", x)
<1>1. /\ DOMAIN m = {"class", "unknown", "function", "values", "bytes"} /\ m.class = "OTServerResponse"
      /\ DOMAIN o = {"class", "unknown", "function", "values", "bytes"}
      /\ DOMAIN OTServerResponse_New = {"class", "unknown", "function", "values", "bytes"} /\ OTServerResponse_New.class = "OTServerResponse"
      /\ OTServerResponse_New.function = <<>> /\ OTServerResponse_New.values = <<>> /\ OTServerResponse_New.bytes = <<>>
      /\ OTServerResponse_New.unknown = <<>>
  BY DEF ServerResponseType, OTServerResponse_New
<1>2. m.unknown \in Seq(U) /\ o.unknown \in Seq(U) /\ o.values \in Seq(Seq(Int)) /\ o.bytes \in Seq(BytesType(V))
  BY ServerResponseMembers
<1>3. OTServerResponse_New = Abstract!Default("OTServerResponse")
  <2>. DEFINE d == Abstract!Default("OTServerResponse")
  <2>1. d = [x \in DOMAIN d |-> d[x]] /\ DOMAIN d = {"class", "unknown", "function", "values", "bytes"}
        /\ d.class = "OTServerResponse" /\ d.unknown = <<>>
        /\ \A x \in {"function", "values", "bytes"} : d[x] = Abstract!DefaultOf(F(x))
    BY ServerResponseSchema DEF Abstract!Default
  <2>2. Abstract!DefaultOf(F("function")) = <<>> /\ Abstract!DefaultOf(F("values")) = <<>> /\ Abstract!DefaultOf(F("bytes")) = <<>>
    BY ServerResponseSchema, DefaultIs
  <2>3. OTServerResponse_New = [x \in DOMAIN OTServerResponse_New |-> OTServerResponse_New[x]]
    BY DEF OTServerResponse_New
  <2>. HIDE DEF d, F
  <2>4. DOMAIN d = DOMAIN OTServerResponse_New /\ \A x \in DOMAIN d : d[x] = OTServerResponse_New[x]
    BY <1>1, <2>1, <2>2
  <2>. QED
    BY <2>1, <2>3, <2>4 DEF d
<1>4. {OTServerResponse_New, OTServerResponse_Construct(o), OTServerResponse_Clear(m), OTServerResponse_MergeFrom(OTServerResponse_New, o), OTServerResponse_MergeFrom(m, o), OTServerResponse_Swap(m, o)}
        \subseteq ServerResponseType(U, V)
  <2>1. OTServerResponse_New \in ServerResponseType(U, V)
    BY ServerResponseKept
  <2>2. {OTServerResponse_Construct(o), OTServerResponse_Clear(m), OTServerResponse_MergeFrom(m, o), OTServerResponse_Swap(m, o)} \subseteq ServerResponseType(U, V)
    BY ServerResponseKept
  <2>3. OTServerResponse_MergeFrom(OTServerResponse_New, o) \in ServerResponseType(U, V)
    BY <2>1, ServerResponseKept
  <2>. QED
    BY <2>1, <2>2, <2>3
<1>5. OTServerResponse_Construct(o) = o
  <2>1. OTServerResponse_Construct(o).function = o.function /\ OTServerResponse_Construct(o).values = o.values /\ OTServerResponse_Construct(o).bytes = o.bytes /\ OTServerResponse_Construct(o).unknown = o.unknown
    BY <1>1 DEF OTServerResponse_Construct
  <2>. QED
    BY <1>4, <2>1, ServerResponseSame
<1>6. OTServerResponse_Clear(m) = OTServerResponse_New
  <2>1. OTServerResponse_Clear(m).function = <<>> /\ OTServerResponse_Clear(m).values = <<>> /\ OTServerResponse_Clear(m).bytes = <<>> /\ OTServerResponse_Clear(m).unknown = <<>>
    BY <1>1 DEF OTServerResponse_Clear
  <2>. QED
    BY <1>1, <1>4, <2>1, ServerResponseSame
<1>7. /\ OTServerResponse_MergeFrom(m, o).function = Unless(<<>>, o.function, m.function)
      /\ OTServerResponse_MergeFrom(m, o).values = m.values \o o.values
      /\ OTServerResponse_MergeFrom(m, o).bytes = m.bytes \o o.bytes
      /\ OTServerResponse_MergeFrom(m, o).unknown = m.unknown \o o.unknown
  BY <1>1 DEF OTServerResponse_MergeFrom
<1>8. /\ OTServerResponse_MergeFrom(OTServerResponse_New, o).function = Unless(<<>>, o.function, OTServerResponse_New.function)
      /\ OTServerResponse_MergeFrom(OTServerResponse_New, o).values = OTServerResponse_New.values \o o.values
      /\ OTServerResponse_MergeFrom(OTServerResponse_New, o).bytes = OTServerResponse_New.bytes \o o.bytes
      /\ OTServerResponse_MergeFrom(OTServerResponse_New, o).unknown = OTServerResponse_New.unknown \o o.unknown
  BY <1>1 DEF OTServerResponse_MergeFrom
<1>9. OTServerResponse_MergeFrom(OTServerResponse_New, o) = o
  <2>1. /\ Unless(<<>>, o.function, OTServerResponse_New.function) = o.function
        /\ OTServerResponse_New.values \o o.values = o.values
        /\ OTServerResponse_New.bytes \o o.bytes = o.bytes
        /\ OTServerResponse_New.unknown \o o.unknown = o.unknown
    BY <1>1, <1>2 DEF Unless
  <2>. QED
    BY <1>4, <1>8, <2>1, ServerResponseSame
<1>10. OTServerResponse_Swap(m, o) = o
  <2>1. OTServerResponse_Swap(m, o).function = o.function /\ OTServerResponse_Swap(m, o).values = o.values /\ OTServerResponse_Swap(m, o).bytes = o.bytes /\ OTServerResponse_Swap(m, o).unknown = o.unknown
    BY <1>1 DEF OTServerResponse_Swap
  <2>. QED
    BY <1>4, <2>1, ServerResponseSame
<1>11. ASSUME NEW g, AsMerged(m, o, g) PROVE OTServerResponse_MergeFrom(m, o) = g
  <2>. DEFINE r == OTServerResponse_MergeFrom(m, o)
  <2>1. /\ g = [x \in DOMAIN m |-> g[x]] /\ g["class"] = m.class /\ g["unknown"] = m.unknown \o o.unknown
        /\ g["function"] = Abstract!Over(F("function"), m["function"], o["function"])
        /\ g["values"] = Abstract!Over(F("values"), m["values"], o["values"])
        /\ g["bytes"] = Abstract!Over(F("bytes"), m["bytes"], o["bytes"])
    BY <1>1, <1>11 DEF AsMerged
  <2>2. /\ Abstract!Over(F("function"), m["function"], o["function"]) = Unless(<<>>, o.function, m.function)
        /\ Abstract!Over(F("values"), m["values"], o["values"]) = m.values \o o.values
        /\ Abstract!Over(F("bytes"), m["bytes"], o["bytes"]) = m.bytes \o o.bytes
    <3>1. /\ Abstract!Over(F("function"), m["function"], o["function"]) = Unless(<<>>, o.function, m.function)
      BY ServerResponseSchema, OverIs
    <3>2. F("values").label = "repeated" /\ F("bytes").label = "repeated"
      BY ServerResponseSchema
    <3>3. /\ Abstract!Over(F("values"), m["values"], o["values"]) = m.values \o o.values
          /\ Abstract!Over(F("bytes"), m["bytes"], o["bytes"]) = m.bytes \o o.bytes
      BY <3>2, RepeatedOver
    <3>. QED
      BY <3>1, <3>3
  <2>3. r = [x \in DOMAIN r |-> r[x]] /\ DOMAIN r = DOMAIN m /\ r["class"] = m.class
    BY <1>1, <1>4 DEF ServerResponseType
  <2>4. \A x \in DOMAIN m : r[x] = g[x]
    <3>. HIDE DEF r, F
    <3>1. /\ r["function"] = Unless(<<>>, o.function, m.function)
          /\ r["values"] = m.values \o o.values
          /\ r["bytes"] = m.bytes \o o.bytes
          /\ r["unknown"] = m.unknown \o o.unknown
      BY <1>7 DEF r
    <3>. QED
      BY <1>1, <2>1, <2>2, <2>3, <3>1
  <2>. HIDE DEF r
  <2>. QED
    BY <2>1, <2>3, <2>4 DEF r
<1>12. OTServerResponse_MergeFrom(m, o) = Abstract!Merged(m, o)
  <2>1. \A x \in {"function", "values", "bytes"} : ~Abstract!IsOptional(F(x))
    BY ServerResponseSchema, OverIs
  <2>. QED
    BY <1>1, <1>11, <2>1, MergedPlain
<1>13. ASSUME NEW n \in OTServerResponse_Accessors(m)
       PROVE  \E x \in Abstract!Names("OTServerResponse") : n = [m EXCEPT ![x] = n[x]]
  <2>1. \/ \E v : n = [m EXCEPT !.function = v]
        \/ \E v : n = [m EXCEPT !.values = v]
        \/ \E v : n = [m EXCEPT !.bytes = v]
    BY DEF OTServerResponse_Accessors
  <2>2. ASSUME NEW v, n = [m EXCEPT !.function = v] PROVE n = [m EXCEPT !["function"] = n["function"]]
    BY <1>1, <2>2
  <2>3. ASSUME NEW v, n = [m EXCEPT !.values = v] PROVE n = [m EXCEPT !["values"] = n["values"]]
    BY <1>1, <2>3
  <2>4. ASSUME NEW v, n = [m EXCEPT !.bytes = v] PROVE n = [m EXCEPT !["bytes"] = n["bytes"]]
    BY <1>1, <2>4
  <2>. QED
    BY <2>1, <2>2, <2>3, <2>4, ServerResponseSchema
<1>. QED
  BY <1>3, <1>5, <1>6, <1>9, <1>10, <1>11, <1>12, <1>13 DEF OTServerResponse_CopyFrom

\* An OTClientRequest is its fields.
LEMMA ClientRequestSame ==
  ASSUME NEW U, NEW m \in ClientRequestType(U), NEW o \in ClientRequestType(U),
         m.function = o.function, m.uinWithLabelMap = o.uinWithLabelMap, m.unknown = o.unknown
  PROVE  m = o
<1>1. m = [x \in {"class", "unknown", "function", "uinWithLabelMap"} |-> m[x]] /\ m.class = "OTClientRequest"
  BY DEF ClientRequestType
<1>2. o = [x \in {"class", "unknown", "function", "uinWithLabelMap"} |-> o[x]] /\ o.class = "OTClientRequest"
  BY DEF ClientRequestType
<1>3. \A x \in {"class", "unknown", "function", "uinWithLabelMap"} : m[x] = o[x]
  BY <1>1, <1>2
<1>. QED
  BY <1>1, <1>2, <1>3

\* What the operations of OTClientRequest do, in values.
LEMMA ClientRequestValues ==
  ASSUME NEW U, NEW m \in ClientRequestType(U), NEW o \in ClientRequestType(U)
  PROVE  /\ OTClientRequest_New = Abstract!Default("OTClientRequest")
         /\ OTClientRequest_Construct(o) = o /\ OTClientRequest_Clear(m) = OTClientRequest_New /\ OTClientRequest_CopyFrom(m, o) = o
         /\ OTClientRequest_MergeFrom(OTClientRequest_New, o) = o /\ OTClientRequest_Swap(m, o) = o
         /\ \A g : AsMerged(m, o, g) => OTClientRequest_MergeFrom(m, o) = g
         /\ OTClientRequest_MergeFrom(m, o) = Abstract!Merged(m, o)
         /\ \A n \in OTClientRequest_Accessors(m) :
              \E x \in Abstract!Names("OTClientRequest") : n = [m EXCEPT ![x] = n[x]]
<1>. DEFINE F(x) == Abstract!FieldOf("OTClientRequest", x)
<1>1. /\ DOMAIN m = {"class", "unknown", "function", "uinWithLabelMap"} /\ m.class = "OTClientRequest"
      /\ DOMAIN o = {"class", "unknown", "function", "uinWithLabelMap"}
      /\ DOMAIN OTClientRequest_New = {"class", "unknown", "function", "uinWithLabelMap"} /\ OTClientRequest_New.class = "OTClientRequest"
      /\ OTClientRequest_New.function = <<>> /\ OTClientRequest_New.uinWithLabelMap = <<>>
      /\ OTClientRequest_New.unknown = <<>>
  BY DEF ClientRequestType, OTClientRequest_New
<1>2. m.unknown \in Seq(U) /\ o.unknown \in Seq(U)
  BY ClientRequestMembers
<1>3. OTClientRequest_New = Abstract!Default("OTClientRequest")
  <2>. DEFINE d == Abstract!Default("OTClientRequest")
  <2>1. d = [x \in DOMAIN d |-> d[x]] /\ DOMAIN d = {"class", "unknown", "function", "uinWithLabelMap"}
        /\ d.class = "OTClientRequest" /\ d.unknown = <<>>
        /\ \A x \in {"function", "uinWithLabelMap"} : d[x] = Abstract!DefaultOf(F(x))
    BY ClientRequestSchema DEF Abstract!Default
  <2>2. Abstract!DefaultOf(F("function")) = <<>> /\ Abstract!DefaultOf(F("uinWithLabelMap")) = <<>>
    BY ClientRequestSchema, DefaultIs
  <2>3. OTClientRequest_New = [x \in DOMAIN OTClientRequest_New |-> OTClientRequest_New[x]]
    BY DEF OTClientRequest_New
  <2>. HIDE DEF d, F
  <2>4. DOMAIN d = DOMAIN OTClientRequest_New /\ \A x \in DOMAIN d : d[x] = OTClientRequest_New[x]
    BY <1>1, <2>1, <2>2
  <2>. QED
    BY <2>1, <2>3, <2>4 DEF d
<1>4. {OTClientRequest_New, OTClientRequest_Construct(o), OTClientRequest_Clear(m), OTClientRequest_MergeFrom(OTClientRequest_New, o), OTClientRequest_MergeFrom(m, o), OTClientRequest_Swap(m, o)}
        \subseteq ClientRequestType(U)
  <2>1. OTClientRequest_New \in ClientRequestType(U)
    BY ClientRequestKept
  <2>2. {OTClientRequest_Construct(o), OTClientRequest_Clear(m), OTClientRequest_MergeFrom(m, o), OTClientRequest_Swap(m, o)} \subseteq ClientRequestType(U)
    BY ClientRequestKept
  <2>3. OTClientRequest_MergeFrom(OTClientRequest_New, o) \in ClientRequestType(U)
    BY <2>1, ClientRequestKept
  <2>. QED
    BY <2>1, <2>2, <2>3
<1>5. OTClientRequest_Construct(o) = o
  <2>0. MergeMap(<<>>, o.uinWithLabelMap) = o.uinWithLabelMap
    BY ClientRequestMembers, MergedIntoNone
  <2>1. OTClientRequest_Construct(o).function = o.function /\ OTClientRequest_Construct(o).uinWithLabelMap = o.uinWithLabelMap /\ OTClientRequest_Construct(o).unknown = o.unknown
    BY <1>1, <2>0 DEF OTClientRequest_Construct
  <2>. QED
    BY <1>4, <2>1, ClientRequestSame
<1>6. OTClientRequest_Clear(m) = OTClientRequest_New
  <2>1. OTClientRequest_Clear(m).function = <<>> /\ OTClientRequest_Clear(m).uinWithLabelMap = <<>> /\ OTClientRequest_Clear(m).unknown = <<>>
    BY <1>1 DEF OTClientRequest_Clear
  <2>. QED
    BY <1>1, <1>4, <2>1, ClientRequestSame
<1>7. /\ OTClientRequest_MergeFrom(m, o).function = Unless(<<>>, o.function, m.function)
      /\ OTClientRequest_MergeFrom(m, o).uinWithLabelMap = MergeMap(m.uinWithLabelMap, o.uinWithLabelMap)
      /\ OTClientRequest_MergeFrom(m, o).unknown = m.unknown \o o.unknown
  BY <1>1 DEF OTClientRequest_MergeFrom
<1>8. /\ OTClientRequest_MergeFrom(OTClientRequest_New, o).function = Unless(<<>>, o.function, OTClientRequest_New.function)
      /\ OTClientRequest_MergeFrom(OTClientRequest_New, o).uinWithLabelMap = MergeMap(OTClientRequest_New.uinWithLabelMap, o.uinWithLabelMap)
      /\ OTClientRequest_MergeFrom(OTClientRequest_New, o).unknown = OTClientRequest_New.unknown \o o.unknown
  BY <1>1 DEF OTClientRequest_MergeFrom
<1>9. OTClientRequest_MergeFrom(OTClientRequest_New, o) = o
  <2>1. /\ Unless(<<>>, o.function, OTClientRequest_New.function) = o.function
        /\ MergeMap(OTClientRequest_New.uinWithLabelMap, o.uinWithLabelMap) = o.uinWithLabelMap
        /\ OTClientRequest_New.unknown \o o.unknown = o.unknown
    BY <1>1, <1>2, ClientRequestMembers, MapsKnown, MergedIntoNone DEF Unless
  <2>. QED
    BY <1>4, <1>8, <2>1, ClientRequestSame
<1>10. OTClientRequest_Swap(m, o) = o
  <2>1. OTClientRequest_Swap(m, o).function = o.function /\ OTClientRequest_Swap(m, o).uinWithLabelMap = o.uinWithLabelMap /\ OTClientRequest_Swap(m, o).unknown = o.unknown
    BY <1>1 DEF OTClientRequest_Swap
  <2>. QED
    BY <1>4, <2>1, ClientRequestSame
<1>11. ASSUME NEW g, AsMerged(m, o, g) PROVE OTClientRequest_MergeFrom(m, o) = g
  <2>. DEFINE r == OTClientRequest_MergeFrom(m, o)
  <2>1. /\ g = [x \in DOMAIN m |-> g[x]] /\ g["class"] = m.class /\ g["unknown"] = m.unknown \o o.unknown
        /\ g["function"] = Abstract!Over(F("function"), m["function"], o["function"])
        /\ g["uinWithLabelMap"] = Abstract!Over(F("uinWithLabelMap"), m["uinWithLabelMap"], o["uinWithLabelMap"])
    BY <1>1, <1>11 DEF AsMerged
  <2>2. /\ Abstract!Over(F("function"), m["function"], o["function"]) = Unless(<<>>, o.function, m.function)
        /\ Abstract!Over(F("uinWithLabelMap"), m["uinWithLabelMap"], o["uinWithLabelMap"]) = MergeMap(m.uinWithLabelMap, o.uinWithLabelMap)
    BY ClientRequestSchema, OverIs
  <2>3. r = [x \in DOMAIN r |-> r[x]] /\ DOMAIN r = DOMAIN m /\ r["class"] = m.class
    BY <1>1, <1>4 DEF ClientRequestType
  <2>4. \A x \in DOMAIN m : r[x] = g[x]
    <3>. HIDE DEF r, F
    <3>1. /\ r["function"] = Unless(<<>>, o.function, m.function)
          /\ r["uinWithLabelMap"] = MergeMap(m.uinWithLabelMap, o.uinWithLabelMap)
          /\ r["unknown"] = m.unknown \o o.unknown
      BY <1>7 DEF r
    <3>. QED
      BY <1>1, <2>1, <2>2, <2>3, <3>1
  <2>. HIDE DEF r
  <2>. QED
    BY <2>1, <2>3, <2>4 DEF r
<1>12. OTClientRequest_MergeFrom(m, o) = Abstract!Merged(m, o)
  <2>1. \A x \in {"function", "uinWithLabelMap"} : ~Abstract!IsOptional(F(x))
    BY ClientRequestSchema, OverIs
  <2>. QED
    BY <1>1, <1>11, <2>1, MergedPlain
<1>13. ASSUME NEW n \in OTClientRequest_Accessors(m)
       PROVE  \E x \in Abstract!Names("OTClientRequest") : n = [m EXCEPT ![x] = n[x]]
  <2>1. \/ \E v : n = [m EXCEPT !.function = v]
        \/ \E v : n = [m EXCEPT !.uinWithLabelMap = v]
    BY DEF OTClientRequest_Accessors
  <2>2. ASSUME NEW v, n = [m EXCEPT !.function = v] PROVE n = [m EXCEPT !["function"] = n["function"]]
    BY <1>1, <2>2
  <2>3. ASSUME NEW v, n = [m EXCEPT !.uinWithLabelMap = v] PROVE n = [m EXCEPT !["uinWithLabelMap"] = n["uinWithLabelMap"]]
    BY <1>1, <2>3
  <2>. QED
    BY <2>1, <2>2, <2>3, ClientRequestSchema
<1>. QED
  BY <1>3, <1>5, <1>6, <1>9, <1>10, <1>11, <1>12, <1>13 DEF OTClientRequest_CopyFrom

\* An OTClientResponse is its fields.
LEMMA ClientResponseSame ==
  ASSUME NEW U, NEW m \in ClientResponseType(U), NEW o \in ClientResponseType(U),
         m.function = o.function, m.reqTimeMillis = o.reqTimeMillis, m.resMap = o.resMap, m.unknown = o.unknown
  PROVE  m = o
<1>1. m = [x \in {"class", "unknown", "function", "reqTimeMillis", "resMap"} |-> m[x]] /\ m.class = "OTClientResponse"
  BY DEF ClientResponseType
<1>2. o = [x \in {"class", "unknown", "function", "reqTimeMillis", "resMap"} |-> o[x]] /\ o.class = "OTClientResponse"
  BY DEF ClientResponseType
<1>3. \A x \in {"class", "unknown", "function", "reqTimeMillis", "resMap"} : m[x] = o[x]
  BY <1>1, <1>2
<1>. QED
  BY <1>1, <1>2, <1>3

\* What the operations of OTClientResponse do, in values.
LEMMA ClientResponseValues ==
  ASSUME NEW U, NEW m \in ClientResponseType(U), NEW o \in ClientResponseType(U)
  PROVE  /\ OTClientResponse_New = Abstract!Default("OTClientResponse")
         /\ OTClientResponse_Construct(o) = o /\ OTClientResponse_Clear(m) = OTClientResponse_New /\ OTClientResponse_CopyFrom(m, o) = o
         /\ OTClientResponse_MergeFrom(OTClientResponse_New, o) = o /\ OTClientResponse_Swap(m, o) = o
         /\ \A g : AsMerged(m, o, g) => OTClientResponse_MergeFrom(m, o) = g
         /\ OTClientResponse_MergeFrom(m, o) = Abstract!Merged(m, o)
         /\ \A n \in OTClientResponse_Accessors(m) :
              \E x \in Abstract!Names("OTClientResponse") : n = [m EXCEPT ![x] = n[x]]
<1>. DEFINE F(x) == Abstract!FieldOf("OTClientResponse", x)
<1>1. /\ DOMAIN m = {"class", "unknown", "function", "reqTimeMillis", "resMap"} /\ m.class = "OTClientResponse"
      /\ DOMAIN o = {"class", "unknown", "function", "reqTimeMillis", "resMap"}
      /\ DOMAIN OTClientResponse_New = {"class", "unknown", "function", "reqTimeMillis", "resMap"} /\ OTClientResponse_New.class = "OTClientResponse"
      /\ OTClientResponse_New.function = <<>> /\ OTClientResponse_New.reqTimeMillis = 0 /\ OTClientResponse_New.resMap = <<>>
      /\ OTClientResponse_New.unknown = <<>>
  BY DEF ClientResponseType, OTClientResponse_New
<1>2. m.unknown \in Seq(U) /\ o.unknown \in Seq(U)
  BY ClientResponseMembers
<1>3. OTClientResponse_New = Abstract!Default("OTClientResponse")
  <2>. DEFINE d == Abstract!Default("OTClientResponse")
  <2>1. d = [x \in DOMAIN d |-> d[x]] /\ DOMAIN d = {"class", "unknown", "function", "reqTimeMillis", "resMap"}
        /\ d.class = "OTClientResponse" /\ d.unknown = <<>>
        /\ \A x \in {"function", "reqTimeMillis", "resMap"} : d[x] = Abstract!DefaultOf(F(x))
    BY ClientResponseSchema DEF Abstract!Default
  <2>2. Abstract!DefaultOf(F("function")) = <<>> /\ Abstract!DefaultOf(F("reqTimeMillis")) = 0 /\ Abstract!DefaultOf(F("resMap")) = <<>>
    BY ClientResponseSchema, DefaultIs
  <2>3. OTClientResponse_New = [x \in DOMAIN OTClientResponse_New |-> OTClientResponse_New[x]]
    BY DEF OTClientResponse_New
  <2>. HIDE DEF d, F
  <2>4. DOMAIN d = DOMAIN OTClientResponse_New /\ \A x \in DOMAIN d : d[x] = OTClientResponse_New[x]
    BY <1>1, <2>1, <2>2
  <2>. QED
    BY <2>1, <2>3, <2>4 DEF d
<1>4. {OTClientResponse_New, OTClientResponse_Construct(o), OTClientResponse_Clear(m), OTClientResponse_MergeFrom(OTClientResponse_New, o), OTClientResponse_MergeFrom(m, o), OTClientResponse_Swap(m, o)}
        \subseteq ClientResponseType(U)
  <2>1. OTClientResponse_New \in ClientResponseType(U)
    BY ClientResponseKept
  <2>2. {OTClientResponse_Construct(o), OTClientResponse_Clear(m), OTClientResponse_MergeFrom(m, o), OTClientResponse_Swap(m, o)} \subseteq ClientResponseType(U)
    BY ClientResponseKept
  <2>3. OTClientResponse_MergeFrom(OTClientResponse_New, o) \in ClientResponseType(U)
    BY <2>1, ClientResponseKept
  <2>. QED
    BY <2>1, <2>2, <2>3
<1>5. OTClientResponse_Construct(o) = o
  <2>0. MergeMap(<<>>, o.resMap) = o.resMap
    BY ClientResponseMembers, MergedIntoNone
  <2>1. OTClientResponse_Construct(o).function = o.function /\ OTClientResponse_Construct(o).reqTimeMillis = o.reqTimeMillis /\ OTClientResponse_Construct(o).resMap = o.resMap /\ OTClientResponse_Construct(o).unknown = o.unknown
    BY <1>1, <2>0 DEF OTClientResponse_Construct
  <2>. QED
    BY <1>4, <2>1, ClientResponseSame
<1>6. OTClientResponse_Clear(m) = OTClientResponse_New
  <2>1. OTClientResponse_Clear(m).function = <<>> /\ OTClientResponse_Clear(m).reqTimeMillis = 0 /\ OTClientResponse_Clear(m).resMap = <<>> /\ OTClientResponse_Clear(m).unknown = <<>>
    BY <1>1 DEF OTClientResponse_Clear
  <2>. QED
    BY <1>1, <1>4, <2>1, ClientResponseSame
<1>7. /\ OTClientResponse_MergeFrom(m, o).function = Unless(<<>>, o.function, m.function)
      /\ OTClientResponse_MergeFrom(m, o).reqTimeMillis = Unless(0, o.reqTimeMillis, m.reqTimeMillis)
      /\ OTClientResponse_MergeFrom(m, o).resMap = MergeMap(m.resMap, o.resMap)
      /\ OTClientResponse_MergeFrom(m, o).unknown = m.unknown \o o.unknown
  BY <1>1 DEF OTClientResponse_MergeFrom
<1>8. /\ OTClientResponse_MergeFrom(OTClientResponse_New, o).function = Unless(<<>>, o.function, OTClientResponse_New.function)
      /\ OTClientResponse_MergeFrom(OTClientResponse_New, o).reqTimeMillis = Unless(0, o.reqTimeMillis, OTClientResponse_New.reqTimeMillis)
      /\ OTClientResponse_MergeFrom(OTClientResponse_New, o).resMap = MergeMap(OTClientResponse_New.resMap, o.resMap)
      /\ OTClientResponse_MergeFrom(OTClientResponse_New, o).unknown = OTClientResponse_New.unknown \o o.unknown
  BY <1>1 DEF OTClientResponse_MergeFrom
<1>9. OTClientResponse_MergeFrom(OTClientResponse_New, o) = o
  <2>1. /\ Unless(<<>>, o.function, OTClientResponse_New.function) = o.function
        /\ Unless(0, o.reqTimeMillis, OTClientResponse_New.reqTimeMillis) = o.reqTimeMillis
        /\ MergeMap(OTClientResponse_New.resMap, o.resMap) = o.resMap
        /\ OTClientResponse_New.unknown \o o.unknown = o.unknown
    BY <1>1, <1>2, ClientResponseMembers, MapsKnown, MergedIntoNone DEF Unless
  <2>. QED
    BY <1>4, <1>8, <2>1, ClientResponseSame
<1>10. OTClientResponse_Swap(m, o) = o
  <2>1. OTClientResponse_Swap(m, o).function = o.function /\ OTClientResponse_Swap(m, o).reqTimeMillis = o.reqTimeMillis /\ OTClientResponse_Swap(m, o).resMap = o.resMap /\ OTClientResponse_Swap(m, o).unknown = o.unknown
    BY <1>1 DEF OTClientResponse_Swap
  <2>. QED
    BY <1>4, <2>1, ClientResponseSame
<1>11. ASSUME NEW g, AsMerged(m, o, g) PROVE OTClientResponse_MergeFrom(m, o) = g
  <2>. DEFINE r == OTClientResponse_MergeFrom(m, o)
  <2>1. /\ g = [x \in DOMAIN m |-> g[x]] /\ g["class"] = m.class /\ g["unknown"] = m.unknown \o o.unknown
        /\ g["function"] = Abstract!Over(F("function"), m["function"], o["function"])
        /\ g["reqTimeMillis"] = Abstract!Over(F("reqTimeMillis"), m["reqTimeMillis"], o["reqTimeMillis"])
        /\ g["resMap"] = Abstract!Over(F("resMap"), m["resMap"], o["resMap"])
    BY <1>1, <1>11 DEF AsMerged
  <2>2. /\ Abstract!Over(F("function"), m["function"], o["function"]) = Unless(<<>>, o.function, m.function)
        /\ Abstract!Over(F("reqTimeMillis"), m["reqTimeMillis"], o["reqTimeMillis"]) = Unless(0, o.reqTimeMillis, m.reqTimeMillis)
        /\ Abstract!Over(F("resMap"), m["resMap"], o["resMap"]) = MergeMap(m.resMap, o.resMap)
    BY ClientResponseSchema, OverIs
  <2>3. r = [x \in DOMAIN r |-> r[x]] /\ DOMAIN r = DOMAIN m /\ r["class"] = m.class
    BY <1>1, <1>4 DEF ClientResponseType
  <2>4. \A x \in DOMAIN m : r[x] = g[x]
    <3>. HIDE DEF r, F
    <3>1. /\ r["function"] = Unless(<<>>, o.function, m.function)
          /\ r["reqTimeMillis"] = Unless(0, o.reqTimeMillis, m.reqTimeMillis)
          /\ r["resMap"] = MergeMap(m.resMap, o.resMap)
          /\ r["unknown"] = m.unknown \o o.unknown
      BY <1>7 DEF r
    <3>. QED
      BY <1>1, <2>1, <2>2, <2>3, <3>1
  <2>. HIDE DEF r
  <2>. QED
    BY <2>1, <2>3, <2>4 DEF r
<1>12. OTClientResponse_MergeFrom(m, o) = Abstract!Merged(m, o)
  <2>1. \A x \in {"function", "reqTimeMillis", "resMap"} : ~Abstract!IsOptional(F(x))
    BY ClientResponseSchema, OverIs
  <2>. QED
    BY <1>1, <1>11, <2>1, MergedPlain
<1>13. ASSUME NEW n \in OTClientResponse_Accessors(m)
       PROVE  \E x \in Abstract!Names("OTClientResponse") : n = [m EXCEPT ![x] = n[x]]
  <2>1. \/ \E v : n = [m EXCEPT !.function = v]
        \/ \E v : n = [m EXCEPT !.reqTimeMillis = v]
        \/ \E v : n = [m EXCEPT !.resMap = v]
    BY DEF OTClientResponse_Accessors
  <2>2. ASSUME NEW v, n = [m EXCEPT !.function = v] PROVE n = [m EXCEPT !["function"] = n["function"]]
    BY <1>1, <2>2
  <2>3. ASSUME NEW v, n = [m EXCEPT !.reqTimeMillis = v] PROVE n = [m EXCEPT !["reqTimeMillis"] = n["reqTimeMillis"]]
    BY <1>1, <2>3
  <2>4. ASSUME NEW v, n = [m EXCEPT !.resMap = v] PROVE n = [m EXCEPT !["resMap"] = n["resMap"]]
    BY <1>1, <2>4
  <2>. QED
    BY <2>1, <2>2, <2>3, <2>4, ClientResponseSchema
<1>. QED
  BY <1>3, <1>5, <1>6, <1>9, <1>10, <1>11, <1>12, <1>13 DEF OTClientResponse_CopyFrom

-----------------------------------------------------------------------------
(* What such a class answers to the virtual calls. *)

\* What a class without pointers answers to the virtual calls, in values.
Means(c, h, o, from) ==
  /\ New(c) = Abstract!Default(c)
  /\ \A m \in Accessors(h[o]) : \E x \in Abstract!Names(c) : m = [h[o] EXCEPT ![x] = m[x]]
  /\ Exchanged(h[o], h[from]) = h[from]
  /\ Destroy(h, o) = h
  /\ ClearAt(h, o) = [h EXCEPT ![o] = Abstract!Default(c)]
  /\ MergeAt(h, o, from) = [h EXCEPT ![o] = Abstract!Merged(h[o], h[from])]
  /\ CopyAt(h, o, from) = [h EXCEPT ![o] = h[from]]
  /\ Construct(h, o, from) = [h EXCEPT ![o] = h[from]]

\* Response answers the virtual calls in values.
LEMMA ResponseMeans ==
  ASSUME NEW h, NEW o, NEW from,
         h[o] \in RootType("Response"), h[from] \in RootType("Response")
  PROVE  Means("Response", h, o, from)
<1>. DEFINE m == h[o]
            f == h[from]
<1>1. m \in ResponseType(F3) /\ f \in ResponseType(F3)
  BY DEF RootType
<1>2. m.class = "Response" /\ f.class = "Response"
  BY <1>1, ResponseMembers
<1>3. /\ Response_New = Abstract!Default("Response")
      /\ Response_Construct(f) = f /\ Response_Clear(m) = Response_New /\ Response_CopyFrom(m, f) = f
      /\ Response_Swap(m, f) = f /\ Response_MergeFrom(m, f) = Abstract!Merged(m, f)
      /\ \A n \in Response_Accessors(m) :
           \E x \in Abstract!Names("Response") : n = [m EXCEPT ![x] = n[x]]
  BY <1>1, ResponseValues
<1>. HIDE DEF m, f
<1>4. /\ New("Response") = Response_New
      /\ Accessors(m) = Response_Accessors(m)
      /\ Exchanged(m, f) = Response_Swap(m, f)
  BY <1>2 DEF New, Accessors, Exchanged
<1>5. /\ Destroy(h, o) = h
      /\ ClearAt(h, o) = [h EXCEPT ![o] = Response_Clear(m)]
      /\ MergeAt(h, o, from) = [h EXCEPT ![o] = Response_MergeFrom(m, f)]
      /\ CopyAt(h, o, from) = [h EXCEPT ![o] = Response_CopyFrom(m, f)]
      /\ Construct(h, o, from) = [h EXCEPT ![o] = Response_Construct(f)]
  BY <1>2 DEF Destroy, ClearAt, MergeAt, CopyAt, Construct, m, f
<1>. QED
  BY <1>3, <1>4, <1>5 DEF Means, m, f

\* Error answers the virtual calls in values.
LEMMA ErrorMeans ==
  ASSUME NEW h, NEW o, NEW from,
         h[o] \in RootType("Error"), h[from] \in RootType("Error")
  PROVE  Means("Error", h, o, from)
<1>. DEFINE m == h[o]
            f == h[from]
<1>1. m \in ErrorType(F3) /\ f \in ErrorType(F3)
  BY DEF RootType
<1>2. m.class = "Error" /\ f.class = "Error"
  BY <1>1, ErrorMembers
<1>3. /\ Error_New = Abstract!Default("Error")
      /\ Error_Construct(f) = f /\ Error_Clear(m) = Error_New /\ Error_CopyFrom(m, f) = f
      /\ Error_Swap(m, f) = f /\ Error_MergeFrom(m, f) = Abstract!Merged(m, f)
      /\ \A n \in Error_Accessors(m) :
           \E x \in Abstract!Names("Error") : n = [m EXCEPT ![x] = n[x]]
  BY <1>1, ErrorValues
<1>. HIDE DEF m, f
<1>4. /\ New("Error") = Error_New
      /\ Accessors(m) = Error_Accessors(m)
      /\ Exchanged(m, f) = Error_Swap(m, f)
  BY <1>2 DEF New, Accessors, Exchanged
<1>5. /\ Destroy(h, o) = h
      /\ ClearAt(h, o) = [h EXCEPT ![o] = Error_Clear(m)]
      /\ MergeAt(h, o, from) = [h EXCEPT ![o] = Error_MergeFrom(m, f)]
      /\ CopyAt(h, o, from) = [h EXCEPT ![o] = Error_CopyFrom(m, f)]
      /\ Construct(h, o, from) = [h EXCEPT ![o] = Error_Construct(f)]
  BY <1>2 DEF Destroy, ClearAt, MergeAt, CopyAt, Construct, m, f
<1>. QED
  BY <1>3, <1>4, <1>5 DEF Means, m, f

\* ServiceData answers the virtual calls in values.
LEMMA ServiceDataMeans ==
  ASSUME NEW h, NEW o, NEW from,
         h[o] \in RootType("OTServiceData"), h[from] \in RootType("OTServiceData")
  PROVE  Means("OTServiceData", h, o, from)
<1>. DEFINE m == h[o]
            f == h[from]
<1>1. m \in ServiceDataType(F3) /\ f \in ServiceDataType(F3)
  BY DEF RootType
<1>2. m.class = "OTServiceData" /\ f.class = "OTServiceData"
  BY <1>1, ServiceDataMembers
<1>3. /\ OTServiceData_New = Abstract!Default("OTServiceData")
      /\ OTServiceData_Construct(f) = f /\ OTServiceData_Clear(m) = OTServiceData_New /\ OTServiceData_CopyFrom(m, f) = f
      /\ OTServiceData_Swap(m, f) = f /\ OTServiceData_MergeFrom(m, f) = Abstract!Merged(m, f)
      /\ \A n \in OTServiceData_Accessors(m) :
           \E x \in Abstract!Names("OTServiceData") : n = [m EXCEPT ![x] = n[x]]
  BY <1>1, ServiceDataValues
<1>. HIDE DEF m, f
<1>4. /\ New("OTServiceData") = OTServiceData_New
      /\ Accessors(m) = OTServiceData_Accessors(m)
      /\ Exchanged(m, f) = OTServiceData_Swap(m, f)
  BY <1>2 DEF New, Accessors, Exchanged
<1>5. /\ Destroy(h, o) = h
      /\ ClearAt(h, o) = [h EXCEPT ![o] = OTServiceData_Clear(m)]
      /\ MergeAt(h, o, from) = [h EXCEPT ![o] = OTServiceData_MergeFrom(m, f)]
      /\ CopyAt(h, o, from) = [h EXCEPT ![o] = OTServiceData_CopyFrom(m, f)]
      /\ Construct(h, o, from) = [h EXCEPT ![o] = OTServiceData_Construct(f)]
  BY <1>2 DEF Destroy, ClearAt, MergeAt, CopyAt, Construct, m, f
<1>. QED
  BY <1>3, <1>4, <1>5 DEF Means, m, f

\* Bytes answers the virtual calls in values.
LEMMA BytesMeans ==
  ASSUME NEW h, NEW o, NEW from,
         h[o] \in RootType("Bytes"), h[from] \in RootType("Bytes")
  PROVE  Means("Bytes", h, o, from)
<1>. DEFINE m == h[o]
            f == h[from]
<1>1. m \in BytesType(F3) /\ f \in BytesType(F3)
  BY DEF RootType
<1>2. m.class = "Bytes" /\ f.class = "Bytes"
  BY <1>1, BytesMembers
<1>3. /\ Bytes_New = Abstract!Default("Bytes")
      /\ Bytes_Construct(f) = f /\ Bytes_Clear(m) = Bytes_New /\ Bytes_CopyFrom(m, f) = f
      /\ Bytes_Swap(m, f) = f /\ Bytes_MergeFrom(m, f) = Abstract!Merged(m, f)
      /\ \A n \in Bytes_Accessors(m) :
           \E x \in Abstract!Names("Bytes") : n = [m EXCEPT ![x] = n[x]]
  BY <1>1, BytesValues
<1>. HIDE DEF m, f
<1>4. /\ New("Bytes") = Bytes_New
      /\ Accessors(m) = Bytes_Accessors(m)
      /\ Exchanged(m, f) = Bytes_Swap(m, f)
  BY <1>2 DEF New, Accessors, Exchanged
<1>5. /\ Destroy(h, o) = h
      /\ ClearAt(h, o) = [h EXCEPT ![o] = Bytes_Clear(m)]
      /\ MergeAt(h, o, from) = [h EXCEPT ![o] = Bytes_MergeFrom(m, f)]
      /\ CopyAt(h, o, from) = [h EXCEPT ![o] = Bytes_CopyFrom(m, f)]
      /\ Construct(h, o, from) = [h EXCEPT ![o] = Bytes_Construct(f)]
  BY <1>2 DEF Destroy, ClearAt, MergeAt, CopyAt, Construct, m, f
<1>. QED
  BY <1>3, <1>4, <1>5 DEF Means, m, f

\* Fields answers the virtual calls in values.
LEMMA FieldsMeans ==
  ASSUME NEW h, NEW o, NEW from,
         h[o] \in RootType("Fields"), h[from] \in RootType("Fields")
  PROVE  Means("Fields", h, o, from)
<1>. DEFINE m == h[o]
            f == h[from]
<1>1. m \in FieldsType(MapFields(10, F3)) /\ f \in FieldsType(MapFields(10, F3))
  BY DEF RootType
<1>2. m.class = "Fields" /\ f.class = "Fields"
  BY <1>1, FieldsMembers
<1>3. /\ Fields_New = Abstract!Default("Fields")
      /\ Fields_Construct(f) = f /\ Fields_Clear(m) = Fields_New /\ Fields_CopyFrom(m, f) = f
      /\ Fields_Swap(m, f) = f /\ Fields_MergeFrom(m, f) = Abstract!Merged(m, f)
      /\ \A n \in Fields_Accessors(m) :
           \E x \in Abstract!Names("Fields") : n = [m EXCEPT ![x] = n[x]]
  BY <1>1, FieldsValues
<1>. HIDE DEF m, f
<1>4. /\ New("Fields") = Fields_New
      /\ Accessors(m) = Fields_Accessors(m)
      /\ Exchanged(m, f) = Fields_Swap(m, f)
  BY <1>2 DEF New, Accessors, Exchanged
<1>5. /\ Destroy(h, o) = h
      /\ ClearAt(h, o) = [h EXCEPT ![o] = Fields_Clear(m)]
      /\ MergeAt(h, o, from) = [h EXCEPT ![o] = Fields_MergeFrom(m, f)]
      /\ CopyAt(h, o, from) = [h EXCEPT ![o] = Fields_CopyFrom(m, f)]
      /\ Construct(h, o, from) = [h EXCEPT ![o] = Fields_Construct(f)]
  BY <1>2 DEF Destroy, ClearAt, MergeAt, CopyAt, Construct, m, f
<1>. QED
  BY <1>3, <1>4, <1>5 DEF Means, m, f

\* OTServerRequest answers the virtual calls in values.
LEMMA ServerRequestMeans ==
  ASSUME NEW h, NEW o, NEW from,
         h[o] \in RootType("OTServerRequest"), h[from] \in RootType("OTServerRequest")
  PROVE  Means("OTServerRequest", h, o, from)
<1>. DEFINE m == h[o]
            f == h[from]
<1>1. m \in ServerRequestType(F3, F2) /\ f \in ServerRequestType(F3, F2)
  BY DEF RootType
<1>2. m.class = "OTServerRequest" /\ f.class = "OTServerRequest"
  BY <1>1, ServerRequestMembers
<1>3. /\ OTServerRequest_New = Abstract!Default("OTServerRequest")
      /\ OTServerRequest_Construct(f) = f /\ OTServerRequest_Clear(m) = OTServerRequest_New /\ OTServerRequest_CopyFrom(m, f) = f
      /\ OTServerRequest_Swap(m, f) = f /\ OTServerRequest_MergeFrom(m, f) = Abstract!Merged(m, f)
      /\ \A n \in OTServerRequest_Accessors(m) :
           \E x \in Abstract!Names("OTServerRequest") : n = [m EXCEPT ![x] = n[x]]
  BY <1>1, ServerRequestValues
<1>. HIDE DEF m, f
<1>4. /\ New("OTServerRequest") = OTServerRequest_New
      /\ Accessors(m) = OTServerRequest_Accessors(m)
      /\ Exchanged(m, f) = OTServerRequest_Swap(m, f)
  BY <1>2 DEF New, Accessors, Exchanged
<1>5. /\ Destroy(h, o) = h
      /\ ClearAt(h, o) = [h EXCEPT ![o] = OTServerRequest_Clear(m)]
      /\ MergeAt(h, o, from) = [h EXCEPT ![o] = OTServerRequest_MergeFrom(m, f)]
      /\ CopyAt(h, o, from) = [h EXCEPT ![o] = OTServerRequest_CopyFrom(m, f)]
      /\ Construct(h, o, from) = [h EXCEPT ![o] = OTServerRequest_Construct(f)]
  BY <1>2 DEF Destroy, ClearAt, MergeAt, CopyAt, Construct, m, f
<1>. QED
  BY <1>3, <1>4, <1>5 DEF Means, m, f

\* OTServerResponse answers the virtual calls in values.
LEMMA ServerResponseMeans ==
  ASSUME NEW h, NEW o, NEW from,
         h[o] \in RootType("OTServerResponse"), h[from] \in RootType("OTServerResponse")
  PROVE  Means("OTServerResponse", h, o, from)
<1>. DEFINE m == h[o]
            f == h[from]
<1>1. m \in ServerResponseType(F3, F2) /\ f \in ServerResponseType(F3, F2)
  BY DEF RootType
<1>2. m.class = "OTServerResponse" /\ f.class = "OTServerResponse"
  BY <1>1, ServerResponseMembers
<1>3. /\ OTServerResponse_New = Abstract!Default("OTServerResponse")
      /\ OTServerResponse_Construct(f) = f /\ OTServerResponse_Clear(m) = OTServerResponse_New /\ OTServerResponse_CopyFrom(m, f) = f
      /\ OTServerResponse_Swap(m, f) = f /\ OTServerResponse_MergeFrom(m, f) = Abstract!Merged(m, f)
      /\ \A n \in OTServerResponse_Accessors(m) :
           \E x \in Abstract!Names("OTServerResponse") : n = [m EXCEPT ![x] = n[x]]
  BY <1>1, ServerResponseValues
<1>. HIDE DEF m, f
<1>4. /\ New("OTServerResponse") = OTServerResponse_New
      /\ Accessors(m) = OTServerResponse_Accessors(m)
      /\ Exchanged(m, f) = OTServerResponse_Swap(m, f)
  BY <1>2 DEF New, Accessors, Exchanged
<1>5. /\ Destroy(h, o) = h
      /\ ClearAt(h, o) = [h EXCEPT ![o] = OTServerResponse_Clear(m)]
      /\ MergeAt(h, o, from) = [h EXCEPT ![o] = OTServerResponse_MergeFrom(m, f)]
      /\ CopyAt(h, o, from) = [h EXCEPT ![o] = OTServerResponse_CopyFrom(m, f)]
      /\ Construct(h, o, from) = [h EXCEPT ![o] = OTServerResponse_Construct(f)]
  BY <1>2 DEF Destroy, ClearAt, MergeAt, CopyAt, Construct, m, f
<1>. QED
  BY <1>3, <1>4, <1>5 DEF Means, m, f

\* OTClientRequest answers the virtual calls in values.
LEMMA ClientRequestMeans ==
  ASSUME NEW h, NEW o, NEW from,
         h[o] \in RootType("OTClientRequest"), h[from] \in RootType("OTClientRequest")
  PROVE  Means("OTClientRequest", h, o, from)
<1>. DEFINE m == h[o]
            f == h[from]
<1>1. m \in ClientRequestType(MapFields(18, F3)) /\ f \in ClientRequestType(MapFields(18, F3))
  BY DEF RootType
<1>2. m.class = "OTClientRequest" /\ f.class = "OTClientRequest"
  BY <1>1, ClientRequestMembers
<1>3. /\ OTClientRequest_New = Abstract!Default("OTClientRequest")
      /\ OTClientRequest_Construct(f) = f /\ OTClientRequest_Clear(m) = OTClientRequest_New /\ OTClientRequest_CopyFrom(m, f) = f
      /\ OTClientRequest_Swap(m, f) = f /\ OTClientRequest_MergeFrom(m, f) = Abstract!Merged(m, f)
      /\ \A n \in OTClientRequest_Accessors(m) :
           \E x \in Abstract!Names("OTClientRequest") : n = [m EXCEPT ![x] = n[x]]
  BY <1>1, ClientRequestValues
<1>. HIDE DEF m, f
<1>4. /\ New("OTClientRequest") = OTClientRequest_New
      /\ Accessors(m) = OTClientRequest_Accessors(m)
      /\ Exchanged(m, f) = OTClientRequest_Swap(m, f)
  BY <1>2 DEF New, Accessors, Exchanged
<1>5. /\ Destroy(h, o) = h
      /\ ClearAt(h, o) = [h EXCEPT ![o] = OTClientRequest_Clear(m)]
      /\ MergeAt(h, o, from) = [h EXCEPT ![o] = OTClientRequest_MergeFrom(m, f)]
      /\ CopyAt(h, o, from) = [h EXCEPT ![o] = OTClientRequest_CopyFrom(m, f)]
      /\ Construct(h, o, from) = [h EXCEPT ![o] = OTClientRequest_Construct(f)]
  BY <1>2 DEF Destroy, ClearAt, MergeAt, CopyAt, Construct, m, f
<1>. QED
  BY <1>3, <1>4, <1>5 DEF Means, m, f

\* OTClientResponse answers the virtual calls in values.
LEMMA ClientResponseMeans ==
  ASSUME NEW h, NEW o, NEW from,
         h[o] \in RootType("OTClientResponse"), h[from] \in RootType("OTClientResponse")
  PROVE  Means("OTClientResponse", h, o, from)
<1>. DEFINE m == h[o]
            f == h[from]
<1>1. m \in ClientResponseType(MapFields(26, F3)) /\ f \in ClientResponseType(MapFields(26, F3))
  BY DEF RootType
<1>2. m.class = "OTClientResponse" /\ f.class = "OTClientResponse"
  BY <1>1, ClientResponseMembers
<1>3. /\ OTClientResponse_New = Abstract!Default("OTClientResponse")
      /\ OTClientResponse_Construct(f) = f /\ OTClientResponse_Clear(m) = OTClientResponse_New /\ OTClientResponse_CopyFrom(m, f) = f
      /\ OTClientResponse_Swap(m, f) = f /\ OTClientResponse_MergeFrom(m, f) = Abstract!Merged(m, f)
      /\ \A n \in OTClientResponse_Accessors(m) :
           \E x \in Abstract!Names("OTClientResponse") : n = [m EXCEPT ![x] = n[x]]
  BY <1>1, ClientResponseValues
<1>. HIDE DEF m, f
<1>4. /\ New("OTClientResponse") = OTClientResponse_New
      /\ Accessors(m) = OTClientResponse_Accessors(m)
      /\ Exchanged(m, f) = OTClientResponse_Swap(m, f)
  BY <1>2 DEF New, Accessors, Exchanged
<1>5. /\ Destroy(h, o) = h
      /\ ClearAt(h, o) = [h EXCEPT ![o] = OTClientResponse_Clear(m)]
      /\ MergeAt(h, o, from) = [h EXCEPT ![o] = OTClientResponse_MergeFrom(m, f)]
      /\ CopyAt(h, o, from) = [h EXCEPT ![o] = OTClientResponse_CopyFrom(m, f)]
      /\ Construct(h, o, from) = [h EXCEPT ![o] = OTClientResponse_Construct(f)]
  BY <1>2 DEF Destroy, ClearAt, MergeAt, CopyAt, Construct, m, f
<1>. QED
  BY <1>3, <1>4, <1>5 DEF Means, m, f

\* A class without pointers answers the virtual calls in values.
LEMMA PlainMeans ==
  ASSUME NEW c \in PlainClasses, NEW h, NEW hd, HeapOK(c, h, hd), NEW o \in Roots, NEW from \in Roots
  PROVE  Means(c, h, o, from)
<1>1. h[o] \in RootType(c) /\ h[from] \in RootType(c)
  BY DEF HeapOK, Heaps
<1>2. CASE c = "Response"
  BY <1>1, <1>2, ResponseMeans
<1>3. CASE c = "Error"
  BY <1>1, <1>3, ErrorMeans
<1>4. CASE c = "OTServiceData"
  BY <1>1, <1>4, ServiceDataMeans
<1>5. CASE c = "Bytes"
  BY <1>1, <1>5, BytesMeans
<1>6. CASE c = "Fields"
  BY <1>1, <1>6, FieldsMeans
<1>7. CASE c = "OTServerRequest"
  BY <1>1, <1>7, ServerRequestMeans
<1>8. CASE c = "OTServerResponse"
  BY <1>1, <1>8, ServerResponseMeans
<1>9. CASE c = "OTClientRequest"
  BY <1>1, <1>9, ClientRequestMeans
<1>10. CASE c = "OTClientResponse"
  BY <1>1, <1>10, ClientResponseMeans
<1>. QED
  BY <1>2, <1>3, <1>4, <1>5, <1>6, <1>7, <1>8, <1>9, <1>10 DEF PlainClasses

-----------------------------------------------------------------------------
(* What an operation on one message leaves alone. *)

\* The other roots, what they point to and what the caller owns are as they were.
Keeps(c, h, hd, g, o) ==
  /\ \A p \in Roots \ {o} :
       g[p] = h[p] /\ \A x \in Held(c) : h[p][x] # nullptr => g[h[p][x]] = h[h[p][x]]
  /\ hd # nullptr => g[hd] = h[hd]

\* What an operation on a root may change.
LEMMA KeepsOthers ==
  ASSUME NEW c, NEW h, NEW hd, HeapOK(c, h, hd), NEW o \in Roots, NEW g,
         \A p \in Roots \ {o} : g[p] = h[p],
         \A a \in Addr : g[a] # h[a] => h[a] = Free \/ \E x \in Held(c) : h[o][x] = a
  PROVE  Keeps(c, h, hd, g, o)
<1>1. ASSUME NEW p \in Roots \ {o}, NEW x \in Held(c), h[p][x] # nullptr
      PROVE  g[h[p][x]] = h[h[p][x]]
  <2>1. /\ h[p][x] \in Addr /\ h[h[p][x]] # Free
        /\ \A y \in Held(c) : h[o][y] # h[p][x]
    BY <1>1, HeldClasses DEF HeapOK, PointersOK, SubType
  <2>. QED
    BY <2>1
<1>2. ASSUME hd # nullptr PROVE g[hd] = h[hd]
  <2>1. hd \in Addr /\ h[hd] # Free /\ \A y \in Held(c) : h[o][y] # hd
    BY <1>2, HeldClasses DEF HeapOK, HandOK, SubType
  <2>. QED
    BY <2>1
<1>. QED
  BY <1>1, <1>2 DEF Keeps

\* Keeping is transitive,
LEMMA KeepsOn ==
  ASSUME NEW c, NEW h, NEW hd, NEW g, NEW k, NEW o,
         Keeps(c, h, hd, g, o), Keeps(c, g, hd, k, o)
  PROVE  Keeps(c, h, hd, k, o)
BY DEF Keeps

\* and reflexive.
LEMMA KeepsSame ==
  ASSUME NEW c, NEW h, NEW hd, NEW o
  PROVE  Keeps(c, h, hd, h, o)
BY DEF Keeps

\* The pointers of a root are those of its class.
LEMMA RootPointers ==
  ASSUME NEW c \in P!Classes, NEW h, NEW hd, HeapOK(c, h, hd), NEW o \in Roots
  PROVE  Pointers(h[o]) = Held(c) /\ h[o] \in RootType(c) /\ h[o].class = c
<1>1. h[o] \in RootType(c)
  BY DEF HeapOK, Heaps
<1>. QED
  BY <1>1, MembersAreFields, PointersAreFields

\* Whoever is kept keeps its value.
LEMMA KeepsValue ==
  ASSUME NEW c \in P!Classes, NEW h, NEW hd, HeapOK(c, h, hd), NEW o \in Roots, NEW g,
         Keeps(c, h, hd, g, o), NEW p \in Roots \ {o}
  PROVE  Value(g, g[p]) = Value(h, h[p])
<1>1. Pointers(h[p]) = Held(c) /\ g[p] = h[p]
  BY RootPointers DEF Keeps
<1>2. \A x \in Held(c) : h[p][x] # nullptr => g[h[p][x]] = h[h[p][x]]
  BY DEF Keeps
<1>. QED
  BY <1>1, <1>2 DEF Value

\* A value of a class without pointers is the message.
LEMMA PlainValue ==
  ASSUME NEW c \in PlainClasses, NEW h, NEW hd, HeapOK(c, h, hd), NEW o \in Roots, NEW g
  PROVE  Value(g, h[o]) = h[o] /\ h[o].class = c
<1>1. c \in P!Classes /\ Held(c) = {}
  BY ClassesKnown DEF Held, PlainClasses
<1>2. Pointers(h[o]) = {} /\ h[o] \in RootType(c) /\ h[o].class = c
  BY <1>1, RootPointers
<1>3. h[o] = [x \in DOMAIN h[o] |-> h[o][x]]
  BY <1>2 DEF RootType, PlainClasses, ResponseType, ErrorType, ServiceDataType, BytesType, FieldsType,
     ServerRequestType, ServerResponseType, ClientRequestType, ClientResponseType
<1>. QED
  BY <1>2, <1>3 DEF Value

-----------------------------------------------------------------------------
(* OTServerResponseWrapper, in values. *)

\* The message behind a pointer.
Sub(h, p) == IF p = nullptr THEN P!None ELSE h[p]

\* The value of an OTServerResponseWrapper with submessages e and r.
ServerValue(e, r, u) == [class |-> SWrapper, error |-> e, result |-> r, unknown |-> u]

\* The value of an OTClientResponseWrapper with submessage e and results s.
ClientValue(e, s, u) == [class |-> CWrapper, error |-> e, result |-> s, unknown |-> u]

\* The wrapper at o has that value.
ServerIs(h, o, e, r, u) ==
  Sub(h, h[o].error) = e /\ Sub(h, h[o].result) = r /\ h[o].unknown = u

\* The wrapper at o has that value.
ClientIs(h, o, e, s, u) ==
  Sub(h, h[o].error) = e /\ h[o].result = s /\ h[o].unknown = u

\* The value of a wrapper is made of what its pointers point to.
LEMMA ServerMeans ==
  ASSUME NEW h, NEW hd, HeapOK(SWrapper, h, hd), NEW o \in Roots
  PROVE  Value(h, h[o]) = ServerValue(Sub(h, h[o].error), Sub(h, h[o].result), h[o].unknown)
<1>. DEFINE m == h[o]
            v == Value(h, m)
            s == ServerValue(Sub(h, m.error), Sub(h, m.result), m.unknown)
<1>1. DOMAIN m = {"class", "error", "result", "unknown"} /\ m.class = SWrapper
  BY ServerRoot DEF ServerWrapperType, SWrapper
<1>2. Pointers(m) = {"error", "result"}
  BY <1>1 DEF Pointers, SWrapper
<1>. HIDE DEF m
<1>3. /\ v = [x \in DOMAIN m |-> v[x]] /\ v["class"] = SWrapper /\ v["unknown"] = m.unknown
      /\ v["error"] = Sub(h, m.error) /\ v["result"] = Sub(h, m.result)
  BY <1>1, <1>2 DEF Value, Sub
<1>4. /\ s = [x \in DOMAIN m |-> s[x]] /\ s["class"] = SWrapper /\ s["unknown"] = m.unknown
      /\ s["error"] = Sub(h, m.error) /\ s["result"] = Sub(h, m.result)
  BY <1>1 DEF ServerValue
<1>. HIDE DEF v, s
<1>5. \A x \in DOMAIN m : v[x] = s[x]
  BY <1>1, <1>3, <1>4
<1>6. v = s
  BY <1>3, <1>4, <1>5
<1>. QED
  BY <1>6 DEF v, s, m

\* The value of a wrapper is made of what its pointer points to.
LEMMA ClientMeans ==
  ASSUME NEW h, NEW hd, HeapOK(CWrapper, h, hd), NEW o \in Roots
  PROVE  Value(h, h[o]) = ClientValue(Sub(h, h[o].error), h[o].result, h[o].unknown)
<1>. DEFINE m == h[o]
            v == Value(h, m)
            s == ClientValue(Sub(h, m.error), m.result, m.unknown)
<1>1. DOMAIN m = {"class", "error", "result", "unknown"} /\ m.class = CWrapper
  BY ClientRoot DEF ClientWrapperType, CWrapper
<1>2. Pointers(m) = {"error"}
  BY <1>1 DEF Pointers, CWrapper
<1>. HIDE DEF m
<1>3. /\ v = [x \in DOMAIN m |-> v[x]] /\ v["class"] = CWrapper /\ v["unknown"] = m.unknown
      /\ v["error"] = Sub(h, m.error) /\ v["result"] = m.result
  BY <1>1, <1>2 DEF Value, Sub
<1>4. /\ s = [x \in DOMAIN m |-> s[x]] /\ s["class"] = CWrapper /\ s["unknown"] = m.unknown
      /\ s["error"] = Sub(h, m.error) /\ s["result"] = m.result
  BY <1>1 DEF ClientValue
<1>. HIDE DEF v, s
<1>5. \A x \in DOMAIN m : v[x] = s[x]
  BY <1>1, <1>3, <1>4
<1>6. v = s
  BY <1>3, <1>4, <1>5
<1>. QED
  BY <1>6 DEF v, s, m

\* What an operation on a wrapper may change.
LEMMA ServerKeeps ==
  ASSUME NEW h, NEW hd, HeapOK(SWrapper, h, hd), NEW o \in Roots, NEW g,
         \A p \in Roots \ {o} : g[p] = h[p],
         \A a \in Addr : g[a] # h[a] => h[a] = Free \/ a = h[o].error \/ a = h[o].result
  PROVE  Keeps(SWrapper, h, hd, g, o)
<1>1. \A a \in Addr : g[a] # h[a] => h[a] = Free \/ \E x \in Held(SWrapper) : h[o][x] = a
  BY WrapperClasses
<1>. QED
  BY <1>1, KeepsOthers

\* A heap has the roots and the addresses.
LEMMA HeapDomain == \A c : \A h \in Heaps(c) : DOMAIN h = Roots \cup Addr
BY DEF Heaps

\* Deleting submessages of o changes nothing but their cells.
LEMMA ServerDeleted ==
  ASSUME NEW h, NEW hd, HeapOK(SWrapper, h, hd), NEW o \in Roots
  PROVE  LET e == Delete(h, h[o].error)
             r == Delete(h, h[o].result)
             d == Delete(e, h[o].result)
         IN /\ e \in Heaps(SWrapper) /\ r \in Heaps(SWrapper) /\ d \in Heaps(SWrapper)
            /\ \A p \in Roots : e[p] = h[p] /\ r[p] = h[p] /\ d[p] = h[p]
            /\ \A a \in Addr :
                 /\ a # h[o].error => e[a] = h[a]
                 /\ a # h[o].result => r[a] = h[a]
                 /\ a # h[o].error /\ a # h[o].result => d[a] = h[a]
<1>. DEFINE e == Delete(h, h[o].error)
            r == Delete(h, h[o].result)
            d == Delete(e, h[o].result)
<1>1. /\ h \in Heaps(SWrapper)
      /\ h[o].error \in Addr \cup {nullptr} /\ h[o].result \in Addr \cup {nullptr}
  BY ServerRoot
<1>2. /\ e \in Heaps(SWrapper) /\ \A p \in Roots : e[p] = h[p]
      /\ \A a \in Addr : a # h[o].error => e[a] = h[a]
  BY <1>1, Deleted
<1>3. /\ r \in Heaps(SWrapper) /\ \A p \in Roots : r[p] = h[p]
      /\ \A a \in Addr : a # h[o].result => r[a] = h[a]
  BY <1>1, Deleted
<1>. HIDE DEF e
<1>4. /\ d \in Heaps(SWrapper) /\ \A p \in Roots : d[p] = e[p]
      /\ \A a \in Addr : a # h[o].result => d[a] = e[a]
  BY <1>1, <1>2, Deleted, SMTT(40)
<1>. HIDE DEF r, d
<1>. QED
  BY <1>2, <1>3, <1>4 DEF e, r, d

\* What the wrapper at o is now, and that the rest of the heap was kept.
ServerNow(h, hd, g, o, e, r, u) == Keeps(SWrapper, h, hd, g, o) /\ ServerIs(g, o, e, r, u)

\* clear_, Clear and the destructor leave no submessage behind.
LEMMA ServerClears ==
  ASSUME NEW h, NEW hd, HeapOK(SWrapper, h, hd), NEW o \in Roots
  PROVE  /\ ServerNow(h, hd, OTServerResponseWrapper_clear_error(h, o), o,
                      P!None, Sub(h, h[o].result), h[o].unknown)
         /\ ServerNow(h, hd, OTServerResponseWrapper_clear_result(h, o), o,
                      Sub(h, h[o].error), P!None, h[o].unknown)
         /\ ServerNow(h, hd, OTServerResponseWrapper_Clear(h, o), o, P!None, P!None, <<>>)
         /\ ServerNow(h, hd, [OTServerResponseWrapper_SharedDtor(h, o) EXCEPT ![o] = New(SWrapper)], o,
                      P!None, P!None, <<>>)
<1>. DEFINE e == Delete(h, h[o].error)
            r == Delete(h, h[o].result)
            d == Delete(e, h[o].result)
            withoutError  == [e EXCEPT ![o].error = nullptr]
            withoutResult == [r EXCEPT ![o].result = nullptr]
            first  == [d EXCEPT ![o].error = nullptr]
            second == [first EXCEPT ![o].result = nullptr]
            third  == [second EXCEPT ![o].unknown = <<>>]
            renewed == [d EXCEPT ![o] = New(SWrapper)]
<1>1. /\ e \in Heaps(SWrapper) /\ r \in Heaps(SWrapper) /\ d \in Heaps(SWrapper)
      /\ \A p \in Roots : e[p] = h[p] /\ r[p] = h[p] /\ d[p] = h[p]
      /\ \A a \in Addr :
           /\ a # h[o].error => e[a] = h[a]
           /\ a # h[o].result => r[a] = h[a]
           /\ a # h[o].error /\ a # h[o].result => d[a] = h[a]
  BY ServerDeleted
<1>2. /\ OTServerResponseWrapper_SharedDtor(h, o) = d
      /\ OTServerResponseWrapper_clear_error(h, o) = withoutError
      /\ OTServerResponseWrapper_clear_result(h, o) = withoutResult
      /\ OTServerResponseWrapper_Clear(h, o) = third
  BY DEF OTServerResponseWrapper_SharedDtor, OTServerResponseWrapper_clear_error,
         OTServerResponseWrapper_clear_result, OTServerResponseWrapper_Clear
<1>3. nullptr \in Nat /\ nullptr \notin Addr /\ Roots \cap Addr = {} /\ <<>> \in Seq(F3)
  BY NullIsNoAddress
<1>4. /\ h[o].error \in Addr \cup {nullptr} /\ h[o].result \in Addr \cup {nullptr}
      /\ h[o].result # nullptr => h[o].error # h[o].result
  BY ServerRoot
<1>. HIDE DEF e, r, d
<1>15. h[o] \in ServerWrapperType
  BY ServerRoot
<1>5. /\ withoutError \in Heaps(SWrapper) /\ \A a \in (Roots \cup Addr) \ {o} : withoutError[a] = e[a]
      /\ withoutError[o].error = nullptr /\ withoutError[o].result = h[o].result /\ withoutError[o].unknown = h[o].unknown
      /\ withoutError[o] \in ServerWrapperType
  <2>. DEFINE m == [e[o] EXCEPT !.error = nullptr]
  <2>1. withoutError = [e EXCEPT ![o] = m]
    BY <1>1, MemberSet
  <2>2. m \in ServerWrapperType /\ m.error = nullptr /\ m.result = h[o].result /\ m.unknown = h[o].unknown
    BY <1>1, <1>3, <1>15 DEF ServerWrapperType
  <2>. HIDE DEF m, withoutError
  <2>3. withoutError \in Heaps(SWrapper)
    BY <1>1, <2>1, <2>2, WrapperClasses, RootSet
  <2>4. withoutError[o] = m /\ \A a \in (Roots \cup Addr) \ {o} : withoutError[a] = e[a]
    BY <1>1, <2>1, <2>2, HeapDomain
  <2>. QED
    BY <2>2, <2>3, <2>4
<1>6. /\ withoutResult \in Heaps(SWrapper) /\ \A a \in (Roots \cup Addr) \ {o} : withoutResult[a] = r[a]
      /\ withoutResult[o].error = h[o].error /\ withoutResult[o].result = nullptr /\ withoutResult[o].unknown = h[o].unknown
      /\ withoutResult[o] \in ServerWrapperType
  <2>. DEFINE m == [r[o] EXCEPT !.result = nullptr]
  <2>1. withoutResult = [r EXCEPT ![o] = m]
    BY <1>1, MemberSet
  <2>2. m \in ServerWrapperType /\ m.error = h[o].error /\ m.result = nullptr /\ m.unknown = h[o].unknown
    BY <1>1, <1>3, <1>15 DEF ServerWrapperType
  <2>. HIDE DEF m, withoutResult
  <2>3. withoutResult \in Heaps(SWrapper)
    BY <1>1, <2>1, <2>2, WrapperClasses, RootSet
  <2>4. withoutResult[o] = m /\ \A a \in (Roots \cup Addr) \ {o} : withoutResult[a] = r[a]
    BY <1>1, <2>1, <2>2, HeapDomain
  <2>. QED
    BY <2>2, <2>3, <2>4
<1>7. /\ first \in Heaps(SWrapper) /\ \A a \in (Roots \cup Addr) \ {o} : first[a] = d[a]
      /\ first[o].error = nullptr
      /\ first[o] \in ServerWrapperType
  <2>. DEFINE m == [d[o] EXCEPT !.error = nullptr]
  <2>1. first = [d EXCEPT ![o] = m]
    BY <1>1, MemberSet
  <2>2. m \in ServerWrapperType /\ m.error = nullptr
    BY <1>1, <1>3, <1>15 DEF ServerWrapperType
  <2>. HIDE DEF m, first
  <2>3. first \in Heaps(SWrapper)
    BY <1>1, <2>1, <2>2, WrapperClasses, RootSet
  <2>4. first[o] = m /\ \A a \in (Roots \cup Addr) \ {o} : first[a] = d[a]
    BY <1>1, <2>1, <2>2, HeapDomain
  <2>. QED
    BY <2>2, <2>3, <2>4
<1>. HIDE DEF withoutError, withoutResult, first
<1>8. /\ second \in Heaps(SWrapper) /\ \A a \in (Roots \cup Addr) \ {o} : second[a] = first[a]
      /\ second[o].error = nullptr /\ second[o].result = nullptr
      /\ second[o] \in ServerWrapperType
  <2>. DEFINE m == [first[o] EXCEPT !.result = nullptr]
  <2>1. second = [first EXCEPT ![o] = m]
    BY <1>7, MemberSet
  <2>2. m \in ServerWrapperType /\ m.error = nullptr /\ m.result = nullptr
    BY <1>7, <1>3, <1>15 DEF ServerWrapperType
  <2>. HIDE DEF m, second
  <2>3. second \in Heaps(SWrapper)
    BY <1>7, <2>1, <2>2, WrapperClasses, RootSet
  <2>4. second[o] = m /\ \A a \in (Roots \cup Addr) \ {o} : second[a] = first[a]
    BY <1>7, <2>1, <2>2, HeapDomain
  <2>. QED
    BY <2>2, <2>3, <2>4
<1>. HIDE DEF second
<1>9. /\ third \in Heaps(SWrapper) /\ \A a \in (Roots \cup Addr) \ {o} : third[a] = second[a]
      /\ third[o].error = nullptr /\ third[o].result = nullptr /\ third[o].unknown = <<>>
      /\ third[o] \in ServerWrapperType
  <2>. DEFINE m == [second[o] EXCEPT !.unknown = <<>>]
  <2>1. third = [second EXCEPT ![o] = m]
    BY <1>8, MemberSet
  <2>2. m \in ServerWrapperType /\ m.error = nullptr /\ m.result = nullptr /\ m.unknown = <<>>
    BY <1>8, <1>3, <1>15 DEF ServerWrapperType
  <2>. HIDE DEF m, third
  <2>3. third \in Heaps(SWrapper)
    BY <1>8, <2>1, <2>2, WrapperClasses, RootSet
  <2>4. third[o] = m /\ \A a \in (Roots \cup Addr) \ {o} : third[a] = second[a]
    BY <1>8, <2>1, <2>2, HeapDomain
  <2>. QED
    BY <2>2, <2>3, <2>4
<1>10. /\ \A a \in (Roots \cup Addr) \ {o} : renewed[a] = d[a]
       /\ renewed[o].error = nullptr /\ renewed[o].result = nullptr /\ renewed[o].unknown = <<>>
  <2>. DEFINE m == New(SWrapper)
  <2>1. m \in RootType(SWrapper) /\ m.error = nullptr /\ m.result = nullptr /\ m.unknown = <<>>
    BY WrapperNews, WrapperClasses DEF New, SWrapper, OTServerResponseWrapper_New
  <2>3. renewed = [d EXCEPT ![o] = m] /\ m \in ServerWrapperType
    BY <2>1, WrapperClasses
  <2>. HIDE DEF m, renewed
  <2>2. renewed \in Heaps(SWrapper)
    BY <1>1, <2>3, WrapperClasses, RootSet
  <2>4. renewed[o] = m /\ \A a \in (Roots \cup Addr) \ {o} : renewed[a] = d[a]
    BY <1>1, <2>3, HeapDomain
  <2>. QED
    BY <2>1, <2>4
<1>. HIDE DEF third, renewed
<1>11. ServerNow(h, hd, withoutError, o, P!None, Sub(h, h[o].result), h[o].unknown)
  <2>1. Keeps(SWrapper, h, hd, withoutError, o)
    BY <1>1, <1>3, <1>5, ServerKeeps
  <2>2. ServerIs(withoutError, o, P!None, Sub(h, h[o].result), h[o].unknown)
    BY <1>1, <1>3, <1>4, <1>5 DEF ServerIs, Sub
  <2>. QED
    BY <2>1, <2>2 DEF ServerNow
<1>12. ServerNow(h, hd, withoutResult, o, Sub(h, h[o].error), P!None, h[o].unknown)
  <2>1. Keeps(SWrapper, h, hd, withoutResult, o)
    BY <1>1, <1>3, <1>6, ServerKeeps
  <2>2. ServerIs(withoutResult, o, Sub(h, h[o].error), P!None, h[o].unknown)
    BY <1>1, <1>3, <1>4, <1>6 DEF ServerIs, Sub
  <2>. QED
    BY <2>1, <2>2 DEF ServerNow
<1>13. ServerNow(h, hd, third, o, P!None, P!None, <<>>)
  <2>1. Keeps(SWrapper, h, hd, third, o)
    BY <1>1, <1>3, <1>7, <1>8, <1>9, ServerKeeps
  <2>2. ServerIs(third, o, P!None, P!None, <<>>)
    BY <1>9 DEF ServerIs, Sub
  <2>. QED
    BY <2>1, <2>2 DEF ServerNow
<1>14. ServerNow(h, hd, renewed, o, P!None, P!None, <<>>)
  <2>1. Keeps(SWrapper, h, hd, renewed, o)
    BY <1>1, <1>3, <1>10, ServerKeeps
  <2>2. ServerIs(renewed, o, P!None, P!None, <<>>)
    BY <1>10 DEF ServerIs, Sub
  <2>. QED
    BY <2>1, <2>2 DEF ServerNow
<1>. QED
  BY <1>2, <1>11, <1>12, <1>13, <1>14 DEF renewed

\* release_ nulls the pointer and leaves the submessage to the caller.
LEMMA ServerReleases ==
  ASSUME NEW h, NEW hd, HeapOK(SWrapper, h, hd), NEW o \in Roots
  PROVE  LET e == OTServerResponseWrapper_release_error(h, o)
             r == OTServerResponseWrapper_release_result(h, o)
         IN /\ ServerNow(h, hd, e, o, P!None, Sub(h, h[o].result), h[o].unknown)
            /\ ServerNow(h, hd, r, o, Sub(h, h[o].error), P!None, h[o].unknown)
            /\ \A a \in Addr : e[a] = h[a] /\ r[a] = h[a]
<1>. DEFINE e == [h EXCEPT ![o].error = nullptr]
            r == [h EXCEPT ![o].result = nullptr]
<1>1. /\ OTServerResponseWrapper_release_error(h, o) = e
      /\ OTServerResponseWrapper_release_result(h, o) = r
  BY DEF OTServerResponseWrapper_release_error, OTServerResponseWrapper_release_result
<1>2. nullptr \in Nat /\ nullptr \notin Addr /\ Roots \cap Addr = {}
  BY NullIsNoAddress
<1>3. /\ h \in Heaps(SWrapper) /\ h[o] \in ServerWrapperType
      /\ h[o].error \in Addr \cup {nullptr} /\ h[o].result \in Addr \cup {nullptr}
  BY ServerRoot
<1>4. /\ \A a \in (Roots \cup Addr) \ {o} : e[a] = h[a]
      /\ e[o].error = nullptr /\ e[o].result = h[o].result
      /\ e[o].unknown = h[o].unknown
  <2>. DEFINE m == [h[o] EXCEPT !.error = nullptr]
  <2>1. e = [h EXCEPT ![o] = m]
    BY <1>3, MemberSet
  <2>2. m \in ServerWrapperType /\ m.error = nullptr /\ m.result = h[o].result /\ m.unknown = h[o].unknown
    BY <1>2, <1>3 DEF ServerWrapperType
  <2>. HIDE DEF m, e
  <2>3. e[o] = m /\ \A a \in (Roots \cup Addr) \ {o} : e[a] = h[a]
    BY <1>3, <2>1, <2>2, HeapDomain
  <2>. QED
    BY <2>2, <2>3
<1>5. /\ \A a \in (Roots \cup Addr) \ {o} : r[a] = h[a]
      /\ r[o].error = h[o].error /\ r[o].result = nullptr
      /\ r[o].unknown = h[o].unknown
  <2>. DEFINE m == [h[o] EXCEPT !.result = nullptr]
  <2>1. r = [h EXCEPT ![o] = m]
    BY <1>3, MemberSet
  <2>2. m \in ServerWrapperType /\ m.error = h[o].error /\ m.result = nullptr /\ m.unknown = h[o].unknown
    BY <1>2, <1>3 DEF ServerWrapperType
  <2>. HIDE DEF m, r
  <2>3. r[o] = m /\ \A a \in (Roots \cup Addr) \ {o} : r[a] = h[a]
    BY <1>3, <2>1, <2>2, HeapDomain
  <2>. QED
    BY <2>2, <2>3
<1>. HIDE DEF e, r
<1>6. Keeps(SWrapper, h, hd, e, o) /\ Keeps(SWrapper, h, hd, r, o)
  BY <1>2, <1>4, <1>5, ServerKeeps
<1>7. /\ ServerIs(e, o, P!None, Sub(h, h[o].result), h[o].unknown)
      /\ ServerIs(r, o, Sub(h, h[o].error), P!None, h[o].unknown)
  BY <1>2, <1>3, <1>4, <1>5 DEF ServerIs, Sub
<1>8. \A a \in Addr : e[a] = h[a] /\ r[a] = h[a]
  BY <1>2, <1>4, <1>5
<1>. QED
  BY <1>1, <1>6, <1>7, <1>8 DEF ServerNow

\* What is attached is the caller's until then.
LEMMA ServerAttaches ==
  ASSUME NEW h, NEW hd, HeapOK(SWrapper, h, hd), hd # nullptr, NEW o \in Roots
  PROVE  /\ ServerNow(h, hd, OTServerResponseWrapper_set_allocated_error(h, o, hd), o,
                      h[hd], Sub(h, h[o].result), h[o].unknown)
         /\ ServerNow(h, hd, OTServerResponseWrapper_set_allocated_result(h, o, hd), o,
                      Sub(h, h[o].error), h[hd], h[o].unknown)
<1>. DEFINE e == Delete(h, h[o].error)
            r == Delete(h, h[o].result)
            withError  == [e EXCEPT ![o].error = hd]
            withResult == [r EXCEPT ![o].result = hd]
<1>1. /\ e \in Heaps(SWrapper) /\ r \in Heaps(SWrapper)
      /\ \A p \in Roots : e[p] = h[p] /\ r[p] = h[p]
      /\ \A a \in Addr :
           /\ a # h[o].error => e[a] = h[a]
           /\ a # h[o].result => r[a] = h[a]
  BY ServerDeleted
<1>2. /\ OTServerResponseWrapper_set_allocated_error(h, o, hd) = withError
      /\ OTServerResponseWrapper_set_allocated_result(h, o, hd) = withResult
  BY DEF OTServerResponseWrapper_set_allocated_error, OTServerResponseWrapper_set_allocated_result
<1>3. nullptr \in Nat /\ nullptr \notin Addr /\ Roots \cap Addr = {} /\ Addr \subseteq Nat
  BY NullIsNoAddress
<1>4. /\ h[o].error \in Addr \cup {nullptr} /\ h[o].result \in Addr \cup {nullptr}
      /\ h[o].result # nullptr => h[o].error # h[o].result
      /\ hd \in Addr /\ h[o].error # hd /\ h[o].result # hd
  BY ServerRoot, WrapperClasses DEF HeapOK, HandOK
<1>. HIDE DEF e, r
<1>11. h[o] \in ServerWrapperType
  BY ServerRoot
<1>5. /\ \A a \in (Roots \cup Addr) \ {o} : withError[a] = e[a]
      /\ withError[o].error = hd /\ withError[o].result = h[o].result
      /\ withError[o].unknown = h[o].unknown
  <2>. DEFINE m == [e[o] EXCEPT !.error = hd]
  <2>1. withError = [e EXCEPT ![o] = m]
    BY MemberSet
  <2>2. m \in ServerWrapperType /\ m.error = hd /\ m.result = h[o].result /\ m.unknown = h[o].unknown
    BY <1>1, <1>3, <1>4, <1>11 DEF ServerWrapperType
  <2>. HIDE DEF m, withError
  <2>3. withError \in Heaps(SWrapper)
    BY <1>1, <2>1, <2>2, WrapperClasses, RootSet
  <2>4. withError[o] = m /\ \A a \in (Roots \cup Addr) \ {o} : withError[a] = e[a]
    BY <1>1, <2>1, <2>2, HeapDomain
  <2>. QED
    BY <2>2, <2>3, <2>4
<1>6. /\ \A a \in (Roots \cup Addr) \ {o} : withResult[a] = r[a]
      /\ withResult[o].error = h[o].error /\ withResult[o].result = hd
      /\ withResult[o].unknown = h[o].unknown
  <2>. DEFINE m == [r[o] EXCEPT !.result = hd]
  <2>1. withResult = [r EXCEPT ![o] = m]
    BY MemberSet
  <2>2. m \in ServerWrapperType /\ m.error = h[o].error /\ m.result = hd /\ m.unknown = h[o].unknown
    BY <1>1, <1>3, <1>4, <1>11 DEF ServerWrapperType
  <2>. HIDE DEF m, withResult
  <2>3. withResult \in Heaps(SWrapper)
    BY <1>1, <2>1, <2>2, WrapperClasses, RootSet
  <2>4. withResult[o] = m /\ \A a \in (Roots \cup Addr) \ {o} : withResult[a] = r[a]
    BY <1>1, <2>1, <2>2, HeapDomain
  <2>. QED
    BY <2>2, <2>3, <2>4
<1>. HIDE DEF withError, withResult
<1>7. Keeps(SWrapper, h, hd, withError, o) /\ Keeps(SWrapper, h, hd, withResult, o)
  BY <1>1, <1>3, <1>5, <1>6, ServerKeeps
<1>8. ServerIs(withError, o, h[hd], Sub(h, h[o].result), h[o].unknown)
  BY <1>1, <1>3, <1>4, <1>5 DEF ServerIs, Sub
<1>9. ServerIs(withResult, o, Sub(h, h[o].error), h[hd], h[o].unknown)
  BY <1>1, <1>3, <1>4, <1>6 DEF ServerIs, Sub
<1>. QED
  BY <1>2, <1>7, <1>8, <1>9 DEF ServerNow

\* A submessage, new or changed.
LEMMA ServerSubs ==
  ASSUME NEW h, NEW hd, HeapOK(SWrapper, h, hd), NEW o \in Roots, NEW v
  PROVE  /\ h[o].error = nullptr =>
              ServerNow(h, hd, WithError(h, o, v), o, v, Sub(h, h[o].result), h[o].unknown)
         /\ h[o].result = nullptr =>
              ServerNow(h, hd, WithResult(h, o, v), o, Sub(h, h[o].error), v, h[o].unknown)
         /\ h[o].error # nullptr =>
              ServerNow(h, hd, SetError(h, o, v), o, v, Sub(h, h[o].result), h[o].unknown)
         /\ h[o].result # nullptr =>
              ServerNow(h, hd, SetResult(h, o, v), o, Sub(h, h[o].error), v, h[o].unknown)
<1>1. nullptr \in Nat /\ nullptr \notin Addr /\ Roots \cap Addr = {} /\ Addr \subseteq Nat
  BY NullIsNoAddress
<1>2. /\ h \in Heaps(SWrapper) /\ DOMAIN h = Roots \cup Addr /\ h[o] \in ServerWrapperType
      /\ h[o].error \in Addr \cup {nullptr} /\ h[o].result \in Addr \cup {nullptr}
      /\ h[o].result # nullptr => h[o].error # h[o].result
      /\ h[o].error # nullptr => h[h[o].error] # Free
      /\ h[o].result # nullptr => h[h[o].result] # Free
  BY ServerRoot, HeldClasses
<1>3. ASSUME h[o].error = nullptr
      PROVE  ServerNow(h, hd, WithError(h, o, v), o, v, Sub(h, h[o].result), h[o].unknown)
  <2>. DEFINE p == Unused(h)
              g == [h EXCEPT ![p] = v, ![o].error = p]
  <2>1. p \in Addr /\ h[p] = Free
    BY <1>3, EnoughMemory, UnusedIsFree, WrapperClasses
  <2>. HIDE DEF p
  <2>2. /\ g[p] = v /\ \A a \in (Roots \cup Addr) \ {o, p} : g[a] = h[a]
        /\ g[o].error = p /\ g[o].result = h[o].result /\ g[o].unknown = h[o].unknown
    <3>1. g[p] = v /\ g[o] = [h[o] EXCEPT !.error = p] /\ \A a \in (Roots \cup Addr) \ {o, p} : g[a] = h[a]
      BY <1>1, <1>2, <2>1
    <3>. HIDE DEF g
    <3>. QED
      BY <1>2, <3>1 DEF ServerWrapperType
  <2>. HIDE DEF g
  <2>3. Keeps(SWrapper, h, hd, g, o)
    BY <1>1, <2>1, <2>2, ServerKeeps
  <2>4. ServerIs(g, o, v, Sub(h, h[o].result), h[o].unknown)
    BY <1>1, <1>2, <2>1, <2>2 DEF ServerIs, Sub
  <2>. QED
    BY <2>3, <2>4 DEF ServerNow, WithError, g, p
<1>4. ASSUME h[o].result = nullptr
      PROVE  ServerNow(h, hd, WithResult(h, o, v), o, Sub(h, h[o].error), v, h[o].unknown)
  <2>. DEFINE p == Unused(h)
              g == [h EXCEPT ![p] = v, ![o].result = p]
  <2>1. p \in Addr /\ h[p] = Free
    BY <1>4, EnoughMemory, UnusedIsFree, WrapperClasses
  <2>. HIDE DEF p
  <2>2. /\ g[p] = v /\ \A a \in (Roots \cup Addr) \ {o, p} : g[a] = h[a]
        /\ g[o].error = h[o].error /\ g[o].result = p /\ g[o].unknown = h[o].unknown
    <3>1. g[p] = v /\ g[o] = [h[o] EXCEPT !.result = p] /\ \A a \in (Roots \cup Addr) \ {o, p} : g[a] = h[a]
      BY <1>1, <1>2, <2>1
    <3>. HIDE DEF g
    <3>. QED
      BY <1>2, <3>1 DEF ServerWrapperType
  <2>. HIDE DEF g
  <2>3. Keeps(SWrapper, h, hd, g, o)
    BY <1>1, <2>1, <2>2, ServerKeeps
  <2>4. ServerIs(g, o, Sub(h, h[o].error), v, h[o].unknown)
    BY <1>1, <1>2, <2>1, <2>2 DEF ServerIs, Sub
  <2>. QED
    BY <2>3, <2>4 DEF ServerNow, WithResult, g, p
<1>5. ASSUME h[o].error # nullptr
      PROVE  ServerNow(h, hd, SetError(h, o, v), o, v, Sub(h, h[o].result), h[o].unknown)
  <2>. DEFINE p == h[o].error
              g == [h EXCEPT ![p] = v]
  <2>1. p \in Addr /\ p # nullptr
    BY <1>2, <1>5
  <2>2. g[p] = v /\ \A a \in (Roots \cup Addr) \ {p} : g[a] = h[a]
    BY <1>2, <2>1
  <2>. HIDE DEF g
  <2>3. Keeps(SWrapper, h, hd, g, o)
    BY <1>1, <2>1, <2>2, ServerKeeps
  <2>4. ServerIs(g, o, v, Sub(h, h[o].result), h[o].unknown)
    BY <1>1, <1>2, <2>1, <2>2 DEF ServerIs, Sub
  <2>. QED
    BY <2>3, <2>4 DEF ServerNow, SetError, g, p
<1>6. ASSUME h[o].result # nullptr
      PROVE  ServerNow(h, hd, SetResult(h, o, v), o, Sub(h, h[o].error), v, h[o].unknown)
  <2>. DEFINE p == h[o].result
              g == [h EXCEPT ![p] = v]
  <2>1. p \in Addr /\ p # nullptr
    BY <1>2, <1>6
  <2>2. g[p] = v /\ \A a \in (Roots \cup Addr) \ {p} : g[a] = h[a]
    BY <1>2, <2>1
  <2>. HIDE DEF g
  <2>3. Keeps(SWrapper, h, hd, g, o)
    BY <1>1, <2>1, <2>2, ServerKeeps
  <2>4. ServerIs(g, o, Sub(h, h[o].error), v, h[o].unknown)
    BY <1>1, <1>2, <2>1, <2>2 DEF ServerIs, Sub
  <2>. QED
    BY <2>3, <2>4 DEF ServerNow, SetResult, g, p
<1>. QED
  BY <1>3, <1>4, <1>5, <1>6

\* What an operation on o does in two steps.
LEMMA ServerThen ==
  ASSUME NEW h, NEW hd, NEW g, NEW k, NEW o, NEW e, NEW r, NEW u,
         Keeps(SWrapper, h, hd, g, o), ServerNow(g, hd, k, o, e, r, u)
  PROVE  ServerNow(h, hd, k, o, e, r, u)
BY KeepsOn DEF ServerNow

\* mutable_ and a change of the submessage.
LEMMA ServerMutated ==
  ASSUME NEW h, NEW hd, HeapOK(SWrapper, h, hd), NEW o \in Roots, NEW v
  PROVE  LET e == OTServerResponseWrapper_mutable_error(h, o)
             r == OTServerResponseWrapper_mutable_result(h, o)
         IN /\ ServerNow(h, hd, SetError(e, o, v), o, v, Sub(h, h[o].result), h[o].unknown)
            /\ ServerNow(h, hd, SetResult(r, o, v), o, Sub(h, h[o].error), v, h[o].unknown)
            /\ e[e[o].error] = IF h[o].error = nullptr THEN Error_New ELSE h[h[o].error]
            /\ r[r[o].result] = IF h[o].result = nullptr THEN OTServerResponse_New
                                ELSE h[h[o].result]
<1>. DEFINE e == OTServerResponseWrapper_mutable_error(h, o)
            r == OTServerResponseWrapper_mutable_result(h, o)
<1>1. /\ HeapOK(SWrapper, e, hd) /\ e[o].error # nullptr
      /\ HeapOK(SWrapper, r, hd) /\ r[o].result # nullptr
  BY ServerMutable
<1>2. /\ h[o].error # nullptr => e = h
      /\ h[o].error = nullptr => e = WithError(h, o, Error_New)
      /\ h[o].result # nullptr => r = h
      /\ h[o].result = nullptr => r = WithResult(h, o, OTServerResponse_New)
  BY DEF OTServerResponseWrapper_mutable_error, OTServerResponseWrapper_mutable_result,
         WithError, WithResult
<1>. HIDE DEF e, r
<1>3. /\ Keeps(SWrapper, h, hd, e, o)
      /\ Sub(e, e[o].result) = Sub(h, h[o].result) /\ e[o].unknown = h[o].unknown
      /\ e[e[o].error] = IF h[o].error = nullptr THEN Error_New ELSE h[h[o].error]
  <2>1. CASE h[o].error # nullptr
    BY <1>2, <2>1, KeepsSame
  <2>2. CASE h[o].error = nullptr
    <3>1. ServerNow(h, hd, e, o, Error_New, Sub(h, h[o].result), h[o].unknown)
      BY <1>2, <2>2, ServerSubs
    <3>. QED
      BY <1>1, <2>2, <3>1 DEF ServerNow, ServerIs, Sub
  <2>. QED
    BY <2>1, <2>2
<1>4. /\ Keeps(SWrapper, h, hd, r, o)
      /\ Sub(r, r[o].error) = Sub(h, h[o].error) /\ r[o].unknown = h[o].unknown
      /\ r[r[o].result] = IF h[o].result = nullptr THEN OTServerResponse_New
                          ELSE h[h[o].result]
  <2>1. CASE h[o].result # nullptr
    BY <1>2, <2>1, KeepsSame
  <2>2. CASE h[o].result = nullptr
    <3>1. ServerNow(h, hd, r, o, Sub(h, h[o].error), OTServerResponse_New, h[o].unknown)
      BY <1>2, <2>2, ServerSubs
    <3>. QED
      BY <1>1, <2>2, <3>1 DEF ServerNow, ServerIs, Sub
  <2>. QED
    BY <2>1, <2>2
<1>5. ServerNow(h, hd, SetError(e, o, v), o, v, Sub(h, h[o].result), h[o].unknown)
  <2>1. ServerNow(e, hd, SetError(e, o, v), o, v, Sub(h, h[o].result), h[o].unknown)
    BY <1>1, <1>3, ServerSubs
  <2>. QED
    BY <1>3, <2>1, ServerThen
<1>6. ServerNow(h, hd, SetResult(r, o, v), o, Sub(h, h[o].error), v, h[o].unknown)
  <2>1. ServerNow(r, hd, SetResult(r, o, v), o, Sub(h, h[o].error), v, h[o].unknown)
    BY <1>1, <1>4, ServerSubs
  <2>. QED
    BY <1>4, <2>1, ServerThen
<1>. QED
  BY <1>3, <1>4, <1>5, <1>6 DEF e, r

\* Two message fields merged.
MergedSub(v, w) ==
  IF w = P!None THEN v ELSE IF v = P!None THEN w ELSE Abstract!MergedBy(Abstract!Over, v, w)

\* Merging two wrapper values merges their submessages.
LEMMA ServerValuesMerged ==
  ASSUME NEW e, NEW r, NEW u, NEW e2, NEW r2, NEW u2
  PROVE  Abstract!Merged(ServerValue(e, r, u), ServerValue(e2, r2, u2))
           = ServerValue(MergedSub(e, e2), MergedSub(r, r2), u \o u2)
<1>. DEFINE a == ServerValue(e, r, u)
            b == ServerValue(e2, r2, u2)
            g == Abstract!Merged(a, b)
            s == ServerValue(MergedSub(e, e2), MergedSub(r, r2), u \o u2)
            D == {"class", "error", "result", "unknown"}
            F(x) == Abstract!FieldOf(SWrapper, x)
<1>1. /\ a = [x \in D |-> a[x]] /\ b = [x \in D |-> b[x]] /\ s = [x \in D |-> s[x]]
      /\ a.class = SWrapper /\ a.error = e /\ a.result = r /\ a.unknown = u
      /\ b.error = e2 /\ b.result = r2 /\ b.unknown = u2
      /\ s.class = SWrapper /\ s.unknown = u \o u2
      /\ s.error = MergedSub(e, e2) /\ s.result = MergedSub(r, r2)
  BY DEF ServerValue
<1>2. /\ F("error").label = "one" /\ F("error").type = "Error"
      /\ F("result").label = "one" /\ F("result").type = "OTServerResponse"
  BY ServerWrapperSchema DEF SWrapper
<1>. HIDE DEF a, b, s, F
<1>3. \A x \in {"error", "result"} :
        /\ Abstract!IsOptional(F(x)) /\ Abstract!DefaultOf(F(x)) = P!None
        /\ \A v, w : Abstract!Over(F(x), v, w) = IF w = P!None THEN v ELSE w
  <2>1. \A x \in {"error", "result"} : Abstract!IsOptional(F(x)) /\ Abstract!DefaultOf(F(x)) = P!None
    BY <1>2, DefaultIs
  <2>. QED
    BY <1>2, <2>1 DEF Abstract!Over
<1>4. /\ g = [x \in D |-> g[x]] /\ g["class"] = a.class /\ g["unknown"] = a.unknown \o b.unknown
      /\ g["error"] = IF Abstract!IsOptional(F("error")) /\ a.error # P!None /\ b.error # P!None
                      THEN Abstract!MergedBy(Abstract!Over, a.error, b.error)
                      ELSE Abstract!Over(F("error"), a.error, b.error)
      /\ g["result"] = IF Abstract!IsOptional(F("result")) /\ a.result # P!None /\ b.result # P!None
                       THEN Abstract!MergedBy(Abstract!Over, a.result, b.result)
                       ELSE Abstract!Over(F("result"), a.result, b.result)
  <2>1. DOMAIN a = D
    BY <1>1
  <2>. HIDE DEF D
  <2>2. Abstract!None = P!None
    BY SameSchema
  <2>3. g = [x \in D |-> g[x]] /\ {"class", "unknown", "error", "result"} = D
    BY <2>1 DEF Abstract!Merged, Abstract!MergedBy, D
  <2>4. g["class"] = a.class /\ g["unknown"] = a.unknown \o b.unknown
    BY <2>1, <2>3 DEF Abstract!Merged, Abstract!MergedBy
  <2>5. g["error"] = IF Abstract!IsOptional(F("error")) /\ a.error # P!None /\ b.error # P!None
                      THEN Abstract!MergedBy(Abstract!Over, a.error, b.error)
                      ELSE Abstract!Over(F("error"), a.error, b.error)
    BY <1>1, <2>1, <2>2, <2>3 DEF Abstract!Merged, Abstract!MergedBy, F
  <2>6. g["result"] = IF Abstract!IsOptional(F("result")) /\ a.result # P!None /\ b.result # P!None
                       THEN Abstract!MergedBy(Abstract!Over, a.result, b.result)
                       ELSE Abstract!Over(F("result"), a.result, b.result)
    BY <1>1, <2>1, <2>2, <2>3 DEF Abstract!Merged, Abstract!MergedBy, F
  <2>. QED
    BY <2>3, <2>4, <2>5, <2>6
<1>. HIDE DEF g
<1>5. /\ g["class"] = s["class"] /\ g["unknown"] = s["unknown"]
      /\ g["error"] = s["error"] /\ g["result"] = s["result"]
  <2>1. g["class"] = s["class"] /\ g["unknown"] = s["unknown"]
    BY <1>1, <1>4
  <2>2. g["error"] = s["error"]
    <3>2. /\ Abstract!IsOptional(F("error"))
          /\ \A v, w : Abstract!Over(F("error"), v, w) = IF w = P!None THEN v ELSE w
      BY <1>3
    <3>1. g["error"] = IF e # P!None /\ e2 # P!None
                       THEN Abstract!MergedBy(Abstract!Over, e, e2)
                       ELSE IF e2 = P!None THEN e ELSE e2
      BY <1>1, <1>4, <3>2
    <3>. QED
      BY <1>1, <3>1 DEF MergedSub
  <2>3. g["result"] = s["result"]
    <3>2. /\ Abstract!IsOptional(F("result"))
          /\ \A v, w : Abstract!Over(F("result"), v, w) = IF w = P!None THEN v ELSE w
      BY <1>3
    <3>1. g["result"] = IF r # P!None /\ r2 # P!None
                        THEN Abstract!MergedBy(Abstract!Over, r, r2)
                        ELSE IF r2 = P!None THEN r ELSE r2
      BY <1>1, <1>4, <3>2
    <3>. QED
      BY <1>1, <3>1 DEF MergedSub
  <2>. QED
    BY <2>1, <2>2, <2>3
<1>6. \A x \in D : g[x] = s[x]
  BY <1>5
<1>. HIDE DEF D
<1>7. g = s
  BY <1>1, <1>4, <1>6
<1>. QED
  BY <1>7 DEF g, s, a, b

\* A submessage merged into a field, there or not.
LEMMA SubsMerge ==
  /\ \A v \in ErrorType(F2) :
       v # P!None /\ Error_MergeFrom(Error_New, v) = v /\ Error_Construct(v) = v
  /\ \A v, w \in ErrorType(F2) : Error_MergeFrom(v, w) = Abstract!MergedBy(Abstract!Over, v, w)
  /\ \A v \in ServerResponseType(F2, F1) :
       v # P!None /\ OTServerResponse_MergeFrom(OTServerResponse_New, v) = v
         /\ OTServerResponse_Construct(v) = v
  /\ \A v, w \in ServerResponseType(F2, F1) :
       OTServerResponse_MergeFrom(v, w) = Abstract!MergedBy(Abstract!Over, v, w)
<1>1. ASSUME NEW v \in ErrorType(F2), NEW w \in ErrorType(F2)
      PROVE  /\ v # P!None /\ Error_MergeFrom(Error_New, v) = v /\ Error_Construct(v) = v
             /\ Error_MergeFrom(v, w) = Abstract!MergedBy(Abstract!Over, v, w)
  <2>1. v.class = "Error" /\ P!None.class = "none"
    BY HeldClasses DEF P!None
  <2>2. AsMerged(v, w, Abstract!MergedBy(Abstract!Over, v, w))
    BY MergedByOver
  <2>3. /\ Error_MergeFrom(Error_New, v) = v /\ Error_Construct(v) = v
        /\ \A g : AsMerged(v, w, g) => Error_MergeFrom(v, w) = g
    BY ErrorValues
  <2>. QED
    BY <2>1, <2>2, <2>3
<1>2. ASSUME NEW v \in ServerResponseType(F2, F1), NEW w \in ServerResponseType(F2, F1)
      PROVE  /\ v # P!None /\ OTServerResponse_MergeFrom(OTServerResponse_New, v) = v
             /\ OTServerResponse_Construct(v) = v
             /\ OTServerResponse_MergeFrom(v, w) = Abstract!MergedBy(Abstract!Over, v, w)
  <2>1. v.class = "OTServerResponse" /\ P!None.class = "none"
    BY HeldClasses DEF P!None
  <2>2. AsMerged(v, w, Abstract!MergedBy(Abstract!Over, v, w))
    BY MergedByOver
  <2>3. /\ OTServerResponse_MergeFrom(OTServerResponse_New, v) = v /\ OTServerResponse_Construct(v) = v
        /\ \A g : AsMerged(v, w, g) => OTServerResponse_MergeFrom(v, w) = g
    BY ServerResponseValues
  <2>. QED
    BY <2>1, <2>2, <2>3
<1>. QED
  BY <1>1, <1>2

\* A submessage merged into the one mutable_ returns.
LEMMA ServerSubMerged ==
  ASSUME NEW h, NEW hd, HeapOK(SWrapper, h, hd), NEW o \in Roots
  PROVE  LET e == OTServerResponseWrapper_mutable_error(h, o)
             r == OTServerResponseWrapper_mutable_result(h, o)
         IN /\ \A v \in ErrorType(F2) :
                 LET g == SetError(e, o, Error_MergeFrom(e[e[o].error], v)) IN
                 HeapOK(SWrapper, g, hd)
                   /\ ServerNow(h, hd, g, o, MergedSub(Sub(h, h[o].error), v),
                                Sub(h, h[o].result), h[o].unknown)
            /\ \A v \in ServerResponseType(F2, F1) :
                 LET g == SetResult(r, o, OTServerResponse_MergeFrom(r[r[o].result], v)) IN
                 HeapOK(SWrapper, g, hd)
                   /\ ServerNow(h, hd, g, o, Sub(h, h[o].error),
                                MergedSub(Sub(h, h[o].result), v), h[o].unknown)
<1>. DEFINE e == OTServerResponseWrapper_mutable_error(h, o)
            r == OTServerResponseWrapper_mutable_result(h, o)
<1>1. /\ HeapOK(SWrapper, e, hd) /\ e[o].error # nullptr
      /\ HeapOK(SWrapper, r, hd) /\ r[o].result # nullptr
  BY ServerMutable
<1>2. /\ \A v : ServerNow(h, hd, SetError(e, o, v), o, v, Sub(h, h[o].result), h[o].unknown)
      /\ \A v : ServerNow(h, hd, SetResult(r, o, v), o, Sub(h, h[o].error), v, h[o].unknown)
      /\ e[e[o].error] = IF h[o].error = nullptr THEN Error_New ELSE h[h[o].error]
      /\ r[r[o].result] = IF h[o].result = nullptr THEN OTServerResponse_New ELSE h[h[o].result]
  BY ServerMutated
<1>. HIDE DEF e, r
<1>3. /\ e[e[o].error] \in ErrorType(F2) /\ r[r[o].result] \in ServerResponseType(F2, F1)
      /\ h[o].error # nullptr => h[h[o].error] \in ErrorType(F2)
      /\ h[o].result # nullptr => h[h[o].result] \in ServerResponseType(F2, F1)
  BY <1>1, ServerRoot
<1>4. ASSUME NEW v \in ErrorType(F2)
      PROVE  LET g == SetError(e, o, Error_MergeFrom(e[e[o].error], v)) IN
             HeapOK(SWrapper, g, hd)
               /\ ServerNow(h, hd, g, o, MergedSub(Sub(h, h[o].error), v),
                            Sub(h, h[o].result), h[o].unknown)
  <2>. DEFINE n == Error_MergeFrom(e[e[o].error], v)
  <2>1. n \in ErrorType(F2)
    BY <1>3, ErrorKept
  <2>2. n = MergedSub(Sub(h, h[o].error), v)
    <3>1. CASE h[o].error = nullptr
      BY <1>2, <3>1, SubsMerge DEF MergedSub, Sub
    <3>2. CASE h[o].error # nullptr
      BY <1>2, <1>3, <3>2, SubsMerge DEF MergedSub, Sub
    <3>. QED
      BY <3>1, <3>2
  <2>. HIDE DEF n
  <2>3. HeapOK(SWrapper, SetError(e, o, n), hd)
    BY <1>1, <2>1, SubsSet
  <2>4. ServerNow(h, hd, SetError(e, o, n), o, n, Sub(h, h[o].result), h[o].unknown)
    BY <1>2
  <2>. QED
    BY <2>2, <2>3, <2>4 DEF n
<1>5. ASSUME NEW v \in ServerResponseType(F2, F1)
      PROVE  LET g == SetResult(r, o, OTServerResponse_MergeFrom(r[r[o].result], v)) IN
             HeapOK(SWrapper, g, hd)
               /\ ServerNow(h, hd, g, o, Sub(h, h[o].error),
                            MergedSub(Sub(h, h[o].result), v), h[o].unknown)
  <2>. DEFINE n == OTServerResponse_MergeFrom(r[r[o].result], v)
  <2>1. n \in ServerResponseType(F2, F1)
    BY <1>3, ServerResponseKept
  <2>2. n = MergedSub(Sub(h, h[o].result), v)
    <3>1. CASE h[o].result = nullptr
      BY <1>2, <3>1, SubsMerge DEF MergedSub, Sub
    <3>2. CASE h[o].result # nullptr
      BY <1>2, <1>3, <3>2, SubsMerge DEF MergedSub, Sub
    <3>. QED
      BY <3>1, <3>2
  <2>. HIDE DEF n
  <2>3. HeapOK(SWrapper, SetResult(r, o, n), hd)
    BY <1>1, <2>1, SubsSet
  <2>4. ServerNow(h, hd, SetResult(r, o, n), o, Sub(h, h[o].error), n, h[o].unknown)
    BY <1>2
  <2>. QED
    BY <2>2, <2>3, <2>4 DEF n
<1>. QED
  BY <1>4, <1>5 DEF e, r

\* A change of the unknown fields.
LEMMA ServerUnknown ==
  ASSUME NEW h, NEW hd, HeapOK(SWrapper, h, hd), NEW o \in Roots, NEW w
  PROVE  ServerNow(h, hd, [h EXCEPT ![o].unknown = w], o,
                   Sub(h, h[o].error), Sub(h, h[o].result), w)
<1>. DEFINE m == [h[o] EXCEPT !.unknown = w]
            g == [h EXCEPT ![o].unknown = w]
<1>1. /\ h \in Heaps(SWrapper) /\ h[o] \in ServerWrapperType /\ DOMAIN h = Roots \cup Addr
      /\ h[o].error \in Addr \cup {nullptr} /\ h[o].result \in Addr \cup {nullptr}
  BY ServerRoot
<1>2. g = [h EXCEPT ![o] = m]
  BY <1>1, MemberSet
<1>3. m.error = h[o].error /\ m.result = h[o].result /\ m.unknown = w
  BY <1>1 DEF ServerWrapperType
<1>. HIDE DEF m, g
<1>4. g[o] = m /\ \A a \in (Roots \cup Addr) \ {o} : g[a] = h[a]
  BY <1>1, <1>2
<1>5. Keeps(SWrapper, h, hd, g, o)
  BY <1>4, NullIsNoAddress, ServerKeeps
<1>6. ServerIs(g, o, Sub(h, h[o].error), Sub(h, h[o].result), w)
  BY <1>1, <1>3, <1>4, NullIsNoAddress DEF ServerIs, Sub
<1>. QED
  BY <1>5, <1>6 DEF ServerNow, g

\* A null pointer merges as nothing.
LEMMA MergedSubs ==
  \A v : MergedSub(v, P!None) = v /\ MergedSub(P!None, v) = v
BY DEF MergedSub

\* MergeFrom merges the values, into itself too.
LEMMA ServerMerges ==
  ASSUME NEW h, NEW hd, HeapOK(SWrapper, h, hd), NEW o \in Roots, NEW from \in Roots
  PROVE  ServerNow(h, hd, OTServerResponseWrapper_MergeFrom(h, o, from), o,
                   MergedSub(Sub(h, h[o].error), Sub(h, h[from].error)),
                   MergedSub(Sub(h, h[o].result), Sub(h, h[from].result)),
                   h[o].unknown \o h[from].unknown)
<1>. DEFINE withError == OTServerResponseWrapper_mutable_error(h, o)
            e == Error_MergeFrom(withError[withError[o].error], h[h[from].error])
            error == IF h[from].error = nullptr THEN h ELSE SetError(withError, o, e)
            withResult == OTServerResponseWrapper_mutable_result(error, o)
            r == OTServerResponse_MergeFrom(withResult[withResult[o].result], h[h[from].result])
            result == IF h[from].result = nullptr THEN error ELSE SetResult(withResult, o, r)
            E == MergedSub(Sub(h, h[o].error), Sub(h, h[from].error))
            R == MergedSub(Sub(h, h[o].result), Sub(h, h[from].result))
<1>1. OTServerResponseWrapper_MergeFrom(h, o, from)
        = [result EXCEPT ![o].unknown = result[o].unknown \o h[from].unknown]
  <2>1. OTServerResponseWrapper_MergeFrom(h, o, from)
          = [result EXCEPT ![o].unknown = @ \o h[from].unknown]
    BY DEF OTServerResponseWrapper_MergeFrom, SetError, SetResult
  <2>. HIDE DEF result
  <2>. QED
    BY <2>1
<1>2. /\ h[from].error # nullptr => h[h[from].error] \in ErrorType(F2)
      /\ h[from].result # nullptr => h[h[from].result] \in ServerResponseType(F2, F1)
  BY ServerRoot
<1>3. /\ HeapOK(SWrapper, error, hd)
      /\ ServerNow(h, hd, error, o, E, Sub(h, h[o].result), h[o].unknown)
  <2>1. CASE h[from].error = nullptr
    <3>1. E = Sub(h, h[o].error) /\ error = h
      BY <2>1, MergedSubs DEF Sub
    <3>. QED
      BY <3>1, KeepsSame DEF ServerNow, ServerIs
  <2>2. CASE h[from].error # nullptr
    <3>1. /\ Sub(h, h[from].error) = h[h[from].error]
          /\ error = SetError(withError, o, e)
      BY <2>2 DEF Sub
    <3>. QED
      BY <1>2, <2>2, <3>1, ServerSubMerged
  <2>. QED
    BY <2>1, <2>2
<1>. HIDE DEF error, E
<1>4. /\ HeapOK(SWrapper, result, hd)
      /\ ServerNow(h, hd, result, o, E, R, h[o].unknown)
  <2>1. CASE h[from].result = nullptr
    <3>1. R = Sub(h, h[o].result) /\ result = error
      BY <2>1, MergedSubs DEF Sub
    <3>. QED
      BY <1>3, <3>1
  <2>2. CASE h[from].result # nullptr
    <3>1. /\ Sub(h, h[from].result) = h[h[from].result]
          /\ result = SetResult(withResult, o, r)
      BY <2>2 DEF Sub
    <3>2. /\ Sub(error, error[o].error) = E /\ Sub(error, error[o].result) = Sub(h, h[o].result)
          /\ error[o].unknown = h[o].unknown
      BY <1>3 DEF ServerNow, ServerIs
    <3>3. /\ HeapOK(SWrapper, result, hd)
          /\ ServerNow(error, hd, result, o, Sub(error, error[o].error),
               MergedSub(Sub(error, error[o].result), h[h[from].result]), error[o].unknown)
      BY <1>2, <1>3, <2>2, <3>1, ServerSubMerged
    <3>. HIDE DEF result
    <3>4. ServerNow(error, hd, result, o, E, R, h[o].unknown)
      BY <3>1, <3>2, <3>3
    <3>5. Keeps(SWrapper, h, hd, error, o)
      BY <1>3 DEF ServerNow
    <3>. QED
      BY <3>3, <3>4, <3>5, ServerThen
  <2>. QED
    BY <2>1, <2>2
<1>. HIDE DEF result, R
<1>5. /\ Sub(result, result[o].error) = E /\ Sub(result, result[o].result) = R
      /\ result[o].unknown = h[o].unknown /\ Keeps(SWrapper, h, hd, result, o)
  BY <1>4 DEF ServerNow, ServerIs
<1>6. ServerNow(result, hd, [result EXCEPT ![o].unknown = result[o].unknown \o h[from].unknown], o,
                Sub(result, result[o].error), Sub(result, result[o].result),
                result[o].unknown \o h[from].unknown)
  BY <1>4, ServerUnknown
<1>7. ServerNow(result, hd, OTServerResponseWrapper_MergeFrom(h, o, from), o, E, R,
                h[o].unknown \o h[from].unknown)
  BY <1>1, <1>5, <1>6
<1>8. ServerNow(h, hd, OTServerResponseWrapper_MergeFrom(h, o, from), o, E, R,
                h[o].unknown \o h[from].unknown)
  BY <1>5, <1>7, ServerThen
<1>. QED
  BY <1>8 DEF E, R

\* What another root's submessages are after o was changed.
LEMMA ServerOthers ==
  ASSUME NEW h, NEW hd, HeapOK(SWrapper, h, hd), NEW o \in Roots, NEW g,
         Keeps(SWrapper, h, hd, g, o), NEW p \in Roots \ {o}
  PROVE  /\ g[p] = h[p]
         /\ Sub(g, g[p].error) = Sub(h, h[p].error)
         /\ Sub(g, g[p].result) = Sub(h, h[p].result)
BY WrapperClasses DEF Keeps, Sub

\* CopyFrom makes o what the other is, in submessages of its own.
LEMMA ServerCopies ==
  ASSUME NEW h, NEW hd, HeapOK(SWrapper, h, hd), NEW o \in Roots, NEW from \in Roots \ {o}
  PROVE  ServerNow(h, hd, OTServerResponseWrapper_CopyFrom(h, o, from), o,
                   Sub(h, h[from].error), Sub(h, h[from].result), h[from].unknown)
<1>. DEFINE g == OTServerResponseWrapper_Clear(h, o)
            k == OTServerResponseWrapper_MergeFrom(g, o, from)
<1>1. HeapOK(SWrapper, g, hd) /\ ServerNow(h, hd, g, o, P!None, P!None, <<>>)
  BY ServerCleared, ServerClears
<1>. HIDE DEF g
<1>2. /\ g[from] = h[from] /\ Keeps(SWrapper, h, hd, g, o)
      /\ Sub(g, g[from].error) = Sub(h, h[from].error)
      /\ Sub(g, g[from].result) = Sub(h, h[from].result)
      /\ Sub(g, g[o].error) = P!None /\ Sub(g, g[o].result) = P!None /\ g[o].unknown = <<>>
  BY <1>1, ServerOthers DEF ServerNow, ServerIs
<1>3. ServerNow(g, hd, k, o, MergedSub(Sub(g, g[o].error), Sub(g, g[from].error)),
                MergedSub(Sub(g, g[o].result), Sub(g, g[from].result)),
                g[o].unknown \o g[from].unknown)
  BY <1>1, ServerMerges
<1>4. h[from].unknown \in Seq(F3)
  BY ServerRoot, ServerWrapperMembers
<1>5. <<>> \o h[from].unknown = h[from].unknown
  BY <1>4
<1>. HIDE DEF k
<1>6. ServerNow(g, hd, k, o, Sub(h, h[from].error), Sub(h, h[from].result), h[from].unknown)
  BY <1>2, <1>3, <1>5, MergedSubs
<1>7. ServerNow(h, hd, k, o, Sub(h, h[from].error), Sub(h, h[from].result), h[from].unknown)
  BY <1>2, <1>6, ServerThen
<1>. QED
  BY <1>7 DEF OTServerResponseWrapper_CopyFrom, g, k

\* So does the copy constructor.
LEMMA ServerConstructs ==
  ASSUME NEW h, NEW hd, HeapOK(SWrapper, h, hd), NEW o \in Roots, NEW from \in Roots \ {o},
         h[o].error = nullptr, h[o].result = nullptr
  PROVE  ServerNow(h, hd, OTServerResponseWrapper_Construct(h, o, from), o,
                   Sub(h, h[from].error), Sub(h, h[from].result), h[from].unknown)
<1>. DEFINE u == h[from].unknown
            m == [OTServerResponseWrapper_New EXCEPT !.unknown = u]
            fresh == [h EXCEPT ![o] = m]
            error == Error_Construct(h[h[from].error])
            result == OTServerResponse_Construct(h[h[from].result])
            copied == IF h[from].error = nullptr THEN fresh ELSE WithError(fresh, o, error)
            g == IF h[from].result = nullptr THEN copied ELSE WithResult(copied, o, result)
            E == Sub(h, h[from].error)
            R == Sub(h, h[from].result)
<1>1. OTServerResponseWrapper_Construct(h, o, from) = g
  BY Zenon DEF OTServerResponseWrapper_Construct, WithError, WithResult
<1>2. /\ m \in ServerWrapperType /\ m.error = nullptr /\ m.result = nullptr /\ m.unknown = u
  <2>1. u \in Seq(F3)
    BY ServerRoot, ServerWrapperMembers
  <2>. QED
    BY <2>1, NullIsNoAddress DEF OTServerResponseWrapper_New, ServerWrapperType
<1>3. /\ h[from].error # nullptr => error \in ErrorType(F2) /\ error = E
      /\ h[from].result # nullptr => result \in ServerResponseType(F2, F1) /\ result = R
  <2>1. /\ h[from].error # nullptr => h[h[from].error] \in ErrorType(F2)
        /\ h[from].result # nullptr => h[h[from].result] \in ServerResponseType(F2, F1)
    BY ServerRoot
  <2>. QED
    BY <2>1, SubsMerge DEF Sub
<1>4. h \in Heaps(SWrapper) /\ DOMAIN h = Roots \cup Addr
  BY ServerRoot
<1>. HIDE DEF m, error, result, u
<1>5. fresh[o] = m /\ \A a \in (Roots \cup Addr) \ {o} : fresh[a] = h[a]
  BY <1>4
<1>6. HeapOK(SWrapper, fresh, hd)
  <2>1. \A x \in Held(SWrapper) : m[x] = h[o][x]
    BY <1>2, WrapperClasses
  <2>. QED
    BY <1>2, <2>1, RootChanged, WrapperClasses
<1>. HIDE DEF fresh
<1>7. Keeps(SWrapper, h, hd, fresh, o)
  BY <1>5, NullIsNoAddress, ServerKeeps
<1>8. ServerIs(fresh, o, P!None, P!None, u)
  BY <1>2, <1>5 DEF ServerIs, Sub
<1>9. HeapOK(SWrapper, copied, hd) /\ copied[o].result = nullptr
        /\ ServerNow(h, hd, copied, o, E, P!None, u)
  <2>1. CASE h[from].error = nullptr
    <3>1. E = P!None /\ copied = fresh
      BY <2>1 DEF Sub
    <3>. QED
      BY <1>2, <1>5, <1>6, <1>7, <1>8, <3>1 DEF ServerNow
  <2>2. CASE h[from].error # nullptr
    <3>1. fresh[o].error = nullptr /\ fresh[o].result = nullptr
      BY <1>2, <1>5
    <3>2. copied = WithError(fresh, o, error)
      BY <2>2
    <3>. HIDE DEF copied
    <3>3. HeapOK(SWrapper, copied, hd) /\ copied[o].result = nullptr
      BY <1>3, <1>6, <2>2, <3>1, <3>2, ServerNewError
    <3>4. ServerNow(fresh, hd, copied, o, error, Sub(fresh, fresh[o].result), fresh[o].unknown)
      BY <1>6, <3>1, <3>2, ServerSubs
    <3>5. ServerNow(fresh, hd, copied, o, E, P!None, u)
      BY <1>3, <1>8, <2>2, <3>4 DEF ServerIs
    <3>. QED
      BY <1>7, <3>3, <3>5, ServerThen
  <2>. QED
    BY <2>1, <2>2
<1>. HIDE DEF copied
<1>10. ServerNow(h, hd, g, o, E, R, u)
  <2>1. CASE h[from].result = nullptr
    <3>1. R = P!None /\ g = copied
      BY <2>1 DEF Sub
    <3>. QED
      BY <1>9, <3>1
  <2>2. CASE h[from].result # nullptr
    <3>1. g = WithResult(copied, o, result)
      BY <2>2
    <3>. HIDE DEF g
    <3>2. ServerNow(copied, hd, g, o, Sub(copied, copied[o].error), result, copied[o].unknown)
      BY <1>9, <3>1, ServerSubs
    <3>3. Sub(copied, copied[o].error) = E /\ copied[o].unknown = u /\ Keeps(SWrapper, h, hd, copied, o)
      BY <1>9 DEF ServerNow, ServerIs
    <3>4. ServerNow(copied, hd, g, o, E, R, u)
      BY <1>3, <2>2, <3>2, <3>3
    <3>. QED
      BY <3>3, <3>4, ServerThen
  <2>. QED
    BY <2>1, <2>2
<1>. QED
  BY <1>1, <1>10 DEF u

\* Swap gives all that the other held.
LEMMA ServerSwapped ==
  ASSUME NEW m \in ServerWrapperType, NEW n \in ServerWrapperType
  PROVE  OTServerResponseWrapper_Swap(m, n) = n
<1>. DEFINE s == OTServerResponseWrapper_Swap(m, n)
            D == {"class", "error", "result", "unknown"}
<1>1. /\ s = [x \in D |-> s[x]] /\ n = [x \in D |-> n[x]]
      /\ s["class"] = n["class"] /\ s["error"] = n["error"] /\ s["result"] = n["result"]
      /\ s["unknown"] = n["unknown"]
  BY DEF OTServerResponseWrapper_Swap, ServerWrapperType
<1>. HIDE DEF s
<1>2. \A x \in D : s[x] = n[x]
  BY <1>1
<1>. HIDE DEF D
<1>3. s = n
  BY <1>1, <1>2
<1>. QED
  BY <1>3 DEF s

-----------------------------------------------------------------------------
(* OTClientResponseWrapper, in values. *)

\* What an operation on a wrapper may change.
LEMMA ClientKeeps ==
  ASSUME NEW h, NEW hd, HeapOK(CWrapper, h, hd), NEW o \in Roots, NEW g,
         \A p \in Roots \ {o} : g[p] = h[p],
         \A a \in Addr : g[a] # h[a] => h[a] = Free \/ a = h[o].error
  PROVE  Keeps(CWrapper, h, hd, g, o)
<1>1. \A a \in Addr : g[a] # h[a] => h[a] = Free \/ \E x \in Held(CWrapper) : h[o][x] = a
  BY WrapperClasses
<1>. QED
  BY <1>1, KeepsOthers

\* What the wrapper at o is now, and that the rest of the heap was kept.
ClientNow(h, hd, g, o, e, s, u) == Keeps(CWrapper, h, hd, g, o) /\ ClientIs(g, o, e, s, u)

\* What an operation on o does in two steps.
LEMMA ClientThen ==
  ASSUME NEW h, NEW hd, NEW g, NEW k, NEW o, NEW e, NEW s, NEW u,
         Keeps(CWrapper, h, hd, g, o), ClientNow(g, hd, k, o, e, s, u)
  PROVE  ClientNow(h, hd, k, o, e, s, u)
BY KeepsOn DEF ClientNow

\* clear_, Clear and the destructor leave no submessage behind.
LEMMA ClientClears ==
  ASSUME NEW h, NEW hd, HeapOK(CWrapper, h, hd), NEW o \in Roots
  PROVE  /\ ClientNow(h, hd, OTClientResponseWrapper_clear_error(h, o), o,
                      P!None, h[o].result, h[o].unknown)
         /\ ClientNow(h, hd, OTClientResponseWrapper_Clear(h, o), o, P!None, <<>>, <<>>)
         /\ ClientNow(h, hd, [OTClientResponseWrapper_SharedDtor(h, o) EXCEPT ![o] = New(CWrapper)], o,
                      P!None, <<>>, <<>>)
<1>. DEFINE d == Delete(h, h[o].error)
            m == [h[o] EXCEPT !.error = nullptr]
            n == [h[o] EXCEPT !.result = <<>>, !.error = nullptr, !.unknown = <<>>]
            withoutError == [d EXCEPT ![o].error = nullptr]
            cleared == [d EXCEPT ![o].result = <<>>, ![o].error = nullptr, ![o].unknown = <<>>]
            renewed == [d EXCEPT ![o] = New(CWrapper)]
<1>1. /\ h \in Heaps(CWrapper) /\ h[o] \in ClientWrapperType
      /\ h[o].error \in Addr \cup {nullptr}
  BY ClientRoot
<1>2. /\ d \in Heaps(CWrapper) /\ \A p \in Roots : d[p] = h[p]
      /\ \A a \in Addr : a # h[o].error => d[a] = h[a]
  BY <1>1, Deleted
<1>3. /\ OTClientResponseWrapper_clear_error(h, o) = withoutError
      /\ OTClientResponseWrapper_Clear(h, o) = cleared
      /\ OTClientResponseWrapper_SharedDtor(h, o) = d
  BY DEF OTClientResponseWrapper_clear_error, OTClientResponseWrapper_Clear,
         OTClientResponseWrapper_SharedDtor
<1>. HIDE DEF d
<1>4. DOMAIN d = Roots \cup Addr /\ d[o] = h[o]
  BY <1>2, HeapDomain
<1>5. withoutError = [d EXCEPT ![o] = m] /\ cleared = [d EXCEPT ![o] = n]
  BY <1>4
<1>6. /\ m.error = nullptr /\ m.result = h[o].result /\ m.unknown = h[o].unknown
      /\ n.error = nullptr /\ n.result = <<>> /\ n.unknown = <<>>
  BY <1>1 DEF ClientWrapperType
<1>7. New(CWrapper).error = nullptr /\ New(CWrapper).result = <<>> /\ New(CWrapper).unknown = <<>>
  BY DEF New, CWrapper, OTClientResponseWrapper_New
<1>. HIDE DEF m, n
<1>8. \A v : LET g == [d EXCEPT ![o] = v] IN
        /\ Keeps(CWrapper, h, hd, g, o) /\ g[o] = v
        /\ v.error = nullptr => ClientNow(h, hd, g, o, P!None, v.result, v.unknown)
  <2>. TAKE v
  <2>. DEFINE g == [d EXCEPT ![o] = v]
  <2>1. g[o] = v /\ \A a \in (Roots \cup Addr) \ {o} : g[a] = d[a]
    BY <1>4
  <2>. HIDE DEF g
  <2>2. Keeps(CWrapper, h, hd, g, o)
    BY <1>2, <2>1, NullIsNoAddress, ClientKeeps
  <2>3. v.error = nullptr => ClientIs(g, o, P!None, v.result, v.unknown)
    BY <2>1 DEF ClientIs, Sub
  <2>. QED
    BY <2>1, <2>2, <2>3 DEF ClientNow, g
<1>9. ClientNow(h, hd, [d EXCEPT ![o] = m], o, P!None, h[o].result, h[o].unknown)
  BY <1>6, <1>8
<1>10. ClientNow(h, hd, [d EXCEPT ![o] = n], o, P!None, <<>>, <<>>)
  BY <1>6, <1>8
<1>11. ClientNow(h, hd, renewed, o, P!None, <<>>, <<>>)
  BY <1>7, <1>8
<1>. HIDE DEF withoutError, cleared
<1>. QED
  BY <1>3, <1>5, <1>9, <1>10, <1>11

\* A change of the root that leaves its pointer alone.
LEMMA ClientSets ==
  ASSUME NEW h, NEW hd, HeapOK(CWrapper, h, hd), NEW o \in Roots, NEW m, m.error = h[o].error
  PROVE  ClientNow(h, hd, [h EXCEPT ![o] = m], o, Sub(h, h[o].error), m.result, m.unknown)
<1>. DEFINE g == [h EXCEPT ![o] = m]
<1>1. DOMAIN h = Roots \cup Addr /\ h[o].error \in Addr \cup {nullptr}
  BY ClientRoot
<1>2. g[o] = m /\ \A a \in (Roots \cup Addr) \ {o} : g[a] = h[a]
  BY <1>1
<1>. HIDE DEF g
<1>3. Keeps(CWrapper, h, hd, g, o)
  BY <1>2, NullIsNoAddress, ClientKeeps
<1>4. ClientIs(g, o, Sub(h, h[o].error), m.result, m.unknown)
  BY <1>1, <1>2, NullIsNoAddress DEF ClientIs, Sub
<1>. QED
  BY <1>3, <1>4 DEF ClientNow, g

\* release_ nulls the pointer and leaves the submessage to the caller.
LEMMA ClientReleases ==
  ASSUME NEW h, NEW hd, HeapOK(CWrapper, h, hd), NEW o \in Roots
  PROVE  LET e == OTClientResponseWrapper_release_error(h, o)
         IN /\ ClientNow(h, hd, e, o, P!None, h[o].result, h[o].unknown)
            /\ \A a \in Addr : e[a] = h[a]
<1>. DEFINE m == [h[o] EXCEPT !.error = nullptr]
            e == [h EXCEPT ![o] = m]
<1>1. h[o] \in ClientWrapperType /\ DOMAIN h = Roots \cup Addr
  BY ClientRoot
<1>2. OTClientResponseWrapper_release_error(h, o) = e
  BY <1>1 DEF OTClientResponseWrapper_release_error
<1>3. m.error = nullptr /\ m.result = h[o].result /\ m.unknown = h[o].unknown
  BY <1>1 DEF ClientWrapperType
<1>. HIDE DEF m
<1>4. e[o] = m /\ \A a \in (Roots \cup Addr) \ {o} : e[a] = h[a]
  BY <1>1
<1>. HIDE DEF e
<1>5. Keeps(CWrapper, h, hd, e, o)
  BY <1>4, NullIsNoAddress, ClientKeeps
<1>6. ClientIs(e, o, P!None, h[o].result, h[o].unknown)
  BY <1>3, <1>4 DEF ClientIs, Sub
<1>. QED
  BY <1>2, <1>4, <1>5, <1>6, NullIsNoAddress DEF ClientNow

\* What is attached is the caller's until then.
LEMMA ClientAttaches ==
  ASSUME NEW h, NEW hd, HeapOK(CWrapper, h, hd), hd # nullptr, NEW o \in Roots
  PROVE  ClientNow(h, hd, OTClientResponseWrapper_set_allocated_error(h, o, hd), o,
                   h[hd], h[o].result, h[o].unknown)
<1>. DEFINE d == Delete(h, h[o].error)
            m == [h[o] EXCEPT !.error = hd]
            g == [d EXCEPT ![o] = m]
<1>1. /\ h \in Heaps(CWrapper) /\ h[o] \in ClientWrapperType
      /\ h[o].error \in Addr \cup {nullptr}
  BY ClientRoot
<1>2. /\ d \in Heaps(CWrapper) /\ \A p \in Roots : d[p] = h[p]
      /\ \A a \in Addr : a # h[o].error => d[a] = h[a]
  BY <1>1, Deleted
<1>3. hd \in Addr /\ h[o].error # hd
  BY WrapperClasses DEF HeapOK, HandOK
<1>4. OTClientResponseWrapper_set_allocated_error(h, o, hd) = [d EXCEPT ![o].error = hd]
  BY DEF OTClientResponseWrapper_set_allocated_error
<1>. HIDE DEF d
<1>5. DOMAIN d = Roots \cup Addr /\ d[o] = h[o]
  BY <1>2, HeapDomain
<1>6. [d EXCEPT ![o].error = hd] = g
  BY <1>5
<1>7. m.error = hd /\ m.result = h[o].result /\ m.unknown = h[o].unknown
  BY <1>1 DEF ClientWrapperType
<1>. HIDE DEF m
<1>8. g[o] = m /\ \A a \in (Roots \cup Addr) \ {o} : g[a] = d[a]
  BY <1>5
<1>. HIDE DEF g
<1>9. Keeps(CWrapper, h, hd, g, o)
  BY <1>2, <1>8, NullIsNoAddress, ClientKeeps
<1>10. ClientIs(g, o, h[hd], h[o].result, h[o].unknown)
  BY <1>2, <1>3, <1>7, <1>8, NullIsNoAddress DEF ClientIs, Sub
<1>. QED
  BY <1>4, <1>6, <1>9, <1>10 DEF ClientNow

\* A submessage, new or changed.
LEMMA ClientSubs ==
  ASSUME NEW h, NEW hd, HeapOK(CWrapper, h, hd), NEW o \in Roots, NEW v
  PROVE  /\ h[o].error = nullptr =>
              ClientNow(h, hd, WithError(h, o, v), o, v, h[o].result, h[o].unknown)
         /\ h[o].error # nullptr =>
              ClientNow(h, hd, SetError(h, o, v), o, v, h[o].result, h[o].unknown)
<1>1. /\ DOMAIN h = Roots \cup Addr /\ h[o] \in ClientWrapperType
      /\ h[o].error \in Addr \cup {nullptr}
  BY ClientRoot
<1>2. ASSUME h[o].error = nullptr
      PROVE  ClientNow(h, hd, WithError(h, o, v), o, v, h[o].result, h[o].unknown)
  <2>. DEFINE p == Unused(h)
              m == [h[o] EXCEPT !.error = p]
              g == [h EXCEPT ![p] = v, ![o].error = p]
  <2>1. p \in Addr /\ h[p] = Free /\ p # o
    BY <1>2, EnoughMemory, UnusedIsFree, WrapperClasses, NullIsNoAddress
  <2>. HIDE DEF p
  <2>2. m.error = p /\ m.result = h[o].result /\ m.unknown = h[o].unknown
    BY <1>1 DEF ClientWrapperType
  <2>3. g[p] = v /\ g[o] = m /\ \A a \in (Roots \cup Addr) \ {o, p} : g[a] = h[a]
    BY <1>1, <2>1
  <2>. HIDE DEF m, g
  <2>4. Keeps(CWrapper, h, hd, g, o)
    BY <2>1, <2>3, NullIsNoAddress, ClientKeeps
  <2>5. ClientIs(g, o, v, h[o].result, h[o].unknown)
    BY <2>1, <2>2, <2>3, NullIsNoAddress DEF ClientIs, Sub
  <2>. QED
    BY <2>4, <2>5 DEF ClientNow, WithError, g, p
<1>3. ASSUME h[o].error # nullptr
      PROVE  ClientNow(h, hd, SetError(h, o, v), o, v, h[o].result, h[o].unknown)
  <2>. DEFINE p == h[o].error
              g == [h EXCEPT ![p] = v]
  <2>1. p \in Addr /\ p # nullptr /\ p # o
    BY <1>1, <1>3, NullIsNoAddress
  <2>2. g[p] = v /\ \A a \in (Roots \cup Addr) \ {p} : g[a] = h[a]
    BY <1>1, <2>1
  <2>. HIDE DEF g
  <2>3. Keeps(CWrapper, h, hd, g, o)
    BY <2>1, <2>2, NullIsNoAddress, ClientKeeps
  <2>4. ClientIs(g, o, v, h[o].result, h[o].unknown)
    BY <2>1, <2>2 DEF ClientIs, Sub
  <2>. QED
    BY <2>3, <2>4 DEF ClientNow, SetError, g, p
<1>. QED
  BY <1>2, <1>3

\* mutable_ and a change of the submessage.
LEMMA ClientMutated ==
  ASSUME NEW h, NEW hd, HeapOK(CWrapper, h, hd), NEW o \in Roots, NEW v
  PROVE  LET e == OTClientResponseWrapper_mutable_error(h, o)
         IN /\ ClientNow(h, hd, SetError(e, o, v), o, v, h[o].result, h[o].unknown)
            /\ e[e[o].error] = IF h[o].error = nullptr THEN Error_New ELSE h[h[o].error]
<1>. DEFINE e == OTClientResponseWrapper_mutable_error(h, o)
<1>1. HeapOK(CWrapper, e, hd) /\ e[o].error # nullptr
  BY ClientMutable
<1>2. /\ h[o].error # nullptr => e = h
      /\ h[o].error = nullptr => e = WithError(h, o, Error_New)
  BY DEF OTClientResponseWrapper_mutable_error, WithError
<1>. HIDE DEF e
<1>3. /\ Keeps(CWrapper, h, hd, e, o)
      /\ e[o].result = h[o].result /\ e[o].unknown = h[o].unknown
      /\ e[e[o].error] = IF h[o].error = nullptr THEN Error_New ELSE h[h[o].error]
  <2>1. CASE h[o].error # nullptr
    BY <1>2, <2>1, KeepsSame
  <2>2. CASE h[o].error = nullptr
    <3>1. ClientNow(h, hd, e, o, Error_New, h[o].result, h[o].unknown)
      BY <1>2, <2>2, ClientSubs
    <3>. QED
      BY <1>1, <2>2, <3>1 DEF ClientNow, ClientIs, Sub
  <2>. QED
    BY <2>1, <2>2
<1>4. ClientNow(e, hd, SetError(e, o, v), o, v, h[o].result, h[o].unknown)
  BY <1>1, <1>3, ClientSubs
<1>5. ClientNow(h, hd, SetError(e, o, v), o, v, h[o].result, h[o].unknown)
  BY <1>3, <1>4, ClientThen
<1>. QED
  BY <1>3, <1>5 DEF e

\* Merging two wrapper values merges the error and appends the results.
LEMMA ClientValuesMerged ==
  ASSUME NEW e, NEW s, NEW u, NEW e2, NEW s2, NEW u2
  PROVE  Abstract!Merged(ClientValue(e, s, u), ClientValue(e2, s2, u2))
           = ClientValue(MergedSub(e, e2), s \o s2, u \o u2)
<1>. DEFINE a == ClientValue(e, s, u)
            b == ClientValue(e2, s2, u2)
            g == Abstract!Merged(a, b)
            t == ClientValue(MergedSub(e, e2), s \o s2, u \o u2)
            D == {"class", "error", "result", "unknown"}
            F(x) == Abstract!FieldOf(CWrapper, x)
<1>1. /\ a = [x \in D |-> a[x]] /\ b = [x \in D |-> b[x]] /\ t = [x \in D |-> t[x]]
      /\ a.class = CWrapper /\ a.error = e /\ a.result = s /\ a.unknown = u
      /\ b.error = e2 /\ b.result = s2 /\ b.unknown = u2
      /\ t.class = CWrapper /\ t.unknown = u \o u2
      /\ t.error = MergedSub(e, e2) /\ t.result = s \o s2
  BY DEF ClientValue
<1>2. /\ F("error").label = "one" /\ F("error").type = "Error"
      /\ F("result").label = "repeated"
  BY ClientWrapperSchema DEF CWrapper
<1>. HIDE DEF a, b, t, F
<1>3. /\ Abstract!IsOptional(F("error")) /\ Abstract!DefaultOf(F("error")) = P!None
      /\ \A v, w : Abstract!Over(F("error"), v, w) = IF w = P!None THEN v ELSE w
  <2>1. Abstract!IsOptional(F("error")) /\ Abstract!DefaultOf(F("error")) = P!None
    BY <1>2, DefaultIs
  <2>. QED
    BY <1>2, <2>1 DEF Abstract!Over
<1>4. /\ ~Abstract!IsOptional(F("result"))
      /\ \A v, w : Abstract!Over(F("result"), v, w) = v \o w
  BY <1>2, OverIs, RepeatedOver
<1>5. /\ g = [x \in D |-> g[x]] /\ g["class"] = a.class /\ g["unknown"] = a.unknown \o b.unknown
      /\ g["error"] = IF Abstract!IsOptional(F("error")) /\ a.error # P!None /\ b.error # P!None
                      THEN Abstract!MergedBy(Abstract!Over, a.error, b.error)
                      ELSE Abstract!Over(F("error"), a.error, b.error)
      /\ g["result"] = IF Abstract!IsOptional(F("result")) /\ a.result # P!None /\ b.result # P!None
                       THEN Abstract!MergedBy(Abstract!Over, a.result, b.result)
                       ELSE Abstract!Over(F("result"), a.result, b.result)
  <2>1. DOMAIN a = D
    BY <1>1
  <2>. HIDE DEF D
  <2>2. Abstract!None = P!None
    BY SameSchema
  <2>3. g = [x \in D |-> g[x]] /\ {"class", "unknown", "error", "result"} = D
    BY <2>1 DEF Abstract!Merged, Abstract!MergedBy, D
  <2>4. g["class"] = a.class /\ g["unknown"] = a.unknown \o b.unknown
    BY <2>1, <2>3 DEF Abstract!Merged, Abstract!MergedBy
  <2>5. g["error"] = IF Abstract!IsOptional(F("error")) /\ a.error # P!None /\ b.error # P!None
                      THEN Abstract!MergedBy(Abstract!Over, a.error, b.error)
                      ELSE Abstract!Over(F("error"), a.error, b.error)
    BY <1>1, <2>1, <2>2, <2>3 DEF Abstract!Merged, Abstract!MergedBy, F
  <2>6. g["result"] = IF Abstract!IsOptional(F("result")) /\ a.result # P!None /\ b.result # P!None
                       THEN Abstract!MergedBy(Abstract!Over, a.result, b.result)
                       ELSE Abstract!Over(F("result"), a.result, b.result)
    BY <1>1, <2>1, <2>2, <2>3 DEF Abstract!Merged, Abstract!MergedBy, F
  <2>. QED
    BY <2>3, <2>4, <2>5, <2>6
<1>. HIDE DEF g
<1>6. g["class"] = t["class"] /\ g["unknown"] = t["unknown"]
  BY <1>1, <1>5
<1>7. g["error"] = t["error"]
  <2>1. g["error"] = IF e # P!None /\ e2 # P!None
                     THEN Abstract!MergedBy(Abstract!Over, e, e2)
                     ELSE IF e2 = P!None THEN e ELSE e2
    BY <1>1, <1>3, <1>5
  <2>. QED
    BY <1>1, <2>1 DEF MergedSub
<1>8. g["result"] = t["result"]
  BY <1>1, <1>4, <1>5
<1>9. \A x \in D : g[x] = t[x]
  BY <1>6, <1>7, <1>8
<1>. HIDE DEF D
<1>10. g = t
  BY <1>1, <1>5, <1>9
<1>. QED
  BY <1>10 DEF g, t, a, b

\* MergeFrom merges the values, into itself too.
LEMMA ClientMerges ==
  ASSUME NEW h, NEW hd, HeapOK(CWrapper, h, hd), NEW o \in Roots, NEW from \in Roots
  PROVE  ClientNow(h, hd, OTClientResponseWrapper_MergeFrom(h, o, from), o,
                   MergedSub(Sub(h, h[o].error), Sub(h, h[from].error)),
                   h[o].result \o h[from].result, h[o].unknown \o h[from].unknown)
<1>. DEFINE withError == OTClientResponseWrapper_mutable_error(h, o)
            e == Error_MergeFrom(withError[withError[o].error], h[h[from].error])
            error == IF h[from].error = nullptr THEN h ELSE SetError(withError, o, e)
            E == MergedSub(Sub(h, h[o].error), Sub(h, h[from].error))
            m == [error[o] EXCEPT !.result = h[o].result \o h[from].result,
                                  !.unknown = h[o].unknown \o h[from].unknown]
            g == [error EXCEPT ![o] = m]
<1>1. OTClientResponseWrapper_MergeFrom(h, o, from)
        = [error EXCEPT ![o].result = @ \o h[from].result, ![o].unknown = @ \o h[from].unknown]
  BY DEF OTClientResponseWrapper_MergeFrom, SetError
<1>2. /\ HeapOK(CWrapper, error, hd)
      /\ ClientNow(h, hd, error, o, E, h[o].result, h[o].unknown)
  <2>1. CASE h[from].error = nullptr
    <3>1. E = Sub(h, h[o].error) /\ error = h
      BY <2>1, MergedSubs DEF Sub
    <3>. QED
      BY <3>1, KeepsSame DEF ClientNow, ClientIs
  <2>2. CASE h[from].error # nullptr
    <3>1. /\ Sub(h, h[from].error) = h[h[from].error] /\ h[h[from].error] \in ErrorType(F2)
          /\ error = SetError(withError, o, e)
      BY <2>2, ClientRoot DEF Sub
    <3>2. HeapOK(CWrapper, withError, hd) /\ withError[o].error # nullptr
      BY ClientMutable
    <3>3. /\ ClientNow(h, hd, SetError(withError, o, e), o, e, h[o].result, h[o].unknown)
          /\ withError[withError[o].error] = IF h[o].error = nullptr THEN Error_New ELSE h[h[o].error]
      BY ClientMutated
    <3>. HIDE DEF withError
    <3>4. /\ withError[withError[o].error] \in ErrorType(F2)
          /\ h[o].error # nullptr => h[h[o].error] \in ErrorType(F2)
      BY <3>2, ClientRoot
    <3>5. e = E
      <4>1. CASE h[o].error = nullptr
        BY <3>1, <3>3, <4>1, SubsMerge DEF MergedSub, Sub
      <4>2. CASE h[o].error # nullptr
        BY <3>1, <3>3, <3>4, <4>2, SubsMerge DEF MergedSub, Sub
      <4>. QED
        BY <4>1, <4>2
    <3>6. e \in ErrorType(F2)
      BY <3>1, <3>4, ErrorKept
    <3>. HIDE DEF e, E
    <3>7. HeapOK(CWrapper, SetError(withError, o, e), hd)
      BY <3>2, <3>6, SubsSet
    <3>. QED
      BY <3>1, <3>3, <3>5, <3>7
  <2>. QED
    BY <2>1, <2>2
<1>. HIDE DEF error, E
<1>3. /\ Sub(error, error[o].error) = E /\ error[o].result = h[o].result
      /\ error[o].unknown = h[o].unknown /\ Keeps(CWrapper, h, hd, error, o)
      /\ DOMAIN error = Roots \cup Addr /\ error[o] \in ClientWrapperType
  BY <1>2, ClientRoot DEF ClientNow, ClientIs
<1>4. OTClientResponseWrapper_MergeFrom(h, o, from) = g
  BY <1>1, <1>3
<1>5. /\ m.error = error[o].error /\ m.result = h[o].result \o h[from].result
      /\ m.unknown = h[o].unknown \o h[from].unknown
  BY <1>3 DEF ClientWrapperType
<1>. HIDE DEF m
<1>6. ClientNow(error, hd, g, o, Sub(error, error[o].error), m.result, m.unknown)
  BY <1>2, <1>5, ClientSets
<1>. HIDE DEF g
<1>7. ClientNow(error, hd, g, o, E, h[o].result \o h[from].result, h[o].unknown \o h[from].unknown)
  BY <1>3, <1>5, <1>6
<1>8. ClientNow(h, hd, g, o, E, h[o].result \o h[from].result, h[o].unknown \o h[from].unknown)
  BY <1>3, <1>7, ClientThen
<1>. QED
  BY <1>4, <1>8 DEF E

\* What another root's submessage is after o was changed.
LEMMA ClientOthers ==
  ASSUME NEW h, NEW hd, HeapOK(CWrapper, h, hd), NEW o \in Roots, NEW g,
         Keeps(CWrapper, h, hd, g, o), NEW p \in Roots \ {o}
  PROVE  g[p] = h[p] /\ Sub(g, g[p].error) = Sub(h, h[p].error)
BY WrapperClasses DEF Keeps, Sub

\* CopyFrom makes o what the other is, in a submessage of its own.
LEMMA ClientCopies ==
  ASSUME NEW h, NEW hd, HeapOK(CWrapper, h, hd), NEW o \in Roots, NEW from \in Roots \ {o}
  PROVE  ClientNow(h, hd, OTClientResponseWrapper_CopyFrom(h, o, from), o,
                   Sub(h, h[from].error), h[from].result, h[from].unknown)
<1>. DEFINE g == OTClientResponseWrapper_Clear(h, o)
            k == OTClientResponseWrapper_MergeFrom(g, o, from)
<1>1. HeapOK(CWrapper, g, hd) /\ ClientNow(h, hd, g, o, P!None, <<>>, <<>>)
  BY ClientCleared, ClientClears
<1>. HIDE DEF g
<1>2. /\ g[from] = h[from] /\ Keeps(CWrapper, h, hd, g, o)
      /\ Sub(g, g[from].error) = Sub(h, h[from].error)
      /\ Sub(g, g[o].error) = P!None /\ g[o].result = <<>> /\ g[o].unknown = <<>>
  BY <1>1, ClientOthers DEF ClientNow, ClientIs
<1>3. ClientNow(g, hd, k, o, MergedSub(Sub(g, g[o].error), Sub(g, g[from].error)),
                g[o].result \o g[from].result, g[o].unknown \o g[from].unknown)
  BY <1>1, ClientMerges
<1>4. /\ h[from].unknown \in Seq(Written(CWrapper))
      /\ h[from].result \in Seq(ClientResponseType(MapFields(26, F2)))
  BY ClientRoot, ClientWrapperMembers DEF CWrapper
<1>5. <<>> \o h[from].unknown = h[from].unknown /\ <<>> \o h[from].result = h[from].result
  BY <1>4
<1>. HIDE DEF k
<1>6. ClientNow(g, hd, k, o, Sub(h, h[from].error), h[from].result, h[from].unknown)
  BY <1>2, <1>3, <1>5, MergedSubs
<1>7. ClientNow(h, hd, k, o, Sub(h, h[from].error), h[from].result, h[from].unknown)
  BY <1>2, <1>6, ClientThen
<1>. QED
  BY <1>7 DEF OTClientResponseWrapper_CopyFrom, g, k

\* So does the copy constructor.
LEMMA ClientConstructs ==
  ASSUME NEW h, NEW hd, HeapOK(CWrapper, h, hd), NEW o \in Roots, NEW from \in Roots \ {o},
         h[o].error = nullptr
  PROVE  ClientNow(h, hd, OTClientResponseWrapper_Construct(h, o, from), o,
                   Sub(h, h[from].error), h[from].result, h[from].unknown)
<1>. DEFINE u == h[from].unknown
            s == h[from].result
            m == [OTClientResponseWrapper_New EXCEPT !.unknown = u, !.result = s]
            fresh == [h EXCEPT ![o] = m]
            error == Error_Construct(h[h[from].error])
            g == IF h[from].error = nullptr THEN fresh ELSE WithError(fresh, o, error)
            E == Sub(h, h[from].error)
<1>1. OTClientResponseWrapper_Construct(h, o, from) = g
  BY Zenon DEF OTClientResponseWrapper_Construct, WithError
<1>2. /\ m \in ClientWrapperType /\ m.error = nullptr /\ m.result = s /\ m.unknown = u
  <2>1. u \in Seq(Written("OTClientResponseWrapper")) /\ s \in Seq(ClientResponseType(MapFields(26, F2)))
    BY ClientRoot, ClientWrapperMembers
  <2>. QED
    BY <2>1, NullIsNoAddress DEF OTClientResponseWrapper_New, ClientWrapperType
<1>3. h[from].error # nullptr => error \in ErrorType(F2) /\ error = E
  <2>1. h[from].error # nullptr => h[h[from].error] \in ErrorType(F2)
    BY ClientRoot
  <2>. QED
    BY <2>1, SubsMerge DEF Sub
<1>4. DOMAIN h = Roots \cup Addr
  BY ClientRoot
<1>. HIDE DEF m, error, u, s
<1>5. fresh[o] = m
  BY <1>4
<1>6. HeapOK(CWrapper, fresh, hd)
  <2>1. \A x \in Held(CWrapper) : m[x] = h[o][x]
    BY <1>2, WrapperClasses
  <2>. QED
    BY <1>2, <2>1, RootChanged, WrapperClasses
<1>7. ClientNow(h, hd, fresh, o, P!None, s, u)
  <2>1. ClientNow(h, hd, fresh, o, Sub(h, h[o].error), m.result, m.unknown)
    BY <1>2, ClientSets
  <2>. HIDE DEF fresh
  <2>. QED
    BY <1>2, <2>1 DEF Sub
<1>. HIDE DEF fresh
<1>8. ClientNow(h, hd, g, o, E, s, u)
  <2>1. CASE h[from].error = nullptr
    <3>1. E = P!None /\ g = fresh
      BY <2>1 DEF Sub
    <3>. QED
      BY <1>7, <3>1
  <2>2. CASE h[from].error # nullptr
    <3>1. g = WithError(fresh, o, error)
      BY <2>2
    <3>. HIDE DEF g
    <3>2. ClientNow(fresh, hd, g, o, error, fresh[o].result, fresh[o].unknown)
      BY <1>2, <1>5, <1>6, <3>1, ClientSubs
    <3>3. ClientNow(fresh, hd, g, o, E, s, u)
      BY <1>2, <1>3, <1>5, <2>2, <3>2
    <3>4. Keeps(CWrapper, h, hd, fresh, o)
      BY <1>7 DEF ClientNow
    <3>. QED
      BY <3>3, <3>4, ClientThen
  <2>. QED
    BY <2>1, <2>2
<1>. QED
  BY <1>1, <1>8 DEF u, s

\* Swap gives all that the other held.
LEMMA ClientSwapped ==
  ASSUME NEW m \in ClientWrapperType, NEW n \in ClientWrapperType
  PROVE  OTClientResponseWrapper_Swap(m, n) = n
<1>. DEFINE s == OTClientResponseWrapper_Swap(m, n)
            D == {"class", "error", "result", "unknown"}
<1>1. /\ s = [x \in D |-> s[x]] /\ n = [x \in D |-> n[x]]
      /\ s["class"] = n["class"] /\ s["error"] = n["error"] /\ s["result"] = n["result"]
      /\ s["unknown"] = n["unknown"]
  BY DEF OTClientResponseWrapper_Swap, ClientWrapperType
<1>. HIDE DEF s
<1>2. \A x \in D : s[x] = n[x]
  BY <1>1
<1>. HIDE DEF D
<1>3. s = n
  BY <1>1, <1>2
<1>. QED
  BY <1>3 DEF s

-----------------------------------------------------------------------------
(* Any class: the operations, in values. *)

\* The message at o turns into the value v, and nothing else changes.
Turns(c, h, hd, g, o, v) == Keeps(c, h, hd, g, o) /\ Value(g, g[o]) = v

\* An operation on a class without pointers writes one cell.
LEMMA PlainTurns ==
  ASSUME NEW c \in PlainClasses, NEW h, NEW hd, HeapOK(c, h, hd), NEW o \in Roots, NEW g, NEW v,
         HeapOK(c, g, hd)
  PROVE  g = [h EXCEPT ![o] = v] => Turns(c, h, hd, g, o, v)
<1>0. Value(g, g[o]) = g[o]
  BY PlainValue
<1>. SUFFICES ASSUME g = [h EXCEPT ![o] = v] PROVE Turns(c, h, hd, g, o, v)
  OBVIOUS
<1>1. DOMAIN h = Roots \cup Addr /\ o \notin Addr
  BY RootsAssumption DEF HeapOK, Heaps
<1>2. g[o] = v /\ \A a \in (Roots \cup Addr) \ {o} : g[a] = h[a]
  BY <1>1
<1>3. Keeps(c, h, hd, g, o)
  <2>1. \A p \in Roots \ {o} : g[p] = h[p]
    BY <1>2
  <2>2. \A a \in Addr : g[a] = h[a]
    BY <1>1, <1>2
  <2>. QED
    BY <2>1, <2>2, KeepsOthers
<1>4. Value(g, g[o]) = v
  BY <1>0, <1>2, Zenon
<1>. QED
  BY <1>3, <1>4 DEF Turns

\* A wrapper that is now e, r and u has turned into their value.
LEMMA ServerTurns ==
  ASSUME NEW h, NEW hd, NEW g, NEW gd, HeapOK(SWrapper, g, gd), NEW o \in Roots,
         NEW e, NEW r, NEW u, ServerNow(h, hd, g, o, e, r, u)
  PROVE  Turns(SWrapper, h, hd, g, o, ServerValue(e, r, u))
BY ServerMeans DEF ServerNow, ServerIs, Turns

\* A wrapper that is now e, s and u has turned into their value.
LEMMA ClientTurns ==
  ASSUME NEW h, NEW hd, NEW g, NEW gd, HeapOK(CWrapper, g, gd), NEW o \in Roots,
         NEW e, NEW s, NEW u, ClientNow(h, hd, g, o, e, s, u)
  PROVE  Turns(CWrapper, h, hd, g, o, ClientValue(e, s, u))
BY ClientMeans DEF ClientNow, ClientIs, Turns

\* A new wrapper has no submessage.
LEMMA WrapperDefaults ==
  /\ Abstract!Default(SWrapper) = ServerValue(P!None, P!None, <<>>)
  /\ Abstract!Default(CWrapper) = ClientValue(P!None, <<>>, <<>>)
<1>. DEFINE D == {"class", "error", "result", "unknown"}
<1>1. Abstract!Default(SWrapper) = ServerValue(P!None, P!None, <<>>)
  <2>. DEFINE d == Abstract!Default(SWrapper)
              s == ServerValue(P!None, P!None, <<>>)
              F(x) == Abstract!FieldOf(SWrapper, x)
  <2>1. d = [x \in D |-> d[x]] /\ d["class"] = SWrapper /\ d["unknown"] = <<>>
        /\ \A x \in {"error", "result"} : d[x] = Abstract!DefaultOf(F(x))
    BY ServerWrapperSchema DEF Abstract!Default, SWrapper
  <2>2. Abstract!DefaultOf(F("error")) = P!None /\ Abstract!DefaultOf(F("result")) = P!None
    BY ServerWrapperSchema, DefaultIs DEF SWrapper
  <2>3. s = [x \in D |-> s[x]] /\ s["class"] = SWrapper /\ s["unknown"] = <<>>
        /\ s["error"] = P!None /\ s["result"] = P!None
    BY DEF ServerValue
  <2>. HIDE DEF d, s, F
  <2>4. \A x \in D : d[x] = s[x]
    BY <2>1, <2>2, <2>3
  <2>. HIDE DEF D
  <2>5. d = s
    BY <2>1, <2>3, <2>4
  <2>. QED
    BY <2>5 DEF d, s
<1>2. Abstract!Default(CWrapper) = ClientValue(P!None, <<>>, <<>>)
  <2>. DEFINE d == Abstract!Default(CWrapper)
              s == ClientValue(P!None, <<>>, <<>>)
              F(x) == Abstract!FieldOf(CWrapper, x)
  <2>1. d = [x \in D |-> d[x]] /\ d["class"] = CWrapper /\ d["unknown"] = <<>>
        /\ \A x \in {"error", "result"} : d[x] = Abstract!DefaultOf(F(x))
    BY ClientWrapperSchema DEF Abstract!Default, CWrapper
  <2>2. Abstract!DefaultOf(F("error")) = P!None /\ Abstract!DefaultOf(F("result")) = <<>>
    BY ClientWrapperSchema, DefaultIs DEF CWrapper
  <2>3. s = [x \in D |-> s[x]] /\ s["class"] = CWrapper /\ s["unknown"] = <<>>
        /\ s["error"] = P!None /\ s["result"] = <<>>
    BY DEF ClientValue
  <2>. HIDE DEF d, s, F
  <2>4. \A x \in D : d[x] = s[x]
    BY <2>1, <2>2, <2>3
  <2>. HIDE DEF D
  <2>5. d = s
    BY <2>1, <2>3, <2>4
  <2>. QED
    BY <2>5 DEF d, s
<1>. QED
  BY <1>1, <1>2

\* Clear makes any message the default,
LEMMA ClearTurns ==
  ASSUME NEW c \in P!Classes, NEW h, NEW hd, HeapOK(c, h, hd), NEW o \in Roots
  PROVE  Turns(c, h, hd, ClearAt(h, o), o, Abstract!Default(c))
<1>0. HeapOK(c, ClearAt(h, o), hd)
  BY ClearStays
<1>1. CASE c \in PlainClasses
  <2>1. ClearAt(h, o) = [h EXCEPT ![o] = Abstract!Default(c)]
    BY <1>1, PlainMeans DEF Means
  <2>. QED
    BY <1>0, <1>1, <2>1, PlainTurns
<1>2. CASE c = SWrapper
  <2>1. ClearAt(h, o) = OTServerResponseWrapper_Clear(h, o)
    BY <1>2, WrapperIs DEF ClearAt, SWrapper
  <2>. QED
    BY <1>0, <1>2, <2>1, ServerClears, ServerTurns, WrapperDefaults
<1>3. CASE c = CWrapper
  <2>1. ClearAt(h, o) = OTClientResponseWrapper_Clear(h, o)
    BY <1>3, WrapperIs DEF ClearAt, CWrapper
  <2>. QED
    BY <1>0, <1>3, <2>1, ClientClears, ClientTurns, WrapperDefaults
<1>. QED
  BY <1>1, <1>2, <1>3, ClassesKnown

\* and so do its destructor and constructor.
LEMMA RenewTurns ==
  ASSUME NEW c \in P!Classes, NEW h, NEW hd, HeapOK(c, h, hd), NEW o \in Roots
  PROVE  Turns(c, h, hd, [Destroy(h, o) EXCEPT ![o] = New(c)], o, Abstract!Default(c))
<1>. DEFINE g == [Destroy(h, o) EXCEPT ![o] = New(c)]
<1>0. HeapOK(c, g, hd)
  BY RenewStays
<1>1. CASE c \in PlainClasses
  <2>1. g = [h EXCEPT ![o] = Abstract!Default(c)]
    BY <1>1, PlainMeans DEF Means
  <2>. HIDE DEF g
  <2>2. Turns(c, h, hd, g, o, Abstract!Default(c))
    BY <1>0, <1>1, <2>1, PlainTurns
  <2>. QED
    BY <2>2 DEF g
<1>2. CASE c = SWrapper
  <2>1. g = [OTServerResponseWrapper_SharedDtor(h, o) EXCEPT ![o] = New(SWrapper)]
    BY <1>2, WrapperIs DEF Destroy, SWrapper
  <2>. HIDE DEF g
  <2>3. ServerNow(h, hd, [OTServerResponseWrapper_SharedDtor(h, o) EXCEPT ![o] = New(SWrapper)], o,
                  P!None, P!None, <<>>)
    BY <1>2, ServerClears
  <2>4. ServerNow(h, hd, g, o, P!None, P!None, <<>>)
    BY <2>1, <2>3, Zenon
  <2>2. Turns(c, h, hd, g, o, Abstract!Default(c))
    BY <1>0, <1>2, <2>4, ServerTurns, WrapperDefaults
  <2>. QED
    BY <2>2 DEF g
<1>3. CASE c = CWrapper
  <2>1. g = [OTClientResponseWrapper_SharedDtor(h, o) EXCEPT ![o] = New(CWrapper)]
    BY <1>3, WrapperIs DEF Destroy, CWrapper
  <2>. HIDE DEF g
  <2>3. ClientNow(h, hd, [OTClientResponseWrapper_SharedDtor(h, o) EXCEPT ![o] = New(CWrapper)], o,
                  P!None, <<>>, <<>>)
    BY <1>3, ClientClears
  <2>4. ClientNow(h, hd, g, o, P!None, <<>>, <<>>)
    BY <2>1, <2>3, Zenon
  <2>2. Turns(c, h, hd, g, o, Abstract!Default(c))
    BY <1>0, <1>3, <2>4, ClientTurns, WrapperDefaults
  <2>. QED
    BY <2>2 DEF g
<1>. QED
  BY <1>1, <1>2, <1>3, ClassesKnown

\* MergeFrom makes any message the merge of the two values.
LEMMA MergeTurns ==
  ASSUME NEW c \in P!Classes, NEW h, NEW hd, HeapOK(c, h, hd), NEW o \in Roots, NEW from \in Roots
  PROVE  Turns(c, h, hd, MergeAt(h, o, from), o,
               Abstract!Merged(Value(h, h[o]), Value(h, h[from])))
<1>0. HeapOK(c, MergeAt(h, o, from), hd)
  BY MergeStays
<1>1. CASE c \in PlainClasses
  <2>1. MergeAt(h, o, from) = [h EXCEPT ![o] = Abstract!Merged(h[o], h[from])]
    BY <1>1, PlainMeans DEF Means
  <2>2. Value(h, h[o]) = h[o] /\ Value(h, h[from]) = h[from]
    BY <1>1, PlainValue
  <2>. QED
    BY <1>0, <1>1, <2>1, <2>2, PlainTurns
<1>2. CASE c = SWrapper
  <2>1. MergeAt(h, o, from) = OTServerResponseWrapper_MergeFrom(h, o, from)
    BY <1>2, WrapperIs DEF MergeAt, SWrapper
  <2>2. Turns(c, h, hd, MergeAt(h, o, from), o,
              ServerValue(MergedSub(Sub(h, h[o].error), Sub(h, h[from].error)),
                          MergedSub(Sub(h, h[o].result), Sub(h, h[from].result)),
                          h[o].unknown \o h[from].unknown))
    BY <1>0, <1>2, <2>1, ServerMerges, ServerTurns
  <2>. QED
    BY <1>2, <2>2, ServerMeans, ServerValuesMerged
<1>3. CASE c = CWrapper
  <2>1. MergeAt(h, o, from) = OTClientResponseWrapper_MergeFrom(h, o, from)
    BY <1>3, WrapperIs DEF MergeAt, CWrapper
  <2>2. Turns(c, h, hd, MergeAt(h, o, from), o,
              ClientValue(MergedSub(Sub(h, h[o].error), Sub(h, h[from].error)),
                          h[o].result \o h[from].result, h[o].unknown \o h[from].unknown))
    BY <1>0, <1>3, <2>1, ClientMerges, ClientTurns
  <2>. QED
    BY <1>3, <2>2, ClientMeans, ClientValuesMerged
<1>. QED
  BY <1>1, <1>2, <1>3, ClassesKnown

\* CopyFrom makes any message what the other is.
LEMMA CopyTurns ==
  ASSUME NEW c \in P!Classes, NEW h, NEW hd, HeapOK(c, h, hd), NEW o \in Roots,
         NEW from \in Roots \ {o}
  PROVE  Turns(c, h, hd, CopyAt(h, o, from), o, Value(h, h[from]))
<1>0. HeapOK(c, CopyAt(h, o, from), hd)
  BY CopyStays
<1>1. CASE c \in PlainClasses
  <2>1. CopyAt(h, o, from) = [h EXCEPT ![o] = h[from]]
    BY <1>1, PlainMeans DEF Means
  <2>2. Value(h, h[from]) = h[from]
    BY <1>1, PlainValue
  <2>. QED
    BY <1>0, <1>1, <2>1, <2>2, PlainTurns
<1>2. CASE c = SWrapper
  <2>1. CopyAt(h, o, from) = OTServerResponseWrapper_CopyFrom(h, o, from)
    BY <1>2, WrapperIs DEF CopyAt, SWrapper
  <2>. QED
    BY <1>0, <1>2, <2>1, ServerCopies, ServerTurns, ServerMeans
<1>3. CASE c = CWrapper
  <2>1. CopyAt(h, o, from) = OTClientResponseWrapper_CopyFrom(h, o, from)
    BY <1>3, WrapperIs DEF CopyAt, CWrapper
  <2>. QED
    BY <1>0, <1>3, <2>1, ClientCopies, ClientTurns, ClientMeans
<1>. QED
  BY <1>1, <1>2, <1>3, ClassesKnown

\* The copy constructor makes any message what the other is.
LEMMA ConstructTurns ==
  ASSUME NEW c \in P!Classes, NEW h, NEW hd, HeapOK(c, h, hd), NEW o \in Roots,
         NEW from \in Roots \ {o}, h[o] = New(c)
  PROVE  Turns(c, h, hd, Construct(h, o, from), o, Value(h, h[from]))
<1>0. HeapOK(c, Construct(h, o, from), hd)
  BY ConstructStays
<1>1. CASE c \in PlainClasses
  <2>1. Construct(h, o, from) = [h EXCEPT ![o] = h[from]]
    BY <1>1, PlainMeans DEF Means
  <2>2. Value(h, h[from]) = h[from]
    BY <1>1, PlainValue
  <2>. QED
    BY <1>0, <1>1, <2>1, <2>2, PlainTurns
<1>2. CASE c = SWrapper
  <2>1. Construct(h, o, from) = OTServerResponseWrapper_Construct(h, o, from)
    BY <1>2, WrapperIs DEF Construct, SWrapper
  <2>2. h[o].error = nullptr /\ h[o].result = nullptr
    BY <1>2, WrapperNews
  <2>. QED
    BY <1>0, <1>2, <2>1, <2>2, ServerConstructs, ServerTurns, ServerMeans
<1>3. CASE c = CWrapper
  <2>1. Construct(h, o, from) = OTClientResponseWrapper_Construct(h, o, from)
    BY <1>3, WrapperIs DEF Construct, CWrapper
  <2>2. h[o].error = nullptr
    BY <1>3, WrapperNews
  <2>. QED
    BY <1>0, <1>3, <2>1, <2>2, ClientConstructs, ClientTurns, ClientMeans
<1>. QED
  BY <1>1, <1>2, <1>3, ClassesKnown

\* Each has what the other had, down to the pointers.
LEMMA Exchanges ==
  ASSUME NEW c \in P!Classes, NEW h, NEW hd, HeapOK(c, h, hd), NEW o \in Roots, NEW q \in Roots
  PROVE  Exchanged(h[o], h[q]) = h[q]
<1>1. CASE c \in PlainClasses
  BY <1>1, PlainMeans DEF Means
<1>2. CASE c = SWrapper
  <2>1. Exchanged(h[o], h[q]) = OTServerResponseWrapper_Swap(h[o], h[q])
    BY <1>2, WrapperIs DEF Exchanged, SWrapper
  <2>. QED
    BY <1>2, <2>1, WrapperIs, ServerSwapped
<1>3. CASE c = CWrapper
  <2>1. Exchanged(h[o], h[q]) = OTClientResponseWrapper_Swap(h[o], h[q])
    BY <1>3, WrapperIs DEF Exchanged, CWrapper
  <2>. QED
    BY <1>3, <2>1, WrapperIs, ClientSwapped
<1>. QED
  BY <1>1, <1>2, <1>3, ClassesKnown

-----------------------------------------------------------------------------
(* Parses. *)

\* A field that is parsed into a wrapper shows in no other message, read or refused.
LEMMA ServerFieldKeeps ==
  ASSUME NEW h, NEW hd, HeapOK(SWrapper, h, hd), NEW o \in Roots, NEW f
  PROVE  Keeps(SWrapper, h, hd, OTServerResponseWrapper_Field(h, o, f).heap, o)
<1>. DEFINE e == OTServerResponseWrapper_mutable_error(h, o)
            r == OTServerResponseWrapper_mutable_result(h, o)
<1>1. OTServerResponseWrapper_Field(h, o, f) =
        CASE f.tag = 10 -> ParseAt(e, e[o].error, f.sub)
          [] f.tag = 18 -> ParseAt(r, r[o].result, f.sub)
          [] OTHER      -> HeapUnknown(h, o, f)
  BY DEF OTServerResponseWrapper_Field
<1>2. \A v : Keeps(SWrapper, h, hd, SetError(e, o, v), o)
  <2>. SUFFICES ASSUME NEW v PROVE Keeps(SWrapper, h, hd, SetError(e, o, v), o)
    OBVIOUS
  <2>. QED
    BY ServerMutated DEF ServerNow
<1>3. \A v : Keeps(SWrapper, h, hd, SetResult(r, o, v), o)
  <2>. SUFFICES ASSUME NEW v PROVE Keeps(SWrapper, h, hd, SetResult(r, o, v), o)
    OBVIOUS
  <2>. QED
    BY ServerMutated DEF ServerNow
<1>. HIDE DEF e, r
<1>4. /\ ParseAt(e, e[o].error, f.sub).heap = SetError(e, o, Parsed(e[e[o].error], f.sub).msg)
      /\ ParseAt(r, r[o].result, f.sub).heap = SetResult(r, o, Parsed(r[r[o].result], f.sub).msg)
  BY DEF ParseAt, SetError, SetResult
<1>5. Keeps(SWrapper, h, hd, HeapUnknown(h, o, f).heap, o)
  <2>. DEFINE w == Append(h[o].unknown, f)
  <2>1. HeapUnknown(h, o, f).heap = [h EXCEPT ![o].unknown = w]
    BY DEF HeapUnknown
  <2>. HIDE DEF w
  <2>2. Keeps(SWrapper, h, hd, [h EXCEPT ![o].unknown = w], o)
    BY ServerUnknown DEF ServerNow
  <2>. QED
    BY <2>1, <2>2, Zenon
<1>. QED
  BY <1>1, <1>2, <1>3, <1>4, <1>5

\* A field that is parsed into a wrapper shows in no other message, read or refused.
LEMMA ClientFieldKeeps ==
  ASSUME NEW h, NEW hd, HeapOK(CWrapper, h, hd), NEW o \in Roots, NEW f
  PROVE  Keeps(CWrapper, h, hd, OTClientResponseWrapper_Field(h, o, f).heap, o)
<1>. DEFINE e == OTClientResponseWrapper_mutable_error(h, o)
            added == Parsed(OTClientResponse_New, f.sub)
            g == [h EXCEPT ![o].result = Append(@, added.msg)]
<1>1. OTClientResponseWrapper_Field(h, o, f) =
        CASE f.tag = 10 -> ParseAt(e, e[o].error, f.sub)
          [] f.tag = 18 -> [heap |-> g, ok |-> added.ok]
          [] OTHER      -> HeapUnknown(h, o, f)
  BY DEF OTClientResponseWrapper_Field
<1>2. \A v : Keeps(CWrapper, h, hd, SetError(e, o, v), o)
  <2>. SUFFICES ASSUME NEW v PROVE Keeps(CWrapper, h, hd, SetError(e, o, v), o)
    OBVIOUS
  <2>. QED
    BY ClientMutated DEF ClientNow
<1>. HIDE DEF e, added
<1>3. ParseAt(e, e[o].error, f.sub).heap = SetError(e, o, Parsed(e[e[o].error], f.sub).msg)
  BY DEF ParseAt, SetError
<1>4. h[o] \in ClientWrapperType
  BY ClientRoot
<1>5. Keeps(CWrapper, h, hd, g, o)
  <2>. DEFINE m == [h[o] EXCEPT !.result = Append(h[o].result, added.msg)]
  <2>1. g = [h EXCEPT ![o] = m] /\ m.error = h[o].error
    BY <1>4 DEF ClientWrapperType
  <2>. HIDE DEF m, g
  <2>2. Keeps(CWrapper, h, hd, [h EXCEPT ![o] = m], o)
    BY <2>1, ClientSets DEF ClientNow
  <2>. QED
    BY <2>1, <2>2, Zenon
<1>. HIDE DEF g
<1>6. Keeps(CWrapper, h, hd, HeapUnknown(h, o, f).heap, o)
  <2>. DEFINE m == [h[o] EXCEPT !.unknown = Append(h[o].unknown, f)]
              k == HeapUnknown(h, o, f).heap
  <2>0. k = [h EXCEPT ![o].unknown = Append(h[o].unknown, f)]
    BY DEF HeapUnknown
  <2>1. k = [h EXCEPT ![o] = m] /\ m.error = h[o].error
    BY <1>4, <2>0 DEF ClientWrapperType
  <2>. HIDE DEF m, k
  <2>2. Keeps(CWrapper, h, hd, [h EXCEPT ![o] = m], o)
    BY <2>1, ClientSets DEF ClientNow
  <2>3. Keeps(CWrapper, h, hd, k, o)
    BY <2>1, <2>2, Zenon
  <2>. QED
    BY <2>3 DEF k
<1>. QED
  BY <1>1, <1>2, <1>3, <1>5, <1>6

\* Nor does a parse, whether it succeeds or is refused half way.
LEMMA ParseIntoKeeps ==
  ASSUME NEW c \in P!Classes, NEW h, NEW hd, HeapOK(c, h, hd), NEW o \in Roots,
         NEW w \in Seq(Written(c))
  PROVE  Keeps(c, h, hd, ParseInto(h, o, w).heap, o)
<1>. DEFINE g == ClearAt(h, o)
<1>1. HeapOK(c, g, hd) /\ Keeps(c, h, hd, g, o)
  BY ClearStays, ClearTurns DEF Turns
<1>. HIDE DEF g
<1>2. CASE c \in PlainClasses
  <2>. DEFINE v == Parsed(g[o], w).msg
              k == ParseInto(h, o, w).heap
  <2>1. h[o].class \notin Wrappers
    BY <1>2, RootPointers DEF PlainClasses, Wrappers
  <2>. HIDE DEF v
  <2>2. k = [g EXCEPT ![o] = v]
    BY <2>1 DEF ParseInto, g, v
  <2>3. HeapOK(c, k, hd)
    BY ParseIntoStays
  <2>. HIDE DEF k
  <2>4. Keeps(c, g, hd, k, o)
    BY <1>1, <1>2, <2>2, <2>3, PlainTurns DEF Turns
  <2>5. Keeps(c, h, hd, k, o)
    BY <1>1, <2>4, KeepsOn
  <2>. QED
    BY <2>5 DEF k
<1>3. CASE c \in {SWrapper, CWrapper}
  <2>. DEFINE H == {k \in Heaps(c) : HeapOK(c, k, hd) /\ Keeps(c, h, hd, k, o)}
  <2>1. h[o].class \in Wrappers
    BY <1>3, WrapperIs DEF Wrappers, SWrapper, CWrapper
  <2>2. ParseInto(h, o, w) = HeapParse(g, o, w)
    BY <2>1 DEF ParseInto, g
  <2>3. g \in H
    BY <1>1 DEF HeapOK
  <2>4. ASSUME NEW k \in H, NEW f \in Written(c)
        PROVE  WrapperField(k, o, f).heap \in H /\ WrapperField(k, o, f).ok \in BOOLEAN
    <3>1. HeapOK(c, WrapperField(k, o, f).heap, hd) /\ WrapperField(k, o, f).ok \in BOOLEAN
      BY <1>3, WrapperFieldStays
    <3>2. Keeps(c, k, hd, WrapperField(k, o, f).heap, o)
      <4>1. CASE c = SWrapper
        <5>1. WrapperField(k, o, f) = OTServerResponseWrapper_Field(k, o, f)
          BY <4>1, WrapperIs DEF WrapperField, SWrapper
        <5>. QED
          BY <4>1, <5>1, ServerFieldKeeps
      <4>2. CASE c = CWrapper
        <5>1. WrapperField(k, o, f) = OTClientResponseWrapper_Field(k, o, f)
          BY <4>2, WrapperIs DEF WrapperField, SWrapper, CWrapper
        <5>. QED
          BY <4>2, <5>1, ClientFieldKeeps
      <4>. QED
        BY <1>3, <4>1, <4>2
    <3>3. Keeps(c, h, hd, WrapperField(k, o, f).heap, o)
      BY <3>2, KeepsOn
    <3>. QED
      BY <3>1, <3>3 DEF HeapOK
  <2>5. \A k \in H : Keeps(c, h, hd, k, o)
    OBVIOUS
  <2>. HIDE DEF H
  <2>6. HeapParse(g, o, w).heap \in H
    BY <2>3, <2>4, HeapParseWithin
  <2>. QED
    BY <2>2, <2>5, <2>6
<1>. QED
  BY <1>2, <1>3, ClassesKnown

-----------------------------------------------------------------------------
(* The steps, as steps of the abstract specification. *)

\* The messages the abstract specification sees: those of the refinement mapping.
Objs(h, sp) ==
  [o \in Roots |-> IF o \in sp THEN [class |-> "spoiled"] ELSE Value(h, h[o])]

\* The message the caller owns.
HandValue(h, hd) == IF hd = nullptr THEN P!None ELSE h[hd]

\* A message that turns into v is the only one that changes.
LEMMA ObjsTurn ==
  ASSUME NEW c \in P!Classes, NEW h, NEW hd, HeapOK(c, h, hd), NEW o \in Roots, NEW g, NEW v,
         Turns(c, h, hd, g, o, v), NEW sp, NEW sp2, o \notin sp2, sp2 \ {o} = sp \ {o}
  PROVE  Objs(g, sp2) = [Objs(h, sp) EXCEPT ![o] = v]
<1>1. \A p \in Roots \ {o} : Value(g, g[p]) = Value(h, h[p])
  BY KeepsValue DEF Turns
<1>2. Value(g, g[o]) = v
  BY DEF Turns
<1>3. \A p \in Roots \ {o} : p \in sp2 <=> p \in sp
  OBVIOUS
<1>. QED
  BY <1>1, <1>2, <1>3 DEF Objs

\* What an operation keeps is the caller's too.
LEMMA HandKept ==
  ASSUME NEW c, NEW h, NEW hd, NEW g, NEW o, Keeps(c, h, hd, g, o)
  PROVE  HandValue(g, hd) = HandValue(h, hd)
BY DEF Keeps, HandValue

\* No message is what a refused parse leaves, or nothing.
LEMMA ValueFit ==
  ASSUME NEW c \in P!Classes, NEW h, NEW hd, HeapOK(c, h, hd), NEW o \in Roots
  PROVE  Value(h, h[o]) # [class |-> "spoiled"]
<1>. DEFINE v == Value(h, h[o])
<1>1. Pointers(h[o]) = Held(c) /\ h[o].class = c /\ h[o] \in RootType(c)
  BY RootPointers
<1>2. "class" \in DOMAIN h[o] /\ "class" \notin Held(c)
  <2>1. DOMAIN h[o] = DOMAIN P!Default(c)
    BY <1>1, MembersAreFields
  <2>2. "class" \in DOMAIN P!Default(c)
    BY DEF P!Default
  <2>. QED
    BY <2>1, <2>2, HeldClasses
<1>3. v["class"] = c
  BY <1>1, <1>2 DEF Value
<1>4. c # "spoiled"
  BY DEF P!Classes, P!Schema
<1>. HIDE DEF v
<1>5. v # [class |-> "spoiled"]
  BY <1>3, <1>4
<1>. QED
  BY <1>5 DEF v

\* A field of the message at o is set, and nothing else changes.
Sets(c, h, hd, g, o, x) ==
  /\ Keeps(c, h, hd, g, o)
  /\ x \in Abstract!Names(c)
  /\ Value(g, g[o]) = [Value(h, h[o]) EXCEPT ![x] = Value(g, g[o])[x]]

\* The field names of the wrappers.
LEMMA WrapperNames ==
  /\ Abstract!Names(SWrapper) = {"error", "result"}
  /\ Abstract!Names(CWrapper) = {"error", "result"}
BY ServerWrapperSchema, ClientWrapperSchema DEF SWrapper, CWrapper

\* One submessage replaced is one field set.
LEMMA ServerSets ==
  ASSUME NEW h, NEW hd, HeapOK(SWrapper, h, hd), NEW o \in Roots, NEW g, NEW gd,
         HeapOK(SWrapper, g, gd), NEW v
  PROVE  /\ ServerNow(h, hd, g, o, v, Sub(h, h[o].result), h[o].unknown) =>
              /\ Sets(SWrapper, h, hd, g, o, "error")
              /\ Turns(SWrapper, h, hd, g, o, [Value(h, h[o]) EXCEPT !["error"] = v])
         /\ ServerNow(h, hd, g, o, Sub(h, h[o].error), v, h[o].unknown) =>
              /\ Sets(SWrapper, h, hd, g, o, "result")
              /\ Turns(SWrapper, h, hd, g, o, [Value(h, h[o]) EXCEPT !["result"] = v])
         /\ Value(h, h[o])["error"] = Sub(h, h[o].error)
         /\ Value(h, h[o])["result"] = Sub(h, h[o].result)
<1>. DEFINE e == Sub(h, h[o].error)
            r == Sub(h, h[o].result)
            u == h[o].unknown
            old == Value(h, h[o])
            new == Value(g, g[o])
<1>1. old = ServerValue(e, r, u)
  BY ServerMeans
<1>. HIDE DEF e, r, u, old
<1>2. ASSUME ServerNow(h, hd, g, o, v, r, u)
      PROVE  Turns(SWrapper, h, hd, g, o, [old EXCEPT !["error"] = v]) /\ new = [old EXCEPT !["error"] = new["error"]]
  <2>1. Turns(SWrapper, h, hd, g, o, ServerValue(v, r, u))
    BY <1>2, ServerTurns
  <2>2. new = ServerValue(v, r, u)
    BY <2>1 DEF Turns
  <2>. HIDE DEF new
  <2>3. ServerValue(v, r, u) = [old EXCEPT !["error"] = v]
    BY <1>1 DEF ServerValue
  <2>4. ServerValue(v, r, u)["error"] = v
    BY DEF ServerValue
  <2>. QED
    BY <2>1, <2>2, <2>3, <2>4
<1>3. ASSUME ServerNow(h, hd, g, o, e, v, u)
      PROVE  Turns(SWrapper, h, hd, g, o, [old EXCEPT !["result"] = v]) /\ new = [old EXCEPT !["result"] = new["result"]]
  <2>1. Turns(SWrapper, h, hd, g, o, ServerValue(e, v, u))
    BY <1>3, ServerTurns
  <2>2. new = ServerValue(e, v, u)
    BY <2>1 DEF Turns
  <2>. HIDE DEF new
  <2>3. ServerValue(e, v, u) = [old EXCEPT !["result"] = v]
    BY <1>1 DEF ServerValue
  <2>4. ServerValue(e, v, u)["result"] = v
    BY DEF ServerValue
  <2>. QED
    BY <2>1, <2>2, <2>3, <2>4
<1>4. old["error"] = e /\ old["result"] = r
  BY <1>1 DEF ServerValue
<1>. QED
  BY <1>2, <1>3, <1>4, WrapperNames DEF Sets, Turns, e, r, u, old

\* One field replaced is one field set.
LEMMA ClientWrapperSets ==
  ASSUME NEW h, NEW hd, HeapOK(CWrapper, h, hd), NEW o \in Roots, NEW g, NEW gd,
         HeapOK(CWrapper, g, gd), NEW v
  PROVE  /\ ClientNow(h, hd, g, o, v, h[o].result, h[o].unknown) =>
              /\ Sets(CWrapper, h, hd, g, o, "error")
              /\ Turns(CWrapper, h, hd, g, o, [Value(h, h[o]) EXCEPT !["error"] = v])
         /\ ClientNow(h, hd, g, o, Sub(h, h[o].error), v, h[o].unknown) =>
              Sets(CWrapper, h, hd, g, o, "result")
         /\ Value(h, h[o])["error"] = Sub(h, h[o].error)
<1>. DEFINE e == Sub(h, h[o].error)
            s == h[o].result
            u == h[o].unknown
            old == Value(h, h[o])
            new == Value(g, g[o])
<1>1. old = ClientValue(e, s, u)
  BY ClientMeans
<1>. HIDE DEF e, s, u, old
<1>2. ASSUME ClientNow(h, hd, g, o, v, s, u)
      PROVE  Turns(CWrapper, h, hd, g, o, [old EXCEPT !["error"] = v]) /\ new = [old EXCEPT !["error"] = new["error"]]
  <2>1. Turns(CWrapper, h, hd, g, o, ClientValue(v, s, u))
    BY <1>2, ClientTurns
  <2>2. new = ClientValue(v, s, u)
    BY <2>1 DEF Turns
  <2>. HIDE DEF new
  <2>3. ClientValue(v, s, u) = [old EXCEPT !["error"] = v]
    BY <1>1 DEF ClientValue
  <2>4. ClientValue(v, s, u)["error"] = v
    BY DEF ClientValue
  <2>. QED
    BY <2>1, <2>2, <2>3, <2>4
<1>3. ASSUME ClientNow(h, hd, g, o, e, v, u)
      PROVE  Keeps(CWrapper, h, hd, g, o) /\ new = [old EXCEPT !["result"] = new["result"]]
  <2>1. Turns(CWrapper, h, hd, g, o, ClientValue(e, v, u))
    BY <1>3, ClientTurns
  <2>2. new = ClientValue(e, v, u) /\ Keeps(CWrapper, h, hd, g, o)
    BY <2>1 DEF Turns
  <2>. HIDE DEF new
  <2>3. ClientValue(e, v, u) = [old EXCEPT !["result"] = v]
    BY <1>1 DEF ClientValue
  <2>4. ClientValue(e, v, u)["result"] = v
    BY DEF ClientValue
  <2>. QED
    BY <2>2, <2>3, <2>4
<1>4. old["error"] = e
  BY <1>1 DEF ClientValue
<1>. QED
  BY <1>2, <1>3, <1>4, WrapperNames DEF Sets, Turns, e, s, u, old

\* An accessor sets one field.
LEMMA AccessSets ==
  ASSUME NEW c \in P!Classes, NEW h, NEW hd, HeapOK(c, h, hd), NEW o \in Roots,
         NEW m \in Accessors(h[o])
  PROVE  \E x : Sets(c, h, hd, [h EXCEPT ![o] = m], o, x)
<1>. DEFINE g == [h EXCEPT ![o] = m]
<1>0. HeapOK(c, g, hd)
  BY AccessStays
<1>1. CASE c \in PlainClasses
  <2>1. PICK x \in Abstract!Names(c) : m = [h[o] EXCEPT ![x] = m[x]]
    BY <1>1, PlainMeans DEF Means
  <2>2. g = [h EXCEPT ![o] = m]
    OBVIOUS
  <2>. HIDE DEF g
  <2>3. Keeps(c, h, hd, g, o) /\ Value(g, g[o]) = m
    BY <1>0, <1>1, <2>2, PlainTurns DEF Turns
  <2>4. Value(h, h[o]) = h[o]
    BY <1>1, PlainValue
  <2>5. Sets(c, h, hd, g, o, x)
    BY <2>1, <2>3, <2>4, Zenon DEF Sets
  <2>. QED
    BY <2>5 DEF g
<1>2. CASE c = SWrapper
  <2>1. Accessors(h[o]) = {}
    BY <1>2, WrapperIs DEF Accessors, SWrapper
  <2>. QED
    BY <2>1
<1>3. CASE c = CWrapper
  <2>1. h[o] \in ClientWrapperType /\ h[o].class = "OTClientResponseWrapper"
    BY <1>3, WrapperIs DEF CWrapper
  <2>2. Accessors(h[o]) = {[h[o] EXCEPT !.result = seq] : seq \in OTClientResponseWrapper_Results(h[o])}
    BY <2>1 DEF Accessors
  <2>3. PICK seq : m = [h[o] EXCEPT !.result = seq]
    BY <2>2
  <2>4. m.error = h[o].error /\ m.unknown = h[o].unknown
    BY <2>1, <2>3 DEF ClientWrapperType
  <2>5. ClientNow(h, hd, g, o, Sub(h, h[o].error), m.result, m.unknown)
    BY <1>3, <2>4, ClientSets
  <2>. HIDE DEF g
  <2>6. Sets(c, h, hd, g, o, "result")
    BY <1>0, <1>3, <2>4, <2>5, ClientWrapperSets
  <2>. QED
    BY <2>6 DEF g
<1>. QED
  BY <1>1, <1>2, <1>3, ClassesKnown

-----------------------------------------------------------------------------
(* The whole. *)

\* A step on the values is a step of the abstract specification.
LEMMA AbstractStep ==
  ASSUME kind' = kind,
         LET m == Objs(heap, spoiled)
             n == Objs(heap', spoiled')
         IN \/ Abstract!Drop(m, n)
            \/ \E o \in Roots : Abstract!Set(m, n, o) \/ Abstract!Take(m, n, o)
                                  \/ Abstract!Give(m, n, o) \/ Abstract!Reset(m, n, o)
            \/ \E o, p \in Roots : Abstract!Merge(m, n, o, p) \/ Abstract!Copy(m, n, o, p)
                                     \/ Abstract!Swap(m, n, o, p)
  PROVE  Abstract!Next
BY DEF Abstract!Next, Objs

\* One field set is a Set of the abstract specification.
LEMMA SetStep ==
  ASSUME IInv, HeapOK(kind, heap', hand), NEW o \in Roots, o \notin spoiled, NEW x,
         Sets(kind, heap, hand, heap', o, x), hand' = hand, spoiled' = spoiled
  PROVE  Abstract!Set(Objs(heap, spoiled), Objs(heap', spoiled'), o)
<1>. DEFINE v == Value(heap', heap'[o])
            m == Objs(heap, spoiled)
            n == Objs(heap', spoiled')
<1>1. kind \in P!Classes /\ HeapOK(kind, heap, hand)
  BY KindsAssumption DEF IInv
<1>2. Turns(kind, heap, hand, heap', o, v)
  BY DEF Sets, Turns
<1>3. n = [m EXCEPT ![o] = v]
  <2>1. o \notin spoiled' /\ spoiled' \ {o} = spoiled \ {o}
    OBVIOUS
  <2>. HIDE DEF v
  <2>. QED
    BY <1>1, <1>2, <2>1, ObjsTurn
<1>4. m[o] = Value(heap, heap[o]) /\ m = [p \in Roots |-> m[p]]
  BY DEF Objs
<1>5. m[o] # Abstract!Spoiled /\ v # Abstract!Spoiled
  BY <1>1, <1>4, ValueFit DEF Abstract!Spoiled
<1>6. HandValue(heap', hand') = HandValue(heap, hand)
  BY HandKept DEF Sets
<1>7. v = [m[o] EXCEPT ![x] = v[x]] /\ x \in Abstract!Names(kind)
  BY <1>4 DEF Sets
<1>. HIDE DEF m, n, v
<1>8. n[o] = v
  BY <1>3, <1>4
<1>9. n = [m EXCEPT ![o] = [m[o] EXCEPT ![x] = n[o][x]]]
  BY <1>3, <1>7, <1>8
<1>10. Abstract!Set(m, n, o)
  BY <1>5, <1>6, <1>7, <1>8, <1>9 DEF Abstract!Set, Abstract!Fit, HandValue
<1>. QED
  BY <1>10 DEF m, n

\* A call of an accessor, of clear_, or of mutable_ and an accessor, sets a field.
LEMMA SettersStep ==
  ASSUME IInv, HeapOK(kind, heap', hand), NEW o \in Roots,
         Access(o) \/ MutableError(o) \/ MutableResult(o) \/ ClearSub(o)
  PROVE  Abstract!Set(Objs(heap, spoiled), Objs(heap', spoiled'), o)
<1>1. kind \in P!Classes /\ HeapOK(kind, heap, hand)
  BY KindsAssumption DEF IInv
<1>2. o \notin spoiled /\ hand' = hand /\ spoiled' = spoiled
  BY DEF Access, MutableError, MutableResult, Mutate, ClearSub, Fit
<1>. SUFFICES \E x : Sets(kind, heap, hand, heap', o, x)
  BY <1>2, SetStep
<1>3. CASE Access(o)
  <2>1. PICK m \in Accessors(heap[o]) : heap' = [heap EXCEPT ![o] = m]
    BY <1>3 DEF Access
  <2>2. PICK x : Sets(kind, heap, hand, [heap EXCEPT ![o] = m], o, x)
    BY <1>1, AccessSets
  <2>3. Sets(kind, heap, hand, heap', o, x)
    BY <2>1, <2>2, Zenon
  <2>. QED
    BY <2>3
<1>4. CASE MutableError(o) /\ kind = SWrapper
  <2>. DEFINE h == OTServerResponseWrapper_mutable_error(heap, o)
  <2>1. PICK m : heap' = [h EXCEPT ![h[o].error] = m]
    BY <1>4 DEF MutableError, Mutate, SWrapper
  <2>2. heap' = SetError(h, o, m)
    BY <2>1 DEF SetError
  <2>3. ServerNow(heap, hand, heap', o, m, Sub(heap, heap[o].result), heap[o].unknown)
    BY <1>1, <1>4, <2>2, ServerMutated
  <2>4. Sets(kind, heap, hand, heap', o, "error")
    BY <1>1, <1>4, <2>3, ServerSets
  <2>. QED
    BY <2>4
<1>5. CASE MutableError(o) /\ kind = CWrapper
  <2>. DEFINE h == OTClientResponseWrapper_mutable_error(heap, o)
  <2>1. PICK m : heap' = [h EXCEPT ![h[o].error] = m]
    BY <1>5 DEF MutableError, Mutate, CWrapper
  <2>2. heap' = SetError(h, o, m)
    BY <2>1 DEF SetError
  <2>3. ClientNow(heap, hand, heap', o, m, heap[o].result, heap[o].unknown)
    BY <1>1, <1>5, <2>2, ClientMutated
  <2>4. Sets(kind, heap, hand, heap', o, "error")
    BY <1>1, <1>5, <2>3, ClientWrapperSets
  <2>. QED
    BY <2>4
<1>6. CASE MutableResult(o)
  <2>. DEFINE h == OTServerResponseWrapper_mutable_result(heap, o)
  <2>1. PICK m : heap' = [h EXCEPT ![h[o].result] = m]
    BY <1>6 DEF MutableResult, Mutate
  <2>2. heap' = SetResult(h, o, m) /\ kind = SWrapper
    BY <1>6, <2>1 DEF SetResult, MutableResult, SWrapper
  <2>3. ServerNow(heap, hand, heap', o, Sub(heap, heap[o].error), m, heap[o].unknown)
    BY <1>1, <2>2, ServerMutated
  <2>4. Sets(kind, heap, hand, heap', o, "result")
    BY <1>1, <2>2, <2>3, ServerSets
  <2>. QED
    BY <2>4
<1>7. CASE ClearSub(o) /\ kind = SWrapper
  <2>1. \/ heap' = OTServerResponseWrapper_clear_error(heap, o)
        \/ heap' = OTServerResponseWrapper_clear_result(heap, o)
    BY <1>7 DEF ClearSub, SWrapper
  <2>2. \/ ServerNow(heap, hand, heap', o, P!None, Sub(heap, heap[o].result), heap[o].unknown)
        \/ ServerNow(heap, hand, heap', o, Sub(heap, heap[o].error), P!None, heap[o].unknown)
    BY <1>1, <1>7, <2>1, ServerClears
  <2>3. \/ Sets(kind, heap, hand, heap', o, "error")
        \/ Sets(kind, heap, hand, heap', o, "result")
    BY <1>1, <1>7, <2>2, ServerSets
  <2>. QED
    BY <2>3
<1>8. CASE ClearSub(o) /\ kind = CWrapper
  <2>1. heap' = OTClientResponseWrapper_clear_error(heap, o)
    BY <1>8 DEF ClearSub, CWrapper
  <2>2. ClientNow(heap, hand, heap', o, P!None, heap[o].result, heap[o].unknown)
    BY <1>1, <1>8, <2>1, ClientClears
  <2>3. Sets(kind, heap, hand, heap', o, "error")
    BY <1>1, <1>8, <2>2, ClientWrapperSets
  <2>. QED
    BY <2>3
<1>. QED
  BY <1>3, <1>4, <1>5, <1>6, <1>7, <1>8 DEF MutableError, ClearSub, SWrapper, CWrapper

\* The labels and types of the submessage fields.
LEMMA WrapperFields ==
  /\ \A x \in {"error", "result"} : Abstract!IsOptional(Abstract!FieldOf(SWrapper, x))
  /\ Abstract!IsOptional(Abstract!FieldOf(CWrapper, "error"))
  /\ Abstract!FieldOf(SWrapper, "error").type = "Error"
  /\ Abstract!FieldOf(SWrapper, "result").type = "OTServerResponse"
  /\ Abstract!FieldOf(CWrapper, "error").type = "Error"
<1>1. /\ \A x \in {"error", "result"} : Abstract!IsOptional(Abstract!FieldOf(SWrapper, x))
      /\ Abstract!FieldOf(SWrapper, "error").type = "Error"
      /\ Abstract!FieldOf(SWrapper, "result").type = "OTServerResponse"
  BY ServerWrapperSchema, DefaultIs DEF SWrapper
<1>2. /\ Abstract!IsOptional(Abstract!FieldOf(CWrapper, "error"))
      /\ Abstract!FieldOf(CWrapper, "error").type = "Error"
  BY ClientWrapperSchema, DefaultIs DEF CWrapper
<1>. QED
  BY <1>1, <1>2

\* A submessage taken out of a message is a Take of the abstract specification.
LEMMA TakeStep ==
  ASSUME IInv, NEW o \in Roots, o \notin spoiled, hand = nullptr, spoiled' = spoiled,
         NEW x \in Abstract!Names(kind), Abstract!IsOptional(Abstract!FieldOf(kind, x)),
         Turns(kind, heap, hand, heap', o, [Value(heap, heap[o]) EXCEPT ![x] = P!None]),
         HandValue(heap', hand') = Value(heap, heap[o])[x]
  PROVE  Abstract!Take(Objs(heap, spoiled), Objs(heap', spoiled'), o)
<1>. DEFINE v == [Value(heap, heap[o]) EXCEPT ![x] = P!None]
            m == Objs(heap, spoiled)
            n == Objs(heap', spoiled')
<1>1. kind \in P!Classes /\ HeapOK(kind, heap, hand)
  BY KindsAssumption DEF IInv
<1>2. m[o] = Value(heap, heap[o])
  BY DEF Objs
<1>3. m[o] # Abstract!Spoiled
  BY <1>1, <1>2, ValueFit DEF Abstract!Spoiled
<1>4. n = [m EXCEPT ![o] = v]
  <2>1. o \notin spoiled' /\ spoiled' \ {o} = spoiled \ {o} /\ Turns(kind, heap, hand, heap', o, v)
    OBVIOUS
  <2>. HIDE DEF v
  <2>. QED
    BY <1>1, <2>1, ObjsTurn
<1>5. v = [m[o] EXCEPT ![x] = Abstract!None] /\ HandValue(heap', hand') = m[o][x]
  BY <1>2, SameSchema
<1>. HIDE DEF m, n, v
<1>6. n = [m EXCEPT ![o] = [m[o] EXCEPT ![x] = Abstract!None]]
  BY <1>4, <1>5
<1>7. HandValue(heap, hand) = Abstract!None
  BY SameSchema DEF HandValue
<1>8. Abstract!Take(m, n, o)
  BY <1>3, <1>5, <1>6, <1>7 DEF Abstract!Take, Abstract!Fit, HandValue
<1>. QED
  BY <1>8 DEF m, n

\* release_ is a Take.
LEMMA ReleaseStep ==
  ASSUME IInv, HeapOK(kind, heap', hand'), NEW o \in Roots, Release(o)
  PROVE  Abstract!Take(Objs(heap, spoiled), Objs(heap', spoiled'), o)
<1>1. kind \in P!Classes /\ HeapOK(kind, heap, hand)
  BY KindsAssumption DEF IInv
<1>2. o \notin spoiled /\ hand = nullptr /\ spoiled' = spoiled
  BY DEF Release, Fit
<1>3. ASSUME NEW p, p \in Addr \cup {nullptr}, hand' = p, \A a \in Addr : heap'[a] = heap[a]
      PROVE  HandValue(heap', hand') = Sub(heap, p)
  BY <1>3 DEF HandValue, Sub
<1>4. CASE kind = SWrapper
  <2>. DEFINE v == Value(heap, heap[o])
  <2>1. heap[o].error \in Addr \cup {nullptr} /\ heap[o].result \in Addr \cup {nullptr}
    BY <1>1, <1>4, ServerRoot
  <2>2. v["error"] = Sub(heap, heap[o].error) /\ v["result"] = Sub(heap, heap[o].result)
    BY <1>1, <1>4, ServerSets
  <2>. HIDE DEF v
  <2>3. CASE hand' = heap[o].error /\ heap' = OTServerResponseWrapper_release_error(heap, o)
    <3>1. /\ ServerNow(heap, hand, heap', o, P!None, Sub(heap, heap[o].result), heap[o].unknown)
          /\ \A a \in Addr : heap'[a] = heap[a]
      BY <1>1, <1>4, <2>3, ServerReleases
    <3>2. Turns(kind, heap, hand, heap', o, [v EXCEPT !["error"] = P!None])
      BY <1>1, <1>4, <3>1, ServerSets DEF v
    <3>3. HandValue(heap', hand') = v["error"]
      BY <1>3, <2>1, <2>2, <2>3, <3>1
    <3>. QED
      BY <1>2, <1>4, <3>2, <3>3, TakeStep, WrapperNames, WrapperFields DEF v
  <2>4. CASE hand' = heap[o].result /\ heap' = OTServerResponseWrapper_release_result(heap, o)
    <3>1. /\ ServerNow(heap, hand, heap', o, Sub(heap, heap[o].error), P!None, heap[o].unknown)
          /\ \A a \in Addr : heap'[a] = heap[a]
      BY <1>1, <1>4, <2>4, ServerReleases
    <3>2. Turns(kind, heap, hand, heap', o, [v EXCEPT !["result"] = P!None])
      BY <1>1, <1>4, <3>1, ServerSets DEF v
    <3>3. HandValue(heap', hand') = v["result"]
      BY <1>3, <2>1, <2>2, <2>4, <3>1
    <3>. QED
      BY <1>2, <1>4, <3>2, <3>3, TakeStep, WrapperNames, WrapperFields DEF v
  <2>. QED
    BY <1>4, <2>3, <2>4 DEF Release, SWrapper
<1>5. CASE kind = CWrapper
  <2>. DEFINE v == Value(heap, heap[o])
  <2>1. heap[o].error \in Addr \cup {nullptr}
    BY <1>1, <1>5, ClientRoot
  <2>2. v["error"] = Sub(heap, heap[o].error)
    BY <1>1, <1>5, ClientWrapperSets
  <2>. HIDE DEF v
  <2>3. hand' = heap[o].error /\ heap' = OTClientResponseWrapper_release_error(heap, o)
    BY <1>5 DEF Release, CWrapper
  <2>4. /\ ClientNow(heap, hand, heap', o, P!None, heap[o].result, heap[o].unknown)
        /\ \A a \in Addr : heap'[a] = heap[a]
    BY <1>1, <1>5, <2>3, ClientReleases
  <2>5. Turns(kind, heap, hand, heap', o, [v EXCEPT !["error"] = P!None])
    BY <1>1, <1>5, <2>4, ClientWrapperSets DEF v
  <2>6. HandValue(heap', hand') = v["error"]
    BY <1>3, <2>1, <2>2, <2>3, <2>4
  <2>. QED
    BY <1>2, <1>5, <2>5, <2>6, TakeStep, WrapperNames, WrapperFields DEF v
<1>. QED
  BY <1>4, <1>5 DEF Release, SWrapper, CWrapper

\* A submessage put into a message is a Give of the abstract specification.
LEMMA GiveStep ==
  ASSUME IInv, NEW o \in Roots, o \notin spoiled, hand # nullptr, hand' = nullptr,
         spoiled' = spoiled, heap[hand] # P!None,
         NEW x \in Abstract!Names(kind), Abstract!FieldOf(kind, x).type = heap[hand].class,
         Turns(kind, heap, hand, heap', o, [Value(heap, heap[o]) EXCEPT ![x] = heap[hand]])
  PROVE  Abstract!Give(Objs(heap, spoiled), Objs(heap', spoiled'), o)
<1>. DEFINE v == [Value(heap, heap[o]) EXCEPT ![x] = heap[hand]]
            m == Objs(heap, spoiled)
            n == Objs(heap', spoiled')
<1>1. kind \in P!Classes /\ HeapOK(kind, heap, hand)
  BY KindsAssumption DEF IInv
<1>2. m[o] = Value(heap, heap[o])
  BY DEF Objs
<1>3. m[o] # Abstract!Spoiled
  BY <1>1, <1>2, ValueFit DEF Abstract!Spoiled
<1>4. n = [m EXCEPT ![o] = v]
  <2>1. o \notin spoiled' /\ spoiled' \ {o} = spoiled \ {o} /\ Turns(kind, heap, hand, heap', o, v)
    OBVIOUS
  <2>. HIDE DEF v
  <2>. QED
    BY <1>1, <2>1, ObjsTurn
<1>5. v = [m[o] EXCEPT ![x] = heap[hand]]
  BY <1>2
<1>. HIDE DEF m, n, v
<1>6. n = [m EXCEPT ![o] = [m[o] EXCEPT ![x] = heap[hand]]]
  BY <1>4, <1>5
<1>7. HandValue(heap, hand) = heap[hand] /\ heap[hand] # Abstract!None
      /\ HandValue(heap', hand') = Abstract!None
  BY SameSchema DEF HandValue
<1>8. Abstract!Give(m, n, o)
  BY <1>3, <1>6, <1>7 DEF Abstract!Give, Abstract!Fit, HandValue
<1>. QED
  BY <1>8 DEF m, n

\* set_allocated_ is a Give.
LEMMA SetAllocatedStep ==
  ASSUME IInv, HeapOK(kind, heap', hand'), NEW o \in Roots, SetAllocated(o)
  PROVE  Abstract!Give(Objs(heap, spoiled), Objs(heap', spoiled'), o)
<1>. DEFINE v == Value(heap, heap[o])
<1>1. kind \in P!Classes /\ HeapOK(kind, heap, hand)
  BY KindsAssumption DEF IInv
<1>2. o \notin spoiled /\ hand # nullptr /\ hand' = nullptr /\ spoiled' = spoiled
  BY DEF SetAllocated, Fit
<1>3. /\ heap[hand].class \in {"Error", "OTServerResponse"}
      /\ kind = CWrapper => heap[hand].class = "Error"
  <2>1. PICK x \in Held(kind) : heap[hand] \in SubType(x)
    BY <1>1, <1>2 DEF HeapOK, HandOK
  <2>2. x \in {"error", "result"}
    BY HeldClasses
  <2>3. kind = CWrapper => x = "error"
    BY WrapperClasses
  <2>. QED
    BY <2>1, <2>2, <2>3, HeldClasses
<1>4. heap[hand] # P!None
  BY <1>3 DEF P!None
<1>5. CASE kind = SWrapper
  <2>1. CASE /\ heap[hand].class = "Error"
             /\ heap' = OTServerResponseWrapper_set_allocated_error(heap, o, hand)
    <3>1. ServerNow(heap, hand, heap', o, heap[hand], Sub(heap, heap[o].result), heap[o].unknown)
      BY <1>1, <1>2, <1>5, <2>1, ServerAttaches
    <3>2. Turns(kind, heap, hand, heap', o, [v EXCEPT !["error"] = heap[hand]])
      BY <1>1, <1>5, <3>1, ServerSets
    <3>. QED
      BY <1>2, <1>4, <1>5, <2>1, <3>2, GiveStep, WrapperNames, WrapperFields
  <2>2. CASE /\ heap[hand].class = "OTServerResponse"
             /\ heap' = OTServerResponseWrapper_set_allocated_result(heap, o, hand)
    <3>1. ServerNow(heap, hand, heap', o, Sub(heap, heap[o].error), heap[hand], heap[o].unknown)
      BY <1>1, <1>2, <1>5, <2>2, ServerAttaches
    <3>2. Turns(kind, heap, hand, heap', o, [v EXCEPT !["result"] = heap[hand]])
      BY <1>1, <1>5, <3>1, ServerSets
    <3>. QED
      BY <1>2, <1>4, <1>5, <2>2, <3>2, GiveStep, WrapperNames, WrapperFields
  <2>. QED
    BY <1>5, <2>1, <2>2 DEF SetAllocated, SWrapper
<1>6. CASE kind = CWrapper
  <2>1. heap' = OTClientResponseWrapper_set_allocated_error(heap, o, hand)
    BY <1>6 DEF SetAllocated, CWrapper
  <2>2. ClientNow(heap, hand, heap', o, heap[hand], heap[o].result, heap[o].unknown)
    BY <1>1, <1>2, <1>6, <2>1, ClientAttaches
  <2>3. Turns(kind, heap, hand, heap', o, [v EXCEPT !["error"] = heap[hand]])
    BY <1>1, <1>6, <2>2, ClientWrapperSets
  <2>. QED
    BY <1>2, <1>3, <1>4, <1>6, <2>3, GiveStep, WrapperNames, WrapperFields
<1>. QED
  BY <1>5, <1>6 DEF SetAllocated, SWrapper, CWrapper

\* Whole messages.
LEMMA WholeStep ==
  ASSUME IInv, HeapOK(kind, heap', hand'), NEW o \in Roots
  PROVE  LET m == Objs(heap, spoiled)
             n == Objs(heap', spoiled')
         IN /\ ClearMessage(o) \/ Renew(o) => Abstract!Reset(m, n, o)
            /\ \A other \in Roots \ {o} :
                 /\ CopyConstruct(o, other) \/ CopyAssign(o, other) => Abstract!Copy(m, n, o, other)
                 /\ MergeFrom(o, other) => Abstract!Merge(m, n, o, other)
<1>. DEFINE m == Objs(heap, spoiled)
            n == Objs(heap', spoiled')
<1>1. kind \in P!Classes /\ HeapOK(kind, heap, hand)
  BY KindsAssumption DEF IInv
<1>2. ASSUME NEW v, Turns(kind, heap, hand, heap', o, v), hand' = hand,
             o \notin spoiled', spoiled' \ {o} = spoiled \ {o}
      PROVE  n = [m EXCEPT ![o] = v] /\ HandValue(heap', hand') = HandValue(heap, hand)
  BY <1>1, <1>2, ObjsTurn, HandKept DEF Turns
<1>3. ASSUME NEW p \in Roots, Fit(p)
      PROVE  m[p] = Value(heap, heap[p]) /\ m[p] # Abstract!Spoiled
  <2>1. m[p] = Value(heap, heap[p])
    BY <1>3 DEF Objs, Fit
  <2>. QED
    BY <1>1, <2>1, ValueFit DEF Abstract!Spoiled
<1>. HIDE DEF m, n
<1>4. ASSUME ClearMessage(o) \/ Renew(o) PROVE Abstract!Reset(m, n, o)
  <2>1. hand' = hand /\ o \notin spoiled' /\ spoiled' \ {o} = spoiled \ {o}
    BY <1>4 DEF ClearMessage, Renew
  <2>2. Turns(kind, heap, hand, heap', o, Abstract!Default(kind))
    <3>1. CASE ClearMessage(o)
      BY <1>1, <3>1, ClearTurns DEF ClearMessage
    <3>2. CASE Renew(o)
      BY <1>1, <3>2, RenewTurns, Zenon DEF Renew
    <3>. QED
      BY <1>4, <3>1, <3>2
  <2>3. n = [m EXCEPT ![o] = Abstract!Default(kind)] /\ HandValue(heap', hand') = HandValue(heap, hand)
    BY <1>2, <2>1, <2>2
  <2>. QED
    BY <2>3 DEF Abstract!Reset, HandValue
<1>5. ASSUME NEW other \in Roots \ {o}, CopyConstruct(o, other) \/ CopyAssign(o, other)
      PROVE  Abstract!Copy(m, n, o, other)
  <2>1. hand' = hand /\ o \notin spoiled' /\ spoiled' \ {o} = spoiled \ {o} /\ Fit(other)
    BY <1>5 DEF CopyConstruct, CopyAssign
  <2>2. Turns(kind, heap, hand, heap', o, Value(heap, heap[other]))
    <3>1. CASE CopyConstruct(o, other)
      <4>. DEFINE g == [Destroy(heap, o) EXCEPT ![o] = New(kind)]
      <4>1. HeapOK(kind, g, hand) /\ g[o] = New(kind)
        BY <1>1, RenewStays
      <4>2. Keeps(kind, heap, hand, g, o)
        BY <1>1, RenewTurns, Zenon DEF Turns
      <4>3. heap' = Construct(g, o, other)
        BY <3>1 DEF CopyConstruct
      <4>. HIDE DEF g
      <4>4. Turns(kind, g, hand, heap', o, Value(g, g[other]))
        BY <1>1, <4>1, <4>3, ConstructTurns
      <4>5. Value(g, g[other]) = Value(heap, heap[other])
        BY <1>1, <4>2, KeepsValue
      <4>. QED
        BY <4>2, <4>4, <4>5, KeepsOn DEF Turns
    <3>2. CASE CopyAssign(o, other)
      BY <1>1, <3>2, CopyTurns DEF CopyAssign
    <3>. QED
      BY <1>5, <3>1, <3>2
  <2>3. n = [m EXCEPT ![o] = m[other]] /\ HandValue(heap', hand') = HandValue(heap, hand)
    BY <1>2, <1>3, <2>1, <2>2
  <2>4. m[other] # Abstract!Spoiled
    BY <1>3, <2>1
  <2>. QED
    BY <2>3, <2>4 DEF Abstract!Copy, Abstract!Fit, HandValue
<1>6. ASSUME NEW other \in Roots \ {o}, MergeFrom(o, other)
      PROVE  Abstract!Merge(m, n, o, other)
  <2>1. hand' = hand /\ spoiled' = spoiled /\ Fit(o) /\ Fit(other)
    BY <1>6 DEF MergeFrom
  <2>2. Turns(kind, heap, hand, heap', o, Abstract!Merged(m[o], m[other]))
    BY <1>1, <1>3, <1>6, <2>1, MergeTurns DEF MergeFrom
  <2>3. o \notin spoiled' /\ spoiled' \ {o} = spoiled \ {o}
    BY <2>1 DEF Fit
  <2>4. n = [m EXCEPT ![o] = Abstract!Merged(m[o], m[other])]
        /\ HandValue(heap', hand') = HandValue(heap, hand)
    BY <1>2, <2>1, <2>2, <2>3
  <2>5. m[o] # Abstract!Spoiled /\ m[other] # Abstract!Spoiled
    BY <1>3, <2>1
  <2>. QED
    BY <2>4, <2>5 DEF Abstract!Merge, Abstract!Fit, HandValue
<1>. QED
  BY <1>4, <1>5, <1>6 DEF m, n

\* The value of a message shows its submessages, not where they are.
LEMMA ValueOfCells ==
  ASSUME NEW c \in P!Classes, NEW h, NEW hd, HeapOK(c, h, hd), NEW o \in Roots, NEW g,
         \A x \in Held(c) : h[o][x] # nullptr => g[h[o][x]] = h[h[o][x]]
  PROVE  Value(g, h[o]) = Value(h, h[o])
<1>1. Pointers(h[o]) = Held(c)
  BY RootPointers
<1>. QED
  BY <1>1 DEF Value

\* Swap exchanges two values.
LEMMA SwapStep ==
  ASSUME IInv, NEW o \in Roots, NEW other \in Roots \ {o}, SwapMessages(o, other)
  PROVE  Abstract!Swap(Objs(heap, spoiled), Objs(heap', spoiled'), o, other)
<1>. DEFINE m == Objs(heap, spoiled)
            n == Objs(heap', spoiled')
            r(p) == IF p = o THEN other ELSE IF p = other THEN o ELSE p
<1>1. kind \in P!Classes /\ HeapOK(kind, heap, hand)
  BY KindsAssumption DEF IInv
<1>2. /\ heap' = [heap EXCEPT ![o] = Exchanged(heap[o], heap[other]),
                              ![other] = Exchanged(heap[other], heap[o])]
      /\ spoiled' = {r(p) : p \in spoiled} /\ hand' = hand
  BY DEF SwapMessages
<1>3. heap' = [heap EXCEPT ![o] = heap[other], ![other] = heap[o]]
  BY <1>1, <1>2, Exchanges
<1>4. DOMAIN heap = Roots \cup Addr /\ Roots \cap Addr = {}
  BY <1>1, RootsAssumption DEF HeapOK, Heaps
<1>5. /\ \A p \in Roots : heap'[p] = heap[r(p)] /\ r(p) \in Roots
      /\ \A a \in Addr : heap'[a] = heap[a]
  <2>1. \A a \in Roots \cup Addr :
          heap'[a] = IF a = other THEN heap[o] ELSE IF a = o THEN heap[other] ELSE heap[a]
    BY <1>3, <1>4
  <2>. QED
    BY <1>4, <2>1
<1>6. \A p \in Roots : Value(heap', heap'[p]) = Value(heap, heap[r(p)])
  <2>1. ASSUME NEW p \in Roots PROVE Value(heap', heap[p]) = Value(heap, heap[p])
    <3>1. \A x \in Held(kind) : heap[p][x] # nullptr => heap[p][x] \in Addr
      BY <1>1 DEF HeapOK, PointersOK
    <3>. QED
      BY <1>1, <1>5, <3>1, ValueOfCells
  <2>. QED
    BY <1>5, <2>1
<1>7. \A p \in Roots : p \in spoiled' <=> r(p) \in spoiled
  <2>1. spoiled \subseteq Roots
    BY DEF IInv
  <2>. QED
    BY <1>2, <2>1
<1>. HIDE DEF r
<1>8. \A p \in Roots : n[p] = m[r(p)]
  BY <1>5, <1>6, <1>7 DEF Objs
<1>9. m = [p \in Roots |-> m[p]] /\ n = [p \in Roots |-> n[p]]
  BY DEF Objs
<1>. HIDE DEF m, n
<1>10. n = [m EXCEPT ![o] = m[other], ![other] = m[o]]
  BY <1>8, <1>9 DEF r
<1>11. HandValue(heap', hand') = HandValue(heap, hand)
  <2>1. hand # nullptr => hand \in Addr
    BY <1>1 DEF HeapOK, HandOK
  <2>. QED
    BY <1>2, <1>5, <2>1 DEF HandValue
<1>. QED
  BY <1>10, <1>11 DEF Abstract!Swap, HandValue, m, n

\* Deleting what was released changes no message.
LEMMA DropStep ==
  ASSUME IInv, DeleteReleased
  PROVE  Abstract!Drop(Objs(heap, spoiled), Objs(heap', spoiled'))
<1>1. kind \in P!Classes /\ HeapOK(kind, heap, hand)
  BY KindsAssumption DEF IInv
<1>2. hand # nullptr /\ heap' = [heap EXCEPT ![hand] = Free] /\ hand' = nullptr /\ spoiled' = spoiled
  BY DEF DeleteReleased, Delete
<1>3. /\ DOMAIN heap = Roots \cup Addr /\ Roots \cap Addr = {} /\ hand \in Addr
      /\ \A p \in Roots, x \in Held(kind) : heap[p][x] # hand
      /\ \A p \in Roots, x \in Held(kind) : heap[p][x] # nullptr => heap[p][x] \in Addr
  BY <1>1, <1>2, RootsAssumption DEF HeapOK, Heaps, HandOK, PointersOK
<1>4. \A a \in (Roots \cup Addr) \ {hand} : heap'[a] = heap[a]
  BY <1>2, <1>3
<1>5. ASSUME NEW p \in Roots PROVE Value(heap', heap'[p]) = Value(heap, heap[p])
  <2>1. heap'[p] = heap[p]
    BY <1>3, <1>4
  <2>2. \A x \in Held(kind) : heap[p][x] # nullptr => heap'[heap[p][x]] = heap[heap[p][x]]
    BY <1>3, <1>4
  <2>. QED
    BY <1>1, <2>1, <2>2, ValueOfCells
<1>6. Objs(heap', spoiled') = Objs(heap, spoiled)
  BY <1>2, <1>5 DEF Objs
<1>. QED
  BY <1>2, <1>6, SameSchema DEF Abstract!Drop

\* A parse, which no other message and no submessage a caller owns shows.
TransferAlone ==
  /\ \E o \in Roots, from \in Senders :
       /\ Transfer(o, from)
       /\ \A p \in Roots \ {o} : Objs(heap', spoiled')[p] = Objs(heap, spoiled)[p]
  /\ HandValue(heap', hand') = HandValue(heap, hand)
  /\ kind' = kind

\* A parse into o shows in no other message.
LEMMA TransferStep ==
  ASSUME IInv, NEW o \in Roots, NEW from \in Senders, Transfer(o, from)
  PROVE  /\ \A p \in Roots \ {o} : Objs(heap', spoiled')[p] = Objs(heap, spoiled)[p]
         /\ HandValue(heap', hand') = HandValue(heap, hand)
<1>1. kind \in P!Classes /\ HeapOK(kind, heap, hand)
  BY KindsAssumption DEF IInv
<1>2. PICK w \in Arriving(Sent(from)) : heap' = ParseInto(heap, o, w).heap
  BY DEF Transfer
<1>3. w \in Seq(Written(kind))
  BY <1>1, SentStays, ArrivingStays
<1>4. Keeps(kind, heap, hand, heap', o)
  BY <1>1, <1>2, <1>3, ParseIntoKeeps
<1>5. hand' = hand /\ \A p \in Roots \ {o} : p \in spoiled' <=> p \in spoiled
  BY DEF Transfer
<1>6. \A p \in Roots \ {o} : Value(heap', heap'[p]) = Value(heap, heap[p])
  BY <1>1, <1>4, KeepsValue
<1>7. HandValue(heap', hand') = HandValue(heap, hand)
  BY <1>4, <1>5, HandKept
<1>. QED
  BY <1>5, <1>6, <1>7 DEF Objs

\* The messages start as the defaults.
LEMMA InitOnValues == Init => Abstract!Init
<1>. SUFFICES ASSUME Init PROVE Abstract!Init
  OBVIOUS
<1>1. kind \in Kinds /\ hand = nullptr /\ spoiled = {} /\ \A o \in Roots : heap[o] = New(kind)
  BY DEF Init
<1>2. kind \in P!Classes /\ HeapOK(kind, heap, hand)
  BY InitHolds, KindsAssumption DEF IInv
<1>3. ASSUME NEW o \in Roots PROVE Value(heap, heap[o]) = Abstract!Default(kind)
  <2>1. CASE kind \in PlainClasses
    <3>1. New(kind) = Abstract!Default(kind)
      BY <1>2, <2>1, PlainMeans DEF Means
    <3>2. Value(heap, heap[o]) = heap[o]
      BY <1>2, <2>1, PlainValue
    <3>. QED
      BY <1>1, <3>1, <3>2
  <2>2. CASE kind = SWrapper
    <3>1. heap[o] = OTServerResponseWrapper_New
      BY <1>1, <2>2 DEF New, SWrapper
    <3>2. heap[o].error = nullptr /\ heap[o].result = nullptr /\ heap[o].unknown = <<>>
      BY <3>1 DEF OTServerResponseWrapper_New
    <3>. QED
      BY <1>2, <2>2, <3>2, ServerMeans, WrapperDefaults DEF Sub
  <2>3. CASE kind = CWrapper
    <3>1. heap[o] = OTClientResponseWrapper_New
      BY <1>1, <2>3 DEF New, CWrapper
    <3>2. heap[o].error = nullptr /\ heap[o].result = <<>> /\ heap[o].unknown = <<>>
      BY <3>1 DEF OTClientResponseWrapper_New
    <3>. QED
      BY <1>2, <2>3, <3>2, ClientMeans, WrapperDefaults DEF Sub
  <2>. QED
    BY <1>2, <2>1, <2>2, <2>3, ClassesKnown
<1>4. Objs(heap, spoiled) = [o \in Roots |-> Abstract!Default(kind)]
  BY <1>1, <1>3 DEF Objs
<1>. QED
  BY <1>1, <1>4, SameSchema DEF Abstract!Init, Objs

\* Every step but a parse is a step of the abstract specification.
LEMMA NextOnValues ==
  ASSUME IInv, IInv', Next
  PROVE  Abstract!Next \/ TransferAlone
<1>1. kind' = kind /\ HeapOK(kind, heap', hand')
  BY DEF Next, IInv
<1>. DEFINE m == Objs(heap, spoiled)
            n == Objs(heap', spoiled')
<1>2. ASSUME NEW o \in Roots, Access(o) \/ MutableError(o) \/ MutableResult(o) \/ ClearSub(o)
      PROVE  Abstract!Set(m, n, o)
  <2>1. hand' = hand
    BY <1>2 DEF Access, MutableError, MutableResult, Mutate, ClearSub
  <2>. QED
    BY <1>1, <1>2, <2>1, SettersStep
<1>3. ASSUME NEW o \in Roots, Release(o) PROVE Abstract!Take(m, n, o)
  BY <1>1, <1>3, ReleaseStep
<1>4. ASSUME NEW o \in Roots, SetAllocated(o) PROVE Abstract!Give(m, n, o)
  BY <1>1, <1>4, SetAllocatedStep
<1>5. ASSUME NEW o \in Roots, ClearMessage(o) \/ Renew(o) PROVE Abstract!Reset(m, n, o)
  BY <1>1, <1>5, WholeStep
<1>6. ASSUME NEW o \in Roots, NEW other \in Roots \ {o},
             CopyConstruct(o, other) \/ CopyAssign(o, other)
      PROVE  Abstract!Copy(m, n, o, other)
  BY <1>1, <1>6, WholeStep
<1>7. ASSUME NEW o \in Roots, NEW other \in Roots \ {o}, MergeFrom(o, other)
      PROVE  Abstract!Merge(m, n, o, other)
  BY <1>1, <1>7, WholeStep
<1>8. ASSUME NEW o \in Roots, NEW other \in Roots \ {o}, SwapMessages(o, other)
      PROVE  Abstract!Swap(m, n, o, other)
  BY <1>8, SwapStep
<1>9. ASSUME DeleteReleased PROVE Abstract!Drop(m, n)
  BY <1>9, DropStep
<1>10. ASSUME NEW o \in Roots, NEW from \in Senders, Transfer(o, from) PROVE TransferAlone
  BY <1>1, <1>10, TransferStep DEF TransferAlone
<1>. HIDE DEF m, n
<1>11. \/ \E o \in Roots : \/ Access(o) \/ MutableError(o) \/ MutableResult(o) \/ ClearSub(o)
                           \/ Release(o) \/ SetAllocated(o) \/ ClearMessage(o) \/ Renew(o)
       \/ \E o \in Roots : \E from \in Senders : Transfer(o, from)
       \/ \E o \in Roots : \E other \in Roots \ {o} :
            \/ CopyConstruct(o, other) \/ CopyAssign(o, other)
            \/ MergeFrom(o, other) \/ SwapMessages(o, other)
       \/ DeleteReleased
  BY Zenon DEF Next
<1>12. \/ TransferAlone
       \/ Abstract!Drop(m, n)
       \/ \E o \in Roots : Abstract!Set(m, n, o) \/ Abstract!Take(m, n, o)
                             \/ Abstract!Give(m, n, o) \/ Abstract!Reset(m, n, o)
       \/ \E o, p \in Roots : Abstract!Merge(m, n, o, p) \/ Abstract!Copy(m, n, o, p)
                                \/ Abstract!Swap(m, n, o, p)
  BY <1>2, <1>3, <1>4, <1>5, <1>6, <1>7, <1>8, <1>9, <1>10, <1>11
<1>. QED
  BY <1>1, <1>12, AbstractStep DEF m, n

\* The classes are values behind their pointers, operation by operation: a setter
\* sets one field, release_ and set_allocated_ move a submessage between a message
\* and the caller, Clear, copy, merge and swap are those of the values, whoever
\* shares a heap with them, and a parse shows in the message parsed into only.
\* What a parse leaves there is checked, in ImplementsProto.
THEOREM OperationsOnValues ==
  Spec => Abstract!Init /\ [][Abstract!Next \/ TransferAlone]_vars
<1>1. Init => Abstract!Init
  BY InitOnValues
<1>2. IInv /\ IInv' /\ [Next]_vars => [Abstract!Next \/ TransferAlone]_vars
  BY NextOnValues
<1>. QED
  BY <1>1, <1>2, HeapInOrder, PTL DEF Spec
=============================================================================
