----------------------------- MODULE ProtoSchema -----------------------------
(***************************************************************************)
(* What proto/mmdcotservicehttpbroker.proto says of the messages, and what *)
(* proto3 promises for such a schema: the default of a field, the merge of *)
(* two messages, and the pieces a serialized message consists of.          *)
(*                                                                         *)
(* Nothing here looks at the generated classes; ProtoMessages states with  *)
(* it what they must do.                                                   *)
(***************************************************************************)
EXTENDS Integers, Sequences, SequencesExt

\* Field numbers are the positions.
one(type, name)      == [label |-> "one", type |-> type, name |-> name]
repeated(type, name) == [label |-> "repeated", type |-> type, name |-> name]
map(type, name)      == [label |-> "map", type |-> type, name |-> name]

Schema ==
  [Response |->
     <<one("uint32", "code"), one("string", "message"), one("float", "reqTimeMillis"),
       one("string", "data")>>,
   Error |-> <<one("uint32", "code"), one("string", "message")>>,
   OTServiceData |-> <<one("string", "value")>>,
   Bytes |-> <<repeated("uint32", "bts")>>,
   OTServerRequest |->
     <<one("string", "function"), one("uint32", "sessionToken"), one("uint32", "k"),
       repeated("string", "keys"), repeated("Bytes", "bytes")>>,
   OTServerResponse |->
     <<one("string", "function"), repeated("string", "values"), repeated("Bytes", "bytes")>>,
   OTServerResponseWrapper |-> <<one("Error", "error"), one("OTServerResponse", "result")>>,
   OTClientRequest |-> <<one("string", "function"), map("uint32", "uinWithLabelMap")>>,
   Fields |-> <<map("string", "msg")>>,
   OTClientResponse |->
     <<one("string", "function"), one("float", "reqTimeMillis"), map("string", "resMap")>>,
   OTClientResponseWrapper |-> <<one("Error", "error"), repeated("OTClientResponse", "result")>>]

Classes == DOMAIN Schema
None    == [class |-> "none"]   \* a message field that is not there

Fields(c)   == ToSet(Schema[c])
Names(c)    == {f.name : f \in Fields(c)}
FieldOf(c, x) == CHOOSE f \in Fields(c) : f.name = x
IsMessage(f)  == f.type \in Classes
IsOptional(f) == f.label = "one" /\ IsMessage(f)

DefaultOf(f) ==
  IF f.label # "one" \/ f.type = "string" THEN <<>>
  ELSE IF IsMessage(f) THEN None ELSE 0

Default(c) ==
  [x \in {"class", "unknown"} \cup Names(c) |->
     CASE x = "class"   -> c
       [] x = "unknown" -> <<>>
       [] OTHER         -> DefaultOf(FieldOf(c, x))]

-----------------------------------------------------------------------------
\* Merging: what is set replaces, repeated fields and unknown ones are
\* appended, map entries go over those there, messages are merged in turn.

Over(f, u, v) ==
  CASE f.label = "repeated" -> u \o v
    [] f.label = "map"      -> [k \in DOMAIN u \cup DOMAIN v |->
                                  IF k \in DOMAIN v THEN v[k] ELSE u[k]]
    [] OTHER                -> IF v = DefaultOf(f) THEN u ELSE v

MergedBy(over(_, _, _), a, b) ==
  [x \in DOMAIN a |->
     CASE x = "class"   -> a[x]
       [] x = "unknown" -> a[x] \o b[x]
       [] OTHER         -> over(FieldOf(a.class, x), a[x], b[x])]

\* No message field holds a message with message fields that are not repeated.
Merged(a, b) ==
  LET within(f, u, v) ==
        IF IsOptional(f) /\ u # None /\ v # None
        THEN MergedBy(Over, u, v) ELSE Over(f, u, v)
  IN MergedBy(within, a, b)

-----------------------------------------------------------------------------
\* A serialized message is, in the order of the field numbers, one piece for
\* each value it holds; numbers that are repeated are packed into one.  A
\* piece is the message that holds nothing else.

Piece(c, x, v) == [Default(c) EXCEPT ![x] = v]

PiecesOf(v, f) ==
  LET here == v[f.name]
      keys == SetToSeq(DOMAIN here)
      packed == f.label = "repeated" /\ f.type = "uint32"
  IN IF here = DefaultOf(f) THEN <<>>
     ELSE IF f.label = "one" \/ packed THEN <<Piece(v.class, f.name, here)>>
     ELSE IF f.label = "repeated" THEN [i \in DOMAIN here |-> Piece(v.class, f.name, <<here[i]>>)]
     ELSE [i \in DOMAIN keys |-> Piece(v.class, f.name, [k \in {keys[i]} |-> here[k]])]

Pieces(v) ==
  FoldLeft(LAMBDA all, f : all \o PiecesOf(v, f), <<>>, Schema[v.class])
    \o [i \in DOMAIN v.unknown |-> Piece(v.class, "unknown", <<v.unknown[i]>>)]

\* A number nobody here writes under field number 1, as a class reads it.
NumberPiece(c, field) ==
  LET f == Schema[c][1]
  IN IF f.type # "uint32" THEN Piece(c, "unknown", <<field>>)
     ELSE Piece(c, f.name, IF f.label = "one" THEN field.n ELSE <<field.n>>)

\* Strings are UTF-8 in proto3: a reader refuses others.
IsText(s) == \A i \in DOMAIN s : s[i] < 128

TextsOf(v, f) ==
  IF f.type # "string" THEN {}
  ELSE CASE f.label = "one" -> {v[f.name]}
         [] f.label = "map" -> UNION {{k, v[f.name][k]} : k \in DOMAIN v[f.name]}
         [] OTHER           -> ToSet(v[f.name])

Inner(v, f) ==
  IF ~IsMessage(f) THEN {}
  ELSE IF f.label = "one" THEN {v[f.name]} \ {None} ELSE ToSet(v[f.name])

TextsIn(v)  == UNION {TextsOf(v, f) : f \in Fields(v.class)}
Readable(v) ==
  \A t \in TextsIn(v) \cup UNION {UNION {TextsIn(m) : m \in Inner(v, f)} : f \in Fields(v.class)} :
    IsText(t)
=============================================================================
