--------------------------- MODULE WrapperMessages ---------------------------
(***************************************************************************)
(* The generated classes that own submessages through plain pointers:      *)
(* OTServerResponseWrapper (error_, result_) and OTClientResponseWrapper   *)
(* (error_).                                                               *)
(*                                                                         *)
(* A heap maps an address to a message, or to Free.  An operation takes    *)
(* the heap and the address of this, and is the heap it leaves.            *)
(***************************************************************************)
EXTENDS OTMessages

CONSTANT Addr   \* addresses: a set of numbers without 0
ASSUME AddrAssumption == Addr \subseteq Nat \ {0}

nullptr == 0
Free == [class |-> "free"]

\* new and delete.  The first free address is taken; delete of nullptr does nothing.
Unused(h) == CHOOSE a \in Addr : h[a] = Free /\ \A b \in Addr : h[b] = Free => a <= b
Delete(h, p) == IF p = nullptr THEN h ELSE [h EXCEPT ![p] = Free]

\* What a parse of a submessage leaves at p.
ParseAt(h, p, w) ==
  LET parsed == Parsed(h[p], w) IN [heap |-> [h EXCEPT ![p] = parsed.msg], ok |-> parsed.ok]

HeapUnknown(h, this, f) == [heap |-> [h EXCEPT ![this].unknown = Append(@, f)], ok |-> TRUE]

-----------------------------------------------------------------------------
\* OTServerResponseWrapper

OTServerResponseWrapper_New ==
  [class |-> "OTServerResponseWrapper", error |-> nullptr, result |-> nullptr, unknown |-> <<>>]

OTServerResponseWrapper_clear_error(h, this) ==
  [Delete(h, h[this].error) EXCEPT ![this].error = nullptr]

\* The caller owns what error_ pointed to.
OTServerResponseWrapper_release_error(h, this) == [h EXCEPT ![this].error = nullptr]

OTServerResponseWrapper_mutable_error(h, this) ==
  IF h[this].error # nullptr THEN h
  ELSE LET p == Unused(h) IN [h EXCEPT ![p] = Error_New, ![this].error = p]

OTServerResponseWrapper_set_allocated_error(h, this, error) ==
  [Delete(h, h[this].error) EXCEPT ![this].error = error]

OTServerResponseWrapper_clear_result(h, this) ==
  [Delete(h, h[this].result) EXCEPT ![this].result = nullptr]

OTServerResponseWrapper_release_result(h, this) == [h EXCEPT ![this].result = nullptr]

OTServerResponseWrapper_mutable_result(h, this) ==
  IF h[this].result # nullptr THEN h
  ELSE LET p == Unused(h) IN [h EXCEPT ![p] = OTServerResponse_New, ![this].result = p]

OTServerResponseWrapper_set_allocated_result(h, this, result) ==
  [Delete(h, h[this].result) EXCEPT ![this].result = result]

\* Variant: the copy shares the submessages of the original.
OTServerResponseWrapper_ConstructShallow(h, this, from) ==
  [h EXCEPT ![this] = [OTServerResponseWrapper_New EXCEPT !.unknown = h[from].unknown,
                                                         !.error = h[from].error,
                                                         !.result = h[from].result]]

OTServerResponseWrapper_Construct(h, this, from) ==
  LET fresh == [h EXCEPT ![this] = [OTServerResponseWrapper_New EXCEPT
                                      !.unknown = h[from].unknown]]
      p == Unused(fresh)
      copied == IF h[from].error = nullptr THEN fresh
                ELSE [fresh EXCEPT ![p] = Error_Construct(h[h[from].error]), ![this].error = p]
      q == Unused(copied)
  IN IF h[from].result = nullptr THEN copied
     ELSE [copied EXCEPT ![q] = OTServerResponse_Construct(h[h[from].result]),
                         ![this].result = q]

\* The destructor.
OTServerResponseWrapper_SharedDtor(h, this) ==
  Delete(Delete(h, h[this].error), h[this].result)

\* Variant: the submessages are deleted, the pointers are kept.
OTServerResponseWrapper_ClearKeeping(h, this) ==
  [Delete(Delete(h, h[this].error), h[this].result) EXCEPT ![this].unknown = <<>>]

OTServerResponseWrapper_Clear(h, this) ==
  [Delete(Delete(h, h[this].error), h[this].result) EXCEPT
     ![this].error = nullptr, ![this].result = nullptr, ![this].unknown = <<>>]

OTServerResponseWrapper_Field(h, this, f) ==
  LET withError == OTServerResponseWrapper_mutable_error(h, this)
      withResult == OTServerResponseWrapper_mutable_result(h, this)
  IN CASE f.tag = 10 -> ParseAt(withError, withError[this].error, f.sub)
       [] f.tag = 18 -> ParseAt(withResult, withResult[this].result, f.sub)
       [] OTHER      -> HeapUnknown(h, this, f)

OTServerResponseWrapper_Serialize(h, m) ==
  (IF m.error = nullptr THEN <<>>
   ELSE <<Message(10, Error_Serialize(h[m.error]), Error_ByteSizeLong(h[m.error]))>>)
    \o (IF m.result = nullptr THEN <<>>
        ELSE <<Message(18, OTServerResponse_Serialize(h[m.result]),
                           OTServerResponse_ByteSizeLong(h[m.result]))>>)
    \o m.unknown

OTServerResponseWrapper_ByteSizeLong(h, m) ==
  (IF m.error = nullptr THEN 0 ELSE 1 + MessageSize(Error_ByteSizeLong(h[m.error])))
    + (IF m.result = nullptr THEN 0
       ELSE 1 + MessageSize(OTServerResponse_ByteSizeLong(h[m.result])))
    + WireSize(m.unknown)

OTServerResponseWrapper_MergeFrom(h, this, from) ==
  LET withError == OTServerResponseWrapper_mutable_error(h, this)
      error == IF h[from].error = nullptr THEN h
               ELSE [withError EXCEPT ![withError[this].error] =
                                        Error_MergeFrom(@, h[h[from].error])]
      withResult == OTServerResponseWrapper_mutable_result(error, this)
      result == IF h[from].result = nullptr THEN error
                ELSE [withResult EXCEPT ![withResult[this].result] =
                                          OTServerResponse_MergeFrom(@, h[h[from].result])]
  IN [result EXCEPT ![this].unknown = @ \o h[from].unknown]

OTServerResponseWrapper_CopyFrom(h, this, from) ==
  OTServerResponseWrapper_MergeFrom(OTServerResponseWrapper_Clear(h, this), this, from)

\* The pointers change hands, not what they point to.
OTServerResponseWrapper_Swap(m, other) ==
  [m EXCEPT !.unknown = other.unknown, !.error = other.error, !.result = other.result]

-----------------------------------------------------------------------------
\* OTClientResponseWrapper

OTClientResponseWrapper_New ==
  [class |-> "OTClientResponseWrapper", result |-> <<>>, error |-> nullptr, unknown |-> <<>>]

OTClientResponseWrapper_clear_error(h, this) ==
  [Delete(h, h[this].error) EXCEPT ![this].error = nullptr]

OTClientResponseWrapper_release_error(h, this) == [h EXCEPT ![this].error = nullptr]

OTClientResponseWrapper_mutable_error(h, this) ==
  IF h[this].error # nullptr THEN h
  ELSE LET p == Unused(h) IN [h EXCEPT ![p] = Error_New, ![this].error = p]

OTClientResponseWrapper_set_allocated_error(h, this, error) ==
  [Delete(h, h[this].error) EXCEPT ![this].error = error]

\* The accessors of result: add_result filled in, one changed, the last removed, none.
OTClientResponseWrapper_Results(m) ==
  {<<>>} \cup {SubSeq(m.result, 1, Len(m.result) - 1) : last \in DOMAIN m.result}
         \cup (UNION {Add(m.result, r) : r \in OTClientResponse_Accessors(OTClientResponse_New)})
         \cup UNION {{[m.result EXCEPT ![i] = r] : r \in OTClientResponse_Accessors(m.result[i])} :
                        i \in DOMAIN m.result}

OTClientResponseWrapper_Construct(h, this, from) ==
  LET fresh == [h EXCEPT ![this] = [OTClientResponseWrapper_New EXCEPT
                                      !.unknown = h[from].unknown, !.result = h[from].result]]
      p == Unused(fresh)
  IN IF h[from].error = nullptr THEN fresh
     ELSE [fresh EXCEPT ![p] = Error_Construct(h[h[from].error]), ![this].error = p]

OTClientResponseWrapper_SharedDtor(h, this) == Delete(h, h[this].error)

OTClientResponseWrapper_Clear(h, this) ==
  [Delete(h, h[this].error) EXCEPT ![this].result = <<>>, ![this].error = nullptr,
                                   ![this].unknown = <<>>]

OTClientResponseWrapper_Field(h, this, f) ==
  LET withError == OTClientResponseWrapper_mutable_error(h, this)
      added == Parsed(OTClientResponse_New, f.sub)
  IN CASE f.tag = 10 -> ParseAt(withError, withError[this].error, f.sub)
       [] f.tag = 18 -> [heap |-> [h EXCEPT ![this].result = Append(@, added.msg)],
                         ok   |-> added.ok]
       [] OTHER      -> HeapUnknown(h, this, f)

OTClientResponseWrapper_Serialize(h, m) ==
  (IF m.error = nullptr THEN <<>>
   ELSE <<Message(10, Error_Serialize(h[m.error]), Error_ByteSizeLong(h[m.error]))>>)
    \o Each(LAMBDA r : Message(18, OTClientResponse_Serialize(r),
                                   OTClientResponse_ByteSizeLong(r)), m.result)
    \o m.unknown

OTClientResponseWrapper_ByteSizeLong(h, m) ==
  Len(m.result) + SumOf(LAMBDA r : MessageSize(OTClientResponse_ByteSizeLong(r)), m.result)
    + (IF m.error = nullptr THEN 0 ELSE 1 + MessageSize(Error_ByteSizeLong(h[m.error])))
    + WireSize(m.unknown)

OTClientResponseWrapper_MergeFrom(h, this, from) ==
  LET withError == OTClientResponseWrapper_mutable_error(h, this)
      error == IF h[from].error = nullptr THEN h
               ELSE [withError EXCEPT ![withError[this].error] =
                                        Error_MergeFrom(@, h[h[from].error])]
  IN [error EXCEPT ![this].result = @ \o h[from].result, ![this].unknown = @ \o h[from].unknown]

OTClientResponseWrapper_CopyFrom(h, this, from) ==
  OTClientResponseWrapper_MergeFrom(OTClientResponseWrapper_Clear(h, this), this, from)

OTClientResponseWrapper_Swap(m, other) ==
  [m EXCEPT !.unknown = other.unknown, !.result = other.result, !.error = other.error]

-----------------------------------------------------------------------------
Wrappers == {"OTServerResponseWrapper", "OTClientResponseWrapper"}

\* The loop of _InternalParse.
WrapperField(h, this, f) ==
  IF h[this].class = "OTServerResponseWrapper" THEN OTServerResponseWrapper_Field(h, this, f)
  ELSE OTClientResponseWrapper_Field(h, this, f)

HeapParse(h, this, w) ==
  LET next(r, f) == IF ~r.ok THEN r
                    ELSE IF ~Whole(f) THEN [r EXCEPT !.ok = FALSE]
                    ELSE WrapperField(r.heap, this, f)
  IN Along(next, [heap |-> h, ok |-> TRUE], w)
=============================================================================
