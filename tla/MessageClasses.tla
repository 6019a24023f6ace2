--------------------------- MODULE MessageClasses ---------------------------
(***************************************************************************)
(* The virtual calls of google::protobuf::Message: which generated class   *)
(* answers.  Plain messages are replaced in the heap, wrappers work on it. *)
(***************************************************************************)
EXTENDS WrapperMessages

New(c) ==
  CASE c = "Response"                -> Response_New
    [] c = "Error"                   -> Error_New
    [] c = "OTServiceData"           -> OTServiceData_New
    [] c = "Bytes"                   -> Bytes_New
    [] c = "Fields"                  -> Fields_New
    [] c = "OTServerRequest"         -> OTServerRequest_New
    [] c = "OTServerResponse"        -> OTServerResponse_New
    [] c = "OTClientRequest"         -> OTClientRequest_New
    [] c = "OTClientResponse"        -> OTClientResponse_New
    [] c = "OTServerResponseWrapper" -> OTServerResponseWrapper_New
    [] c = "OTClientResponseWrapper" -> OTClientResponseWrapper_New

Construct(h, this, from) ==
  LET m == h[from]
      value == CASE m.class = "Response"         -> Response_Construct(m)
                 [] m.class = "Error"            -> Error_Construct(m)
                 [] m.class = "OTServiceData"    -> OTServiceData_Construct(m)
                 [] m.class = "Bytes"            -> Bytes_Construct(m)
                 [] m.class = "Fields"           -> Fields_Construct(m)
                 [] m.class = "OTServerRequest"  -> OTServerRequest_Construct(m)
                 [] m.class = "OTServerResponse" -> OTServerResponse_Construct(m)
                 [] m.class = "OTClientRequest"  -> OTClientRequest_Construct(m)
                 [] m.class = "OTClientResponse" -> OTClientResponse_Construct(m)
  IN CASE m.class = "OTServerResponseWrapper" -> OTServerResponseWrapper_Construct(h, this, from)
       [] m.class = "OTClientResponseWrapper" -> OTClientResponseWrapper_Construct(h, this, from)
       [] OTHER                               -> [h EXCEPT ![this] = value]

\* What SharedDtor deletes.  The memory of the root itself is the caller's.
Destroy(h, this) ==
  CASE h[this].class = "OTServerResponseWrapper" -> OTServerResponseWrapper_SharedDtor(h, this)
    [] h[this].class = "OTClientResponseWrapper" -> OTClientResponseWrapper_SharedDtor(h, this)
    [] OTHER                                     -> h

ClearAt(h, this) ==
  LET m == h[this]
      value == CASE m.class = "Response"         -> Response_Clear(m)
                 [] m.class = "Error"            -> Error_Clear(m)
                 [] m.class = "OTServiceData"    -> OTServiceData_Clear(m)
                 [] m.class = "Bytes"            -> Bytes_Clear(m)
                 [] m.class = "Fields"           -> Fields_Clear(m)
                 [] m.class = "OTServerRequest"  -> OTServerRequest_Clear(m)
                 [] m.class = "OTServerResponse" -> OTServerResponse_Clear(m)
                 [] m.class = "OTClientRequest"  -> OTClientRequest_Clear(m)
                 [] m.class = "OTClientResponse" -> OTClientResponse_Clear(m)
  IN CASE m.class = "OTServerResponseWrapper" -> OTServerResponseWrapper_Clear(h, this)
       [] m.class = "OTClientResponseWrapper" -> OTClientResponseWrapper_Clear(h, this)
       [] OTHER                               -> [h EXCEPT ![this] = value]

MergeAt(h, this, from) ==
  LET m == h[this]
      f == h[from]
      value == CASE m.class = "Response"         -> Response_MergeFrom(m, f)
                 [] m.class = "Error"            -> Error_MergeFrom(m, f)
                 [] m.class = "OTServiceData"    -> OTServiceData_MergeFrom(m, f)
                 [] m.class = "Bytes"            -> Bytes_MergeFrom(m, f)
                 [] m.class = "Fields"           -> Fields_MergeFrom(m, f)
                 [] m.class = "OTServerRequest"  -> OTServerRequest_MergeFrom(m, f)
                 [] m.class = "OTServerResponse" -> OTServerResponse_MergeFrom(m, f)
                 [] m.class = "OTClientRequest"  -> OTClientRequest_MergeFrom(m, f)
                 [] m.class = "OTClientResponse" -> OTClientResponse_MergeFrom(m, f)
  IN CASE m.class = "OTServerResponseWrapper" -> OTServerResponseWrapper_MergeFrom(h, this, from)
       [] m.class = "OTClientResponseWrapper" -> OTClientResponseWrapper_MergeFrom(h, this, from)
       [] OTHER                               -> [h EXCEPT ![this] = value]

CopyAt(h, this, from) ==
  LET m == h[this]
      f == h[from]
      value == CASE m.class = "Response"         -> Response_CopyFrom(m, f)
                 [] m.class = "Error"            -> Error_CopyFrom(m, f)
                 [] m.class = "OTServiceData"    -> OTServiceData_CopyFrom(m, f)
                 [] m.class = "Bytes"            -> Bytes_CopyFrom(m, f)
                 [] m.class = "Fields"           -> Fields_CopyFrom(m, f)
                 [] m.class = "OTServerRequest"  -> OTServerRequest_CopyFrom(m, f)
                 [] m.class = "OTServerResponse" -> OTServerResponse_CopyFrom(m, f)
                 [] m.class = "OTClientRequest"  -> OTClientRequest_CopyFrom(m, f)
                 [] m.class = "OTClientResponse" -> OTClientResponse_CopyFrom(m, f)
  IN CASE m.class = "OTServerResponseWrapper" -> OTServerResponseWrapper_CopyFrom(h, this, from)
       [] m.class = "OTClientResponseWrapper" -> OTClientResponseWrapper_CopyFrom(h, this, from)
       [] OTHER                               -> [h EXCEPT ![this] = value]

Exchanged(m, other) ==
  CASE m.class = "Response"                -> Response_Swap(m, other)
    [] m.class = "Error"                   -> Error_Swap(m, other)
    [] m.class = "OTServiceData"           -> OTServiceData_Swap(m, other)
    [] m.class = "Bytes"                   -> Bytes_Swap(m, other)
    [] m.class = "Fields"                  -> Fields_Swap(m, other)
    [] m.class = "OTServerRequest"         -> OTServerRequest_Swap(m, other)
    [] m.class = "OTServerResponse"        -> OTServerResponse_Swap(m, other)
    [] m.class = "OTClientRequest"         -> OTClientRequest_Swap(m, other)
    [] m.class = "OTClientResponse"        -> OTClientResponse_Swap(m, other)
    [] m.class = "OTServerResponseWrapper" -> OTServerResponseWrapper_Swap(m, other)
    [] m.class = "OTClientResponseWrapper" -> OTClientResponseWrapper_Swap(m, other)

\* ParseFromString: cleared, then read.
ParseInto(h, this, w) ==
  LET cleared == ClearAt(h, this)
      parsed == Parsed(cleared[this], w)
  IN IF h[this].class \in Wrappers THEN HeapParse(cleared, this, w)
     ELSE [heap |-> [cleared EXCEPT ![this] = parsed.msg], ok |-> parsed.ok]

Serialized(h, m) ==
  CASE m.class = "Response"                -> Response_Serialize(m)
    [] m.class = "Error"                   -> Error_Serialize(m)
    [] m.class = "OTServiceData"           -> OTServiceData_Serialize(m)
    [] m.class = "Bytes"                   -> Bytes_Serialize(m)
    [] m.class = "Fields"                  -> Fields_Serialize(m)
    [] m.class = "OTServerRequest"         -> OTServerRequest_Serialize(m)
    [] m.class = "OTServerResponse"        -> OTServerResponse_Serialize(m)
    [] m.class = "OTClientRequest"         -> OTClientRequest_Serialize(m)
    [] m.class = "OTClientResponse"        -> OTClientResponse_Serialize(m)
    [] m.class = "OTServerResponseWrapper" -> OTServerResponseWrapper_Serialize(h, m)
    [] m.class = "OTClientResponseWrapper" -> OTClientResponseWrapper_Serialize(h, m)

ByteSizeLong(h, m) ==
  CASE m.class = "Response"                -> Response_ByteSizeLong(m)
    [] m.class = "Error"                   -> Error_ByteSizeLong(m)
    [] m.class = "OTServiceData"           -> OTServiceData_ByteSizeLong(m)
    [] m.class = "Bytes"                   -> Bytes_ByteSizeLong(m)
    [] m.class = "Fields"                  -> Fields_ByteSizeLong(m)
    [] m.class = "OTServerRequest"         -> OTServerRequest_ByteSizeLong(m)
    [] m.class = "OTServerResponse"        -> OTServerResponse_ByteSizeLong(m)
    [] m.class = "OTClientRequest"         -> OTClientRequest_ByteSizeLong(m)
    [] m.class = "OTClientResponse"        -> OTClientResponse_ByteSizeLong(m)
    [] m.class = "OTServerResponseWrapper" -> OTServerResponseWrapper_ByteSizeLong(h, m)
    [] m.class = "OTClientResponseWrapper" -> OTClientResponseWrapper_ByteSizeLong(h, m)

\* The messages one accessor away; of a wrapper, those of what is not a pointer.
Accessors(m) ==
  CASE m.class = "Response"                -> Response_Accessors(m)
    [] m.class = "Error"                   -> Error_Accessors(m)
    [] m.class = "OTServiceData"           -> OTServiceData_Accessors(m)
    [] m.class = "Bytes"                   -> Bytes_Accessors(m)
    [] m.class = "Fields"                  -> Fields_Accessors(m)
    [] m.class = "OTServerRequest"         -> OTServerRequest_Accessors(m)
    [] m.class = "OTServerResponse"        -> OTServerResponse_Accessors(m)
    [] m.class = "OTClientRequest"         -> OTClientRequest_Accessors(m)
    [] m.class = "OTClientResponse"        -> OTClientResponse_Accessors(m)
    [] m.class = "OTServerResponseWrapper" -> {}
    [] m.class = "OTClientResponseWrapper" ->
         {[m EXCEPT !.result = seq] : seq \in OTClientResponseWrapper_Results(m)}
=============================================================================
