--------------------------- MODULE MessageObjects ---------------------------
(***************************************************************************)
(* Two protobuf messages of one generated class, everything the program    *)
(* can do with them, and the wire between the one and the other.           *)
(*                                                                         *)
(* JSON, which the broker client sends, is the runtime's translation of    *)
(* that wire: MessageToJsonString serializes, JsonStringToMessage parses.  *)
(*                                                                         *)
(* Messages live in a heap: the two roots are on the caller's stack, the   *)
(* submessages of a wrapper at the addresses Addr.                         *)
(***************************************************************************)
EXTENDS MessageClasses
P == INSTANCE ProtoSchema

CONSTANTS Roots,       \* the two messages on the stack
          Kinds,       \* the classes
          ExtraFields, \* what a peer with a newer schema adds
          MaxEdits,    \* calls of accessors
          MaxTransfers \* parses

\* The classes are generated ones.  Messages on the stack are not in the heap,
\* and the heap has room for every submessage they and a caller can hold.  What
\* a newer peer adds holds no message, and no schema reads its tag as a string,
\* a message or a map entry here.
ASSUME KindsAssumption == Kinds \subseteq P!Classes
ASSUME RootsAssumption == IsFiniteSet(Roots) /\ Roots \cap Addr = {}
ASSUME MemoryAssumption == IsFiniteSet(Addr) => Cardinality(Addr) > 2 * Cardinality(Roots)
ASSUME ExtraFieldsAssumption ==
  \A f \in ExtraFields :
    /\ f \in [tag : Nat, n : Int, s : Seq(Int), ns : Seq(Int), sub : {<<>>}, len : Nat]
    /\ f.tag \notin {10, 18, 26, 34, 42}
ASSUME BoundsAssumption == MaxEdits \in Nat /\ MaxTransfers \in Nat

VARIABLES kind,    \* the class of the two messages
          heap,    \* Roots \cup Addr -> message or Free
          hand,    \* what a caller of release_ owns, or nullptr
          spoiled, \* the roots a refused parse left half read
          edits,   \* calls of accessors so far
          transfers \* parses so far

vars == <<kind, heap, hand, spoiled, edits, transfers>>

-----------------------------------------------------------------------------
\* The message fields held by pointer.
Pointers(m) ==
  CASE m.class = "OTServerResponseWrapper" -> {"error", "result"}
    [] m.class = "OTClientResponseWrapper" -> {"error"}
    [] OTHER                               -> {}

\* What accessors and merges may make of a message here: a bound, not the code's.
\* A submessage has one item, so that a wrapper's runs stay small.
Bounded(h) ==
  \A a \in DOMAIN h : h[a] # Free =>
    /\ Len(h[a].unknown) <= 1
    /\ \A x \in DOMAIN h[a] \cap {"keys", "bytes", "values", "bts"} :
         Len(h[a][x]) <= IF a \in Roots THEN MaxItems ELSE 1
    /\ h[a].class = "OTClientResponseWrapper" => Len(h[a].result) <= MaxItems

Fit(o)   == o \notin spoiled
Edited   == edits < MaxEdits /\ edits' = edits + 1 /\ UNCHANGED transfers

Init ==
  /\ kind \in Kinds
  /\ heap = [a \in Roots \cup Addr |-> IF a \in Roots THEN New(kind) ELSE Free]
  /\ hand = nullptr
  /\ spoiled = {}
  /\ edits = 0
  /\ transfers = 0

-----------------------------------------------------------------------------
\* set_, add_, clear_ and the like.
Access(o) ==
  /\ Fit(o)
  /\ \E m \in Accessors(heap[o]) : heap' = [heap EXCEPT ![o] = m]
  /\ UNCHANGED <<hand, spoiled>>
  /\ Edited

\* mutable_error() or mutable_result(), and an accessor of what it points to.
Mutate(h, o, x) ==
  /\ Fit(o)
  /\ \E m \in Accessors(h[h[o][x]]) : heap' = [h EXCEPT ![h[o][x]] = m]
  /\ UNCHANGED <<hand, spoiled>>
  /\ Edited

MutableError(o) ==
  \/ /\ kind = "OTServerResponseWrapper"
     /\ Mutate(OTServerResponseWrapper_mutable_error(heap, o), o, "error")
  \/ /\ kind = "OTClientResponseWrapper"
     /\ Mutate(OTClientResponseWrapper_mutable_error(heap, o), o, "error")

MutableResult(o) ==
  /\ kind = "OTServerResponseWrapper"
  /\ Mutate(OTServerResponseWrapper_mutable_result(heap, o), o, "result")

ClearSub(o) ==
  /\ Fit(o)
  /\ \/ /\ kind = "OTServerResponseWrapper"
        /\ \/ heap' = OTServerResponseWrapper_clear_error(heap, o)
           \/ heap' = OTServerResponseWrapper_clear_result(heap, o)
     \/ /\ kind = "OTClientResponseWrapper"
        /\ heap' = OTClientResponseWrapper_clear_error(heap, o)
  /\ UNCHANGED <<hand, spoiled>>
  /\ Edited

Release(o) ==
  /\ Fit(o)
  /\ hand = nullptr
  /\ \/ /\ kind = "OTServerResponseWrapper"
        /\ \/ hand' = heap[o].error /\ heap' = OTServerResponseWrapper_release_error(heap, o)
           \/ hand' = heap[o].result /\ heap' = OTServerResponseWrapper_release_result(heap, o)
     \/ /\ kind = "OTClientResponseWrapper"
        /\ hand' = heap[o].error
        /\ heap' = OTClientResponseWrapper_release_error(heap, o)
  /\ UNCHANGED spoiled
  /\ Edited

SetAllocated(o) ==
  /\ Fit(o)
  /\ hand # nullptr
  /\ \/ /\ kind = "OTServerResponseWrapper"
        /\ heap[hand].class = "Error"
        /\ heap' = OTServerResponseWrapper_set_allocated_error(heap, o, hand)
     \/ /\ kind = "OTServerResponseWrapper"
        /\ heap[hand].class = "OTServerResponse"
        /\ heap' = OTServerResponseWrapper_set_allocated_result(heap, o, hand)
     \/ /\ kind = "OTClientResponseWrapper"
        /\ heap' = OTClientResponseWrapper_set_allocated_error(heap, o, hand)
  /\ hand' = nullptr
  /\ UNCHANGED <<spoiled, edits, transfers>>

\* The caller deletes what it released.
DeleteReleased ==
  /\ hand # nullptr
  /\ heap' = Delete(heap, hand)
  /\ hand' = nullptr
  /\ UNCHANGED <<spoiled, edits, transfers>>

-----------------------------------------------------------------------------
\* Whole messages.

ClearMessage(o) ==
  /\ heap' = ClearAt(heap, o)
  /\ spoiled' = spoiled \ {o}
  /\ UNCHANGED <<hand, edits, transfers>>

\* A message goes out of scope and another takes its place, copied or not.
Renew(o) ==
  /\ heap' = [Destroy(heap, o) EXCEPT ![o] = New(kind)]
  /\ spoiled' = spoiled \ {o}
  /\ UNCHANGED <<hand, edits, transfers>>

CopyConstruct(o, from) ==
  /\ Fit(from)
  /\ heap' = Construct([Destroy(heap, o) EXCEPT ![o] = New(kind)], o, from)
  /\ spoiled' = spoiled \ {o}
  /\ UNCHANGED <<hand, edits, transfers>>

\* CopyFrom and the copy assignment.
CopyAssign(o, from) ==
  /\ Fit(from)
  /\ heap' = CopyAt(heap, o, from)
  /\ spoiled' = spoiled \ {o}
  /\ UNCHANGED <<hand, edits, transfers>>

MergeFrom(o, from) ==
  /\ Fit(o)
  /\ Fit(from)
  /\ heap' = MergeAt(heap, o, from)
  /\ UNCHANGED <<hand, spoiled, edits, transfers>>

\* Swap, and the move assignment: without arenas it swaps, too.
SwapMessages(o, other) ==
  /\ heap' = [heap EXCEPT ![o] = Exchanged(heap[o], heap[other]),
                          ![other] = Exchanged(heap[other], heap[o])]
  /\ spoiled' = {IF r = o THEN other ELSE IF r = other THEN o ELSE r : r \in spoiled}
  /\ UNCHANGED <<hand, edits, transfers>>

-----------------------------------------------------------------------------
\* The wire.

\* The value of a message, its submessages in place of the pointers.
Value(h, m) ==
  [x \in DOMAIN m |->
     IF x \in Pointers(m) THEN IF m[x] = nullptr THEN P!None ELSE h[m[x]] ELSE m[x]]

\* Half a field: a length and too little after it.
Torn == Message(122, <<>>, 1)

\* What a peer built from the first fields of a class would have in its place.
OlderClass(c) ==
  CASE c = "Response" -> "Error"
    [] c \in {"OTServerRequest", "OTServerResponse", "OTClientRequest", "OTClientResponse"} ->
         "OTServiceData"
    [] OTHER -> c

\* What arrives of a wire: all of it; not its end, lost between two fields or
\* within one; a field more, from a peer with a newer schema; or what a peer
\* with an older one writes again of what it read.
Arriving(w) ==
  LET older == Parsed(New(OlderClass(kind)), w)
  IN {w} \cup {Front(w) : cut \in {w} \ {<<>>}}
         \cup {Append(Front(w), Torn) : cut \in {w} \ {<<>>}}
         \cup {Append(w, f) : f \in ExtraFields}
         \cup {Serialized(heap, older.msg) : aged \in {c \in {OlderClass(kind)} \ {kind} : older.ok}}

\* One message is serialized, or two behind each other.
Sent(from) ==
  LET wire(r) == Serialized(heap, heap[r])
  IN IF Len(from) = 1 THEN wire(from[1]) ELSE wire(from[1]) \o wire(from[2])

\* What arrives of them is parsed into this.
Transfer(o, from) ==
  /\ \A i \in DOMAIN from : Fit(from[i])
  /\ \E w \in Arriving(Sent(from)) :
       LET read == ParseInto(heap, o, w)
       IN /\ heap' = read.heap
          /\ spoiled' = IF read.ok THEN spoiled \ {o} ELSE spoiled \cup {o}
  /\ transfers < MaxTransfers
  /\ transfers' = transfers + 1
  /\ UNCHANGED <<hand, edits>>

-----------------------------------------------------------------------------
Senders == {<<r>> : r \in Roots} \cup {s \in Roots \X Roots : s[1] # s[2]}

Next ==
  /\ \/ \E o \in Roots : \/ Access(o) \/ MutableError(o) \/ MutableResult(o)
                         \/ ClearSub(o) \/ Release(o) \/ SetAllocated(o)
                         \/ ClearMessage(o) \/ Renew(o)
                         \/ \E from \in Senders : Transfer(o, from)
     \/ \E o \in Roots : \E other \in Roots \ {o} :
          \/ CopyConstruct(o, other) \/ CopyAssign(o, other)
          \/ MergeFrom(o, other) \/ SwapMessages(o, other)
     \/ DeleteReleased
  /\ Bounded(heap')
  /\ UNCHANGED kind

Spec == Init /\ [][Next]_vars

-----------------------------------------------------------------------------
\* Properties.

\* Roots are messages of the class of the run, other cells submessages; a
\* pointer is null or points to a message of its field's class, and so does
\* what release_ returned.
TypeOK ==
  /\ kind \in Kinds
  /\ \A o \in Roots : DOMAIN heap[o] = DOMAIN P!Default(kind) /\ heap[o].class = kind
  /\ \A a \in Addr : heap[a].class \in {"free", "Error", "OTServerResponse"}
  /\ \A o \in Roots : \A x \in Pointers(heap[o]) :
       heap[o][x] # nullptr => heap[heap[o][x]].class = P!FieldOf(kind, x).type
  /\ hand # nullptr => heap[hand].class # "free"
  /\ spoiled \subseteq Roots
  /\ edits \in 0..MaxEdits
  /\ transfers \in 0..MaxTransfers

\* Every submessage has one owner: a pointer of one root, or the caller that
\* released it; nothing is leaked, no two pointers are equal,
\* whatever a parse that failed left behind.
OneOwner ==
  LET slots == {<<o, x>> : o \in Roots, x \in {"error", "result"}}
      used == {s \in slots : s[2] \in Pointers(heap[s[1]]) /\ heap[s[1]][s[2]] # nullptr}
      at(s) == heap[s[1]][s[2]]
  IN /\ \A s, t \in used : s # t => at(s) # at(t)
     /\ \A s \in used : at(s) # hand
     /\ {a \in Addr : heap[a] # Free} =
          {at(s) : s \in used} \cup ({hand} \ {nullptr})

\* ByteSizeLong, which the runtime trusts for the buffer and for the lengths
\* before submessages, is the number of bytes _InternalSerialize writes.
SizeIsLength ==
  \A o \in Roots \ spoiled :
    ByteSizeLong(heap, heap[o]) = WireSize(Serialized(heap, heap[o]))

\* The classes implement the values of the schema: no operation on a message
\* shows in another, and a parse finds what was serialized, merged, unless a
\* field was torn or a string is no UTF-8.
Abstract ==
  INSTANCE ProtoMessages WITH
    Objects <- Roots,
    objs <- [o \in Roots |-> IF o \in spoiled THEN [class |-> "spoiled"]
                                              ELSE Value(heap, heap[o])],
    hand <- IF hand = nullptr THEN P!None ELSE heap[hand]

ImplementsProto == Abstract!Spec
=============================================================================
