# Verification of cpp_flow

cpp_flow is a k-out-of-n oblivious transfer service in C++. `ot_server` holds
messages in a key-value store; `ot_client` obtains the messages of some keys
without telling the server which ones it reads.  Around these two programs the
repository keeps an HTTP client and an HTTP server over boost::asio, a second
client for a protobuf broker, a timer and some tools.

This directory holds TLA+ modules of the parts with behaviour of their own,
TLC configurations that check them on small instances, and proofs that TLAPS
checks for every value of the constants.

## The system

| Part | Code | State it keeps | Operations | What makes it correct |
|---|---|---|---|---|
| OT server session service | `ot_server/` | `otSenderMap`: token -> sender, shared by all handler threads, no mutex | `/getRandomMsgs`, `/getDecryptedYOps`, `/getPublicKey` | a sender decrypts only what was encrypted with its own random messages; the request limit is kept; an entry is freed when it is spent |
| OT client session service | `ot_client/`, `common/util/OatppUtils.hpp` | per call: token, choices, receiver; per process: the server's public key | `/getMessages`, `/getMessagesOfChosen` | a call ends; who gets messages gets the ones it chose; a 500 has a cause |
| OT cipher | `ot/`, `common/util/BitOp.hpp` | none across calls | `encrypt`, `decrypt`, `get_messages` | the chosen messages come back, whatever the lengths and bytes |
| RSA key store | `common/util/Utils.cpp` | two key files, two pointers | `gen_rsa_keypair`, `fread_all` | the pair served is a pair, and stays the pair the clients cached |
| KV stores | `common/cli/`, `common/util/DBUtils.hpp` | one redis context and reply shared by all handler threads | `get`, `mGet`, `hGetAll`, `set` | a message is its key's, and says what the key held |
| HTTP client | `common/http/HttpClient.hpp` | request and response buffers, socket, status, headers and content, all kept across calls | `get`, `post` and the handlers they chain | the content after a call answers that call |
| Broker client | `proto/src/OTClientService.hpp` | an HTTP client, the public key | `setMessages` | as for the OT client |
| HTTP server | `common/http/server.*`, `connection.*`, `request_parser.*`, `request_handler.*` | acceptor, connections, parser state | accept, read, parse, write, stop | the verdict of the grammar, whatever the chunks; one chain of handlers per connection; stop ends run |
| Protobuf messages | `proto/gen/` | eleven message classes; two of them own submessages through plain pointers | accessors, copy, merge, swap, `Clear`, parse, serialize, `release_`, `set_allocated_` | a message is a value: what is sent arrives, an operation on one never shows in another, every submessage has one owner |
| Timer | `common/schedule/Timer.*` | one deadline timer, armed by handlers and by callers in other threads | `run`, `stop` | a stopped timer stays stopped |
| Wire messages, configuration, DTOs | `ot/Message.hpp`, `common/ParamsTool.hpp`, `common/dto/` | none that changes after start-up | formatting and parsing | a message survives its round trip |

How the parts interact: a caller posts a map from keys to labels to
`ot_client`.  The client draws a session token, posts the keys to
`/getRandomMsgs`; a handler thread of `ot_server` reads the messages of the keys
from the KV store, builds a sender with fresh random messages, stores it in
`otSenderMap` under the token and answers the random messages.  The client
encrypts a key `y` with the server's public key, mixes the ciphertext with the
random messages of its choices, and posts the ops to `/getDecryptedYOps`; a
handler looks the sender up by token, decrypts, erases the entry and answers one
masked message per key.  The client unmasks the chosen ones with `y`.

What is hard here: handlers run in a thread per connection and share the map
without a lock; every request is retried over a new connection by
`SimpleRetryPolicy`, so a handler of a given-up attempt may run at any later
time; a lost answer leaves state behind on the server; the ops are byte strings
of different lengths whose trailing zeros some operations drop; the limit is
read out of what may be ciphertext; the protobuf wrappers pass submessages on
by plain pointers and trust a cached size.  PROJECT.json lists these hazards at their
lines.

## Modules

| Module | Models | Correspondence |
|---|---|---|
| `OTNetwork` | requests, connections and answers between client and server | an *attempt* (call, endpoint, number) is a connection, its request and its handler thread; a sender is named by the attempt whose handler built it |
| `OTServer` | `OTServerController`, `OTServerService` | `Accept`, `SetRandomMsgs`, `AtAndDecrypt`, `Erase`: a handler cut at its accesses to `otSenderMap`; `ServerCrash`, `ServerRestart` |
| `OTClient` | `OTClientController`, `OTClientService`, the retry policy of `createHttpRequestExecutor` | `Start`, `TakeRandomMsgs`, `TakeMessages`, `TakeLimit`, `TakeError`; `ConnClosed`, `ConnLost`, `BodyLost`, `ClientCrash` |
| `OTSession` | the two together | composition, properties, fairness, refinement mapping |
| `OTTransfer` | abstract specification of what a caller is promised | one session per call: opened once, spent once, within the limit |
| `OTSession_proofs` | theorems about `OTSession`: types, limit, whose messages a caller gets, what a success frees, what an error needs; that its steps implement those of `OTTransfer` | see below |
| `BitOp` | `BitOp.hpp` | a byte is the set of its bits, a string a sequence of bytes; each function keeps its treatment of tails and trailing zeros |
| `OTCipher` | `KOutOfNForOTReceiver::encrypt`, `KOutOfNForOTSender::decrypt`, `BaseOTReceiver::get_messages` | one step per loop iteration, both modes |
| `OTCipher_proofs` | theorems about `KeyStore` and `OTCipher`, and what each operation of `BitOp` returns | see below |
| `DataInduction` | least elements, induction up to a number and functions by recursion, as lemmas about sets | used by the proofs about `OTCipher`, `RedisCli`, `RequestParser` and the protobuf messages |
| `KeyStore` | `gen_rsa_keypair`, the key a client caches | one step per file operation; what a file or a pointer holds is the number of its pair, `Broken` or `Absent` |
| `RedisCli` | `RedisCli::hGetAll` and `get` as the handler threads call them | `Send`, `Recv`, `Read`, `Free`: a `redisCommand` cut at the shared context and at the shared `pRedisReply`; `NullReply` is the null dereference without redis |
| `RedisCli_proofs` | theorems about `RedisCli` and about the round trip of `FieldsMessage` | see below |
| `FieldsMessage` | `ot/Message.hpp`, `join_Fields` | text is a sequence of separators and runs without separators |
| `HttpClient` | `HttpClient` and its handler chain | one action per handler; buffers hold the parts (status line, headers, body) of answers, each marked with the request it answers |
| `BrokerClient` | `proto/src/OTClientService.hpp` | extends `HttpClient`; a call of `setMessages` is two posts and what is taken out of their contents |
| `BrokerClient_proofs` | theorems about `HttpClient` and `BrokerClient` | see below |
| `RequestParser` | `request_parser` and the grammar of the requests | the parser's `switch` as a table of moves; one or two characters per class |
| `HttpServer` | `server`, `connection`, `request_handler` | handlers are records in the io_context's queue; `Take` is a pool thread that begins one, `handle_*` are the handlers' bodies |
| `HttpServer_proofs` | that the parser of `RequestParser` and the grammar agree on every text; theorems about `HttpServer` | see below |
| `Wire` | the protobuf runtime as `proto/gen` calls it (external) | a wire is a sequence of fields; each keeps the length that was written before it, whether it fits or not |
| `PlainMessages`, `OTMessages`, `WrapperMessages` | the eleven classes of `proto/gen/mmdcotservicehttpbroker.pb.{h,cc}`, and the conversions of `PbUtils` | one operator per method: constructor, copy constructor, `Clear`, `MergeFrom`, `InternalSwap`, one turn of the loop of `_InternalParse`, `_InternalSerialize`, `ByteSizeLong`; wrappers work on a heap of submessages |
| `MessageClasses` | the virtual calls of `google::protobuf::Message` | which class answers |
| `MessageObjects` | two messages of a class, all a program can do with them, and the wire between them | one action per kind of call; `Transfer` serializes one or two messages and parses what arrives |
| `ProtoSchema` | `mmdcotservicehttpbroker.proto` and what proto3 promises for a schema | defaults, merge, pieces of a wire, all taken from a table of fields |
| `ProtoMessages` | abstract specification of the classes: messages are values | one message per object, no heap; a parse yields the merge of the pieces that got through, or a spoiled message |
| `MessageObjects_proofs` | theorems about `MessageObjects`: types, owners of submessages, sizes | see below |
| `MessageValues_proofs` | that the operations of `MessageObjects` are those of `ProtoMessages`, but for what a parse leaves | see below |
| `MCSession`, `MCCipher`, `MCBroker`, `MCRedis`, `MCHttp`, `MCMessages` | instances for TLC | values of the constants only |

Definitions marked "Variant" are never used by a specification: each is the
definition below it with one plausible mistake, and shows that the property
named for it in PROJECT.json would notice that mistake.

### Notes on the correspondence

- `OTSession` models `secureMode=true`, the default.  `OTCipher` models both
  modes.  The messages themselves are left out of `OTSession`: a reply carries
  the sender whose random messages or ops it holds, which decides whether
  the client can unmask them.
- A data race on `otSenderMap` is undefined behaviour.  The outcomes modelled are
  a lost insert or erase, a lookup that misses, and a crash of the process.
- A handler thread runs on after its client gave the connection up; its answer is
  dropped.  Attempts are numbered, so that an old handler and the attempt
  that replaced it interleave freely.
- In secure mode `decrypt` reads `atoi(encrypted_y_ops[2])`.  What that returns is
  not determined by the request: for one choice it is past the end, for more it
  is ciphertext.  `Verdicts` therefore allows a refusal beside every
  admission, never an admission outside the limit.
- `gen_rsa_keypair` runs twice in a start of the server, and the second run's
  pointers are the ones that no one reads.  A crash between `fopen` and `fclose`
  of `id_rsa` leaves an empty file that every later start takes for a key: the
  ghost `cut` marks it and every failure of a file or of OpenSSL, and `ClientsFit` is
  stated without them.
- `gen_rsa_keypair` asks whether the files exist by opening them (`Utils.cpp:87-89`): an
  `fopen` that fails for another reason makes it generate a pair and write over the one
  that is there.  The clients that cached the old key keep it until they restart.  `Generate` has
  this case, the ghost `unread` marks the call, and `PairIsKept` says that it is the only
  way to lose a whole pair.  The returns -1 to -3 are `GenerateFails`: a first
  call that returns them leaves null pointers, which the server may or may not
  survive.
- The handlers of `RedisCli` race as soon as one sends a command while another has
  not freed its reply.  From then until the server restarts no property is
  stated about what they hold (ghost `raced`), because anything may
  happen: an answer may go to the wrong handler, be left over for a later
  call, or be read after it was freed.
- The broker's client compares the unsigned `error.code()` with -8, which never
  holds, and never sets `reqPath`: both are as in the code.
- Loops over data (`str_co_and`, `join_Fields`, the constructor of `FieldsMessage`, `parse`) are
  functions on the number of turns taken so far: what the loop's variables hold after
  each turn.  The function pointers that `BitOp` passes around are functions on bytes.
- A text of `FieldsMessage` is a sequence of pieces, each a separator or a run
  without separators, so that a run counts as one character of the loop.
- `HttpClientOld` is the handler chain of `HttpClient` over `io_service`; one model
  stands for both.
- `MessageObjects`: the broker's client sends JSON; `MessageToJsonString` serializes a
  message and translates the wire, `JsonStringToMessage` the reverse, so that the
  parse and the serialization of the classes are what both formats rest on.  `Transfer`
  also lets wires be cut, carry unknown fields or come from an older schema, as the
  classes handle them; the program itself never sends the binary format, so that
  these are no hazards of it.
  A map field is a function; the order its entries are written in is one of the
  possible ones, since a parse does not depend on it.
- A parse that fails leaves what it read before it: the message is then
  `spoiled` and may only be cleared, overwritten, swapped or destroyed.  `OneOwner`
  holds of spoiled messages, too.
- The arena branches of the generated code (`GetArena() != nullptr`) are left out:
  nothing in the repository creates an arena.  So a move swaps, and `release_`
  hands out the pointer itself.
- `PbUtils` fills a `Bytes` from the chars of a string: a char with its high bit set
  is a negative `int` and becomes a `uint32` with the sign extended, and
  the way back takes the low byte.  A `uint32` is the `int` of the same bits
  (`Numbers` contains -128).

## Runs

| Run | Shows | Bounds, and why they are enough |
|---|---|---|
| `session_conf` | with the shipped `maxRetry=0` and tokens that do not repeat: whoever gets messages gets them from its own sender; a success leaves no entry; the limit holds; the whole service implements `OTTransfer` | two calls, since the map is all they share and a third would meet the same entries; limit 1 and up to two choices, so both sides of it occur; one server crash |
| `session_retry` | with retries: garbage only after a duplicated `/getRandomMsgs`, a 500 only after a fault, every call ends | one call, two retries: six connections, any of them still handled while the next is tried; the calls of others only matter through equal tokens, and `GarbageOnlyFromDuplicate` is proved for those, too |
| `session_garbage` | finding: one retry of `/getRandomMsgs` and the call ends with garbage | smallest instance |
| `session_limit` | finding: a call within the limit may be refused | smallest instance |
| `cipher` | every chosen message arrives in both modes, unless the ciphertext ends in a zero byte and ops are folded; the two modes agree | bytes of three bits, messages shorter than, as long as and longer than the key, ciphertexts with zero bytes at every place; all choices of three messages |
| `cipher_tail` | finding: with such a ciphertext two or more choices come out as garbage | the same |
| `broker` | a call that reads its answer to the end holds the answer to the oldest unsent request; a broker call returns other messages than the chosen ones only after some request failed | five posts: the key and two calls, so that what one leaves behind meets the next |
| `broker_stale` | finding: after a failed request the broker call returns without its messages, as if all was well | three posts |
| `keys` | a complete pair is written over only by a call that could not open its files for reading, whatever else crashes or fails; what clients cached fits the server while no file or OpenSSL failed and no crash left `id_rsa` open | three starts, the third after two that ended anywhere; two clients, one before and one after a restart |
| `redis` | messages are of their key and its content; answers stay in step; replies are freed once; calls end with or without redis; texts survive the wire but for colons | two handlers, one of them with two keys; one write by another client, at any moment; an answer is sent twice below two waiting ones |
| `http` | the parser's verdict is the grammar's, wherever the bytes are cut; one chain per connection and an accept chain that never ends; a signal ends `run` | two connections, two threads, one failed accept; reads of ten bytes or of all there is, cut at every header state; a request with a folded header and its one-character mistakes |
| `messages` | the classes implement the values of the `.proto`: nothing done with one message shows in the other, what arrives of a wire is what was sent; each submessage has one owner; the measured size is the written one | two messages of each of the eleven classes, symmetric; two accessor calls, any number of copies, merges, swaps and clears, one transfer of one or two messages; a repeated field has up to two items, one in a submessage.  A hazard needs a field set on each side and one operation between them; strings are a text and one that is no UTF-8; wires lose their end between or within fields, gain an unknown field, or pass through a peer with an older schema |

Deadlock is checked in `keys`, `redis` and `messages`, which never stop.  Elsewhere
the bounds let the system stop: all calls ended, all posts made, the server
stopped.

The ghosts are `faults` (OTNetwork), `unread` and `cut` (KeyStore), `seen`, `raced`, `leaked`
(RedisCli), `complete`, `oldest`, `quiet` (HttpClient): no guard reads them, except
that `seen` is dropped once `raced` holds.

### Fairness

- `OTSession`: weak fairness of each handler and of each call's next step over its
  connection.  Both are threads that run on; a connection is answered, reset
  or refused in the end because oatpp waits on it in the call's thread.  Neither
  crashes nor losses are fair, and a lost connection is never required.
- `OTTransfer`: a call that was asked ends.  `session_conf` checks that the
  fairness of `OTSession` implies it.
- `RedisCli`: weak fairness of each handler's next step: it is a thread that
  blocks only in `redisCommand`, and redis answers or the connection is lost.
- `HttpServer`: weak fairness of each pool thread.  The io_context runs ready
  handlers in order, so that the stop is not overtaken for ever.
- The other modules state no liveness.  An HTTP call without an answer waits for
  ever, since no handler has a deadline: there is nothing to prove.

## Findings

1. `KOutOfNForOTSender.hpp:54`: a ciphertext that ends in a zero byte is truncated by
   `str_and` when ops are folded, about one session in 256 with two or more
   choices (`cipher_tail`).
2. `OTServerService.hpp:84`: a retried `/getRandomMsgs` answers random messages of a
   sender that `insert` did not store; the call succeeds with garbage
   (`session_garbage`).
3. `KOutOfNForOTSender.hpp:43`: the limit is read out of an op, so that a request
   within the limit may be refused with a message that says it is not
   (`session_limit`).
4. `proto/src/OTClientService.hpp:120`: neither the parse status nor the error of
   the second answer is looked at; after a failure the call returns the content
   of the call before (`broker_stale`).

## Proofs

All theorems hold for every value of the constants under the assumptions their modules
state:
  - `NetworkAssumption`, `ServerAssumption`, `KeyAssumption`, `BrokerAssumption` and the
    `HttpAssumption` of `HttpClient`: the bounds are natural numbers, `NoSender` is no
    attempt; the sets of calls, tokens and clients are arbitrary;
  - `CipherAssumption` and `SizesAssumption` (`OTCipher`): messages, random messages, keys and
    ciphertexts are strings of bytes; all random messages have one length (`key_size / 8 - 11`),
    which is less than a ciphertext's (`key_size / 8`); some bit is 0 in every
    character of a random message, as `gen_random_str` draws them below 128; a message does not
    end in a zero byte, since it was a C string.  The number of messages, the width
    of a byte and all lengths are arbitrary;
  - `TypesAssumption`, `DataAssumption` and `TextAssumption` (`RedisCli`): redis keeps no hash
    without fields, a handler asks for at least one key, a text is a sequence; the sets of
    handlers, keys and texts are arbitrary;
  - `HttpAssumption` (`HttpServer`): there are finitely many threads and at least one
    connection, what a peer sends is a sequence of the characters of `Char`, a read returns at least
    one of them;
  - `TextsAssumption`, `NumbersAssumption`, `MaxItemsAssumption` (`PlainMessages`),
    `AddrAssumption` (`WrapperMessages`), `KindsAssumption`, `RootsAssumption`, `MemoryAssumption`,
    `ExtraFieldsAssumption`, `BoundsAssumption` (`MessageObjects`): accessors are given
    nonempty strings and nonzero numbers; addresses are numbers other than 0; there are finitely many messages
    on the stack, at no address of the heap, and the heap, if it is finite, has room for
    two submessages of each and one more; what a newer peer adds
    is a well-typed field without a submessage, under a tag that no class reads as a string, a message or a map
    entry.  Texts, numbers, addresses, the number of messages, what a peer adds and all
    bounds are arbitrary.

`RequestParser` has no constants; its theorem is about every text over `Char`.

`OTSession_proofs`: `TypeOK` is not inductive: that a handler looks up a token
says nothing unless its call has started, and `reply` is typed only if a handler that
inserts is a `/getRandomMsgs` handler.  `TypeInv` adds both (`CallInv`, `ConnInv`).
The safety theorems use `SessionInv`, which adds
  - `MapInv`: the entry of a token is a sender that was built for this token and
    answered (`SentFor`),
  - `ReplyInv`: a positive answer carries a sender of the token that was asked
    for, and ops only if the number of choices is within the limit,
  - `UsedInv`: the senders whose answers a call has taken were built for its own
    token, and a call that has the second answer is within the limit.

`LimitIsHonoured` and `GarbageOnlyFromDuplicate` follow.  `ConfiguredCallsObtain` adds
`DistinctInv`, that no two started calls have the same token: with `MaxRetry = 0` a call has
one `/getRandomMsgs` attempt, and the duplicate of `GarbageOnlyFromDuplicate`
cannot exist.  One lemma per kind of step (`Serve`, `Call`, `Crash`), one step per
action below it.

What an error needs: `ErrorHasCause` needs to know of every call whose faults are empty
that the session it needs is there (`QuietInv`).  `Settled` says that only the attempt
the call waits for is under way, and `Needs` when its sender is to be found; `FreshInv` and
`EraseInv` fix how attempts begin and end.  `SuccessFreesEntry` follows from the same invariant: the
erase of an undisturbed call comes before its answer, and nothing inserts after it.

The refinement: with `MaxRetry = 0` and distinct tokens, each step of `OTSession` is a
step of `OTTransfer` under the mapping of `OTSession` or leaves its variables unchanged.
`PlainInv` adds to `SessionInv` that nothing is answered before it is handled (`OrderInv`)
and that a handler erases its own call's entry (`ErasesOwn`).  One lemma per
action of `OTTransfer` shows what its step looks like; `TransferIsImplemented` combines
them.  Only the fairness of `OTTransfer` is left to the run `session_conf`.

`OTCipher_proofs`, first part: about `KeyStore`, `KeyInv` is `KeyTypeOK`, what each file holds at each step of
`gen_rsa_keypair` (`FileInv`), and that what is served and cached comes from a pair that
is on disk or on its way there (`PairInv`).  `FileInv` says of a call that writes that `id_rsa`
is absent unless its files failed to open, and older than the new pair even then: so the two
files of a pair half replaced never look whole.  `PairStaysOnDisk` and `ClientsAlwaysFit`
follow for any number of starts, crashes and clients.

`DataInduction`: the library's induction theorems take an operator, which the provers cannot
instantiate.  Its theorem that `<` on the naturals is well-founded is about a
relation, so that a nonempty set of numbers has a least element (`LeastNat`).  From
there, a set that holds 0 and with each number its successor holds all of them
(`SetInductionFromZero`), and a function defined by recursion on the number of turns
exists and is the only one that follows its equation (`RecursionFromZeroExists`,
`RecursionIsUnique`).  All the following proofs about loops cite these.

`OTCipher_proofs`, second part: a string is described by its byte at every position, zero behind
its end (`At`), because the operations of `BitOp` differ only in what they do there.
One lemma per operation says which byte is where and how long the result is
(`XorBytes`, `AndBytes`, `AndNotBytes`, `CoAndBytes`, ...), and `XorTwice` that a mask that is at least as
long goes away.  `TypeOK` and the properties are not inductive: they speak of the end.
`CipherInv` adds what each step has built: an op of every choice so far (`OpsOfChoices`), the
two folded ops (`Folded`), the masked messages (`Returned`) and the ones taken (`Taken`).  The heart of
it is `CiphertextIsBack`: under the random message of any choice the two ops give the
receiver's ciphertext back, byte by byte, since the first holds its bits that the random
message has not and the second shows which of the random message's bits it has not.
Folding keeps both ops as long as the ciphertext (`FirstOp`, `SecondOp`) unless `str_and` drops
its last byte: this is where `TailSurvives` is needed.  `FoldsAgree` compares the two modes.

`RedisCli_proofs`: nothing is true of the shared context once two handlers race.
`SharedInv` says what holds until then: at most one handler is between its command and its
`freeReplyObject`, at most one answer is on its way, nothing leaked.  `HeldInv` says of that handler
that its reply is the answer to its command on an entry the key held since the
command was sent (`HasRead`).

The round trip of a message: `Reads` says that a piece of text moves the reader of
`str2fieldsMessage` from one state to another.  A name moves it from the start of a field to
that name, a value to the value without its colons, a separator on; `RoundTrip` puts the
parts of `join_Fields` after one another by induction on the number of fields.  The reader
always ends with one field more than it saw commas, so an empty message would come back as one
empty field: `FilledInv`, that the first field of a message is its key, excludes it, and
`MessagesArrive` follows.

`HttpServer_proofs`, first part: that a parser of single moves and a grammar of whole lines agree.  A run is
the function from the number of characters read to the parser's state.  `ConsumeIs` reads the
table of moves once; from then on a state is known by where it is entered from
(`IntoRequestLine`, `IntoHeader`).  Within a line, the places at which the parser is in a state form a
regular expression (`Then` a character, `Many` of a class), and `RequestLineGrammar`, `HeaderGrammar`
and `FoldedGrammar` show that these are the lines of the grammar.  Line after line
(`AcceptsFirst`, `AcceptsNext`, `AcceptsLines`, by a least counterexample): the parser stands at a
line's start exactly if the lines before it are well formed and every folded one has a header before it.
`ParserIsTheGrammar` follows: it says "true" exactly if some beginning of the text is
a request, it goes on saying so, and it says "false" only if no
continuation of the text begins with one.  `ParseInTwo`: a text parsed in two chunks is parsed as one.

`HttpServer_proofs`, second part: `ChainInv` states that no two of the running, queued and pending handlers
refer to one connection (`Unique`), as a fact about each pair of places, and
`AcceptInv` that every connection behind `new_connection` is untouched.  `OneChainEach`,
which counts, follows by cardinality.

`ParserInv` adds what the parser has seen: all that a connection has read, but for the
characters of a read handler that has not run, was parsed as if it were one chunk
(`Parsed`).  It rests on `ChainInv`: with two handlers of one connection it would not
hold.  With `ParserIsTheGrammar` it gives `VerdictsHold`, and with `FlagsInv` it gives `TypesHold`.

`BrokerClient_proofs`: `CallInv` relates `request_`, `wire` and `response_` at each handler: what is
read and what is left are two parts of the whole answer to one request
(`ReadsAnswer`), the oldest one unless something was left unread (`quiet`).  Lemmas about
`SubSeq` show that every read moves the cut.  `ObtainedInv` says what the broker
has taken out of contents when all calls were complete; `WrongNeedsFailure` follows.

`MessageObjects_proofs`: `TypeOK`, `OneOwner` and `SizeIsLength` are not inductive.  `TypeOK` says
nothing of what is inside a message, and a submessage that two messages share stays of its type until one of them
deletes it; `OneOwner` counts the owners of an address, but that a pointer points to
something of its class, or that `new` finds an address, has to be known first.  The
inductive invariant `IInv` states, of the heap (`HeapOK`):
  - `Heaps`: every message has the members of its class, of their types, and a pointer is null or
    points to a message of its field's class.  Unknown fields hold fields that hold fields, so the types
    are stated by depth (`F1`, `F2`, `F3`): a wrapper is parsed from a wire of depth
    three, its result from one of depth two, an entry of a map from one of depth one;
  - `PointersOK`: no two pointers, of one message or of two, are equal;
  - `HandOK`: what the caller of `release_` owns is one submessage, of a class that a
    pointer can hold, and no message points to it;
  - `AllOwned`: nothing else is allocated.  So the heap is never full, by `MemoryAssumption`: this is
    what a `new` relies on.

There is one lemma per method and class: that it leaves the type of its class (`...Stays`,
`...Parsed`), and one per action for the heap.  The loops over repeated fields, maps and wires are folds; what a
parse leaves is followed field by field, as a function by recursion (`DataInduction`), also for a parse that fails
halfway: `OneOwner` holds of what it leaves, too.  For `SizeIsLength`, the sizes of what a class writes are summed piece by
piece, as `ByteSizeLong` adds them up (`Sums`, `Total`), and compared with what `_InternalSerialize` writes.
`Typed`, `OneOwnerEach` and `SizesAreLengths` follow from `HeapInOrder`.

`MessageValues_proofs`: the value of a message is the message with each pointer replaced by
what it points to (`Value`).  Each operation is followed through the heap to what it makes of the
value of its own message (`Turns`), and the rest is shown to be as it was (`Keeps`): by `PointersOK`
no other message has a pointer to what changed.  Then each action of `MessageObjects` is the action of
`ProtoMessages` on values: `Access`, `MutableError`, `MutableResult` and `ClearSub` are `Set`,
`Release` is `Take`, `SetAllocated` is `Give`, `ClearMessage` and `Renew` are `Reset`, and copy, merge
and swap are their own (`NextOnValues`).  Of `Transfer` the proof says less than the run
(`TransferAlone`): the parse changes no message but the one parsed into, nothing of what the caller owns, and it is the next of at
most `MaxTransfers`.  `OperationsOnValues` states this of every behaviour.  What the parse leaves in its own message,
the merge of the pieces that got through, is only model-checked (`ImplementsProto`).

Only model-checked: liveness (`CallEnds` of both modules, `StopReturns`) and the fairness
part of the refinement of `OTTransfer`, since liveness under fairness is out of the prover's reach; and of the
refinement of `ProtoMessages` the contents of a message after a parse, which relates two folds over one wire, by
the generated classes and by the table of the schema, field by field.

## Not modelled

- `GET /getPublicKey` and the debug endpoint: they read what never changes.
- RSA itself: `OTCipher` takes decryption for the inverse of encryption on a
  whole ciphertext and for an unrelated text on any other.
- `mGet`, `set` and `setEx` of `RedisCli`, and the operations of `BitOp` that no code calls:
  nothing says what their callers would rely on.
- Which file the HTTP server answers, its status and the layout of replies: pure
  functions of the request and the disk.
- Arenas, descriptors and reflection of the generated protobuf code: tables and branches
  that no call in the repository reaches.
- The extra byte that `fread_all` copies: memory layout is not modelled.
- `Timer`: no code of the repository uses it.  Its hazard, a `stop` that comes between the
  expiry and `onRun`, is in PROJECT.json.
- Configuration (`ParamsTool`), DTOs, the stopwatch: no behaviour of their own; what the
  configuration sets are constants here.

## Plan

Done: the session service, the cipher, the key store, the HTTP client with the broker's
client, redis with the wire messages, the HTTP server, the protobuf messages; the
proofs above, which cover every safety property the runs check and the steps of both
refinements, but for the contents of a message after a parse.

Next, in this order:
1. The step of `Transfer` in the refinement of `ProtoMessages`: that each field of a wire a class writes
   is read as the piece of the value that the schema says.
2. `Timer` (run, stop, onRun, with a stop between expiry and handler), and `secureMode=false`
   in `OTSession`.
