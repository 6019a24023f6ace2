---------------------------- MODULE BrokerClient ----------------------------
(***************************************************************************)
(* proto/src/OTClientService.hpp: the client of the protobuf broker, on an *)
(* HttpClient.  It asks for the public key when it is constructed; each    *)
(* setMessages asks for random messages and then for the decrypted ops.    *)
(* It never sees whether a request failed: after each one it parses        *)
(* whatever getContent returns, and does not look at the parser's status.  *)
(***************************************************************************)
EXTENDS HttpClient

CONSTANT MaxChosen  \* bound: the most keys one call marks with label 1

ASSUME BrokerAssumption == MaxChosen \in Nat /\ Kinds = {"key", "values", "bytes"}

VARIABLES
  pc,         \* the request that is awaited, "idle" between two calls
  k,          \* how many messages the call chooses
  publicKey,  \* the request whose answer publicKey is from, 0 for none
  rms,        \* the request whose answer the random messages are from
  ops         \* the request whose answer the decrypted ops are from

brokerVars == <<pc, k, publicKey, rms, ops>>
vars       == <<httpVars, brokerVars>>

TypeOK ==
  /\ HttpTypeOK
  /\ pc \in {"new", "key", "idle", "randomMsgs", "decryptedYOps", "crashed"}
  /\ k \in 0..MaxChosen
  /\ publicKey \in 0..posts /\ rms \in 0..posts /\ ops \in 0..posts

Init ==
  /\ HttpInit
  /\ pc = "new" /\ k = 0
  /\ publicKey = 0 /\ rms = 0 /\ ops = 0

\* setPbMessage: the content is a message of the kind awaited when it is the
\* whole of an answer that holds one, else the message stays empty.
Parsed(kind) ==
  IF \E p \in 1..posts : content = Body(p, "ok", kind) THEN content[1].post ELSE 0

Construct ==
  /\ pc = "new"
  /\ Post("key")
  /\ pc' = "key"
  /\ UNCHANGED <<k, publicKey, rms, ops>>

TakeKey ==
  /\ pc = "key" /\ handler = "returned"
  /\ publicKey' = Parsed("key")
  /\ pc' = "idle"
  /\ UNCHANGED <<httpVars, k, rms, ops>>

SetMessages ==
  /\ pc = "idle"
  /\ k' \in 0..MaxChosen
  /\ Post("values")
  /\ pc' = "randomMsgs"
  /\ rms' = 0 /\ ops' = 0
  /\ UNCHANGED publicKey

\* An index into an empty vector, or into one of another call's, which may
\* be shorter.
MayCrash(from, own) == k > 0 /\ from # own
MayGoOn(from) == k = 0 \/ from # 0

Crash ==
  /\ pc' = "crashed"
  /\ UNCHANGED <<httpVars, k, publicKey, rms, ops>>

\* Variant: random messages once received are used for later calls, too.
RandomMsgsKept ==
  /\ pc = "randomMsgs" /\ handler = "returned"
  /\ rms' = IF Parsed("values") = 0 THEN 0 ELSE 2
  /\ MayGoOn(rms')
  /\ Post("bytes")
  /\ pc' = "decryptedYOps"
  /\ UNCHANGED <<k, publicKey, ops>>

\* The receiver encrypts with the random messages and asks for the ops.
TakeRandomMsgs ==
  /\ pc = "randomMsgs" /\ handler = "returned"
  /\ rms' = Parsed("values")
  /\ MayGoOn(rms')
  /\ Post("bytes")
  /\ pc' = "decryptedYOps"
  /\ UNCHANGED <<k, publicKey, ops>>

\* get_messages takes the messages out of the ops; over all keys it takes as
\* many as there are ops, over the chosen ones it indexes the ops.
TakeDecryptedYOps ==
  /\ pc = "decryptedYOps" /\ handler = "returned"
  /\ ops' = Parsed("bytes")
  /\ pc' = "idle"
  /\ UNCHANGED <<httpVars, k, publicKey, rms>>

IndexOutOfRange ==
  /\ handler = "returned"
  /\ \/ pc = "randomMsgs" /\ MayCrash(Parsed("values"), posts)
     \/ pc = "decryptedYOps" /\ MayCrash(Parsed("bytes"), posts)
  /\ Crash

Next ==
  \/ Construct \/ TakeKey \/ SetMessages
  \/ TakeRandomMsgs \/ TakeDecryptedYOps \/ IndexOutOfRange
  \/ Handlers /\ UNCHANGED brokerVars

Spec == Init /\ [][Next]_vars

-----------------------------------------------------------------------------
(* Properties *)

\* What the call that returned holds are the messages it chose: the ops answer its own
\* request, after an encryption with its own random messages and the key.
Obtained == publicKey = 1 /\ rms = posts - 1 /\ ops = posts

Returned == pc = "idle" /\ posts > 1 /\ handler = "returned"

\* What setMessages says of its last step (OTClientService.hpp:140,
\* "4. otReceiver obtain the chosen message").
ChosenObtained == Returned /\ k > 0 => Obtained

\* A call returns other messages than the chosen ones, or none for its
\* choices, only after some request was refused or did not reach its end.
WrongNeedsFailure ==
  Returned /\ k > 0 /\ ~Obtained =>
    \/ complete # 1..posts
    \/ content = Body(posts, "refused", "bytes")
    \/ publicKey = 0
=============================================================================
