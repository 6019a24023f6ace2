----------------------------- MODULE OTNetwork -----------------------------
(***************************************************************************)
(* The HTTP connections between ot_client and ot_server.                   *)
(*                                                                         *)
(* A call is one run of OTClientController::setMessages: it asks           *)
(* ot_server first for random messages (/getRandomMsgs) and then for the   *)
(* decrypted ops (/getDecryptedYOps).  createHttpRequestExecutor gives the *)
(* client no connection pool and a SimpleRetryPolicy, so that every        *)
(* attempt at a request runs over a connection of its own, and ot_server   *)
(* runs the handler of that connection in a thread of its own.  An attempt *)
(* therefore names the connection, the request on it and its handler.      *)
(***************************************************************************)
EXTENDS Naturals, FiniteSets

CONSTANTS Calls,          \* the calls callers may make of ot_client
          Tokens,         \* the values gen_random_str(tokenLen) may return
          DistinctTokens, \* whether two calls never draw the same token
          MaxRetry,       \* "maxRetry", the retries of one request
          MaxChosen,      \* bound: the most keys one call marks with label 1
          NoSender        \* "the map has no such entry"

Endpoints == {"getRandomMsgs", "getDecryptedYOps"}

Attempts == [call: Calls, to: Endpoints, nr: 0..MaxRetry]

\* One KOutOfNForOTSender is built per /getRandomMsgs that is handled: the
\* attempt names the sender, and with it the random messages it drew.
Senders == {a \in Attempts : a.to = "getRandomMsgs"}

ASSUME NetworkAssumption == /\ MaxRetry \in Nat
                            /\ MaxChosen \in Nat
                            /\ DistinctTokens \in BOOLEAN
                            /\ NoSender \notin Attempts

VARIABLES
  ask,     \* ask[c]: what the request bodies of call c carry, its token and k
  conn,    \* conn[a]: how far the connection of attempt a has come
  reply,   \* reply[a]: what the handler of attempt a answers
  up,      \* whether the ot_server process runs
  faults   \* ghost: the calls that lost a connection, and "crash", "race"

networkVars == <<ask, conn, reply, up, faults>>

\* A handler stands at one of its accesses to otSenderMap ("insert", "at",
\* "erase") between reading its request and answering it.
ConnStates == {"unused", "sent", "insert", "at", "erase", "replied", "closed"}

NoAsk == [token |-> "none", k |-> 0]

\* An "ok" carries random messages (/getRandomMsgs) or ops decrypted
\* (/getDecryptedYOps), in both cases those of one sender.  "limit" is the
\* 503 of an OTError, "error" the 500 of any other exception.
NoReply == [status |-> "none", sender |-> NoSender]
Ok(s)   == [status |-> "ok", sender |-> s]
Limit   == [status |-> "limit", sender |-> NoSender]
Error   == [status |-> "error", sender |-> NoSender]

Replies == {NoReply, Limit, Error} \cup {Ok(s) : s \in Senders}

NetworkTypeOK ==
  /\ ask \in [Calls -> [token: Tokens \cup {"none"}, k: 0..MaxChosen]]
  /\ conn \in [Attempts -> ConnStates]
  /\ reply \in [Attempts -> Replies]
  /\ up \in BOOLEAN
  /\ faults \in SUBSET (Calls \cup {"crash", "race"})

NetworkInit ==
  /\ ask = [c \in Calls |-> NoAsk]
  /\ conn = [a \in Attempts |-> "unused"]
  /\ reply = [a \in Attempts |-> NoReply]
  /\ up = TRUE
  /\ faults = {}

\* A new connection for attempt a: refused while ot_server is down.
Dial(connections, a) ==
  [connections EXCEPT ![a] = IF up THEN "sent" ELSE "closed"]
=============================================================================
