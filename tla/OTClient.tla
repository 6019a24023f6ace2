------------------------------ MODULE OTClient ------------------------------
(***************************************************************************)
(* ot_client: OTClientController::setMessages and                          *)
(* OTClientService::setMessages, with the retries of their HTTP executor.  *)
(***************************************************************************)
EXTENDS OTNetwork

VARIABLES
  pc,      \* pc[c]: the request call c waits for, or how the call ended
  att,     \* att[c]: the number of the current attempt at that request
  rsFrom,  \* rsFrom[c]: the sender whose random messages c encrypts with
  got      \* got[c]: the sender whose decrypted ops c takes its messages from

clientVars == <<pc, att, rsFrom, got>>

Waiting == Endpoints

\* "messages": 200 with messages; "limit": 200 with code 503 in the body;
\* "error": 500; "crashed": the ot_client process died.
Ended == {"messages", "limit", "error", "crashed"}

ClientTypeOK ==
  /\ pc \in [Calls -> {"idle"} \cup Waiting \cup Ended]
  /\ att \in [Calls -> 0..MaxRetry]
  /\ rsFrom \in [Calls -> Senders \cup {NoSender}]
  /\ got \in [Calls -> Senders \cup {NoSender}]

ClientInit ==
  /\ pc = [c \in Calls |-> "idle"]
  /\ att = [c \in Calls |-> 0]
  /\ rsFrom = [c \in Calls |-> NoSender]
  /\ got = [c \in Calls |-> NoSender]

Attempt(c, e, n) == [call |-> c, to |-> e, nr |-> n]

\* The connection call c waits on.
Current(c) == Attempt(c, pc[c], att[c])

Answered(c, status) ==
  /\ pc[c] \in Waiting
  /\ conn[Current(c)] = "replied"
  /\ reply[Current(c)].status = status

\* A caller's request: the token is drawn, the keys and choices are collected
\* and the first request goes out.
Start(c) ==
  /\ pc[c] = "idle"
  /\ \E t \in Tokens, k \in 0..MaxChosen :
       /\ DistinctTokens => \A d \in Calls : ask[d].token # t
       /\ ask' = [ask EXCEPT ![c] = [token |-> t, k |-> k]]
  /\ pc' = [pc EXCEPT ![c] = "getRandomMsgs"]
  /\ conn' = Dial(conn, Attempt(c, "getRandomMsgs", 0))
  /\ UNCHANGED <<reply, up, faults, att, rsFrom, got>>

\* The random messages arrive; the receiver encrypts with them and the second
\* request goes out.
TakeRandomMsgs(c) ==
  /\ pc[c] = "getRandomMsgs"
  /\ Answered(c, "ok")
  /\ rsFrom' = [rsFrom EXCEPT ![c] = reply[Current(c)].sender]
  /\ pc' = [pc EXCEPT ![c] = "getDecryptedYOps"]
  /\ att' = [att EXCEPT ![c] = 0]
  /\ conn' = Dial(conn, Attempt(c, "getDecryptedYOps", 0))
  /\ UNCHANGED <<ask, reply, up, faults, got>>

\* Variant: the status of the answer is not looked at.
TakeMessagesUnchecked(c) ==
  /\ pc[c] = "getDecryptedYOps"
  /\ conn[Current(c)] = "replied"
  /\ got' = [got EXCEPT ![c] = reply[Current(c)].sender]
  /\ pc' = [pc EXCEPT ![c] = "messages"]
  /\ UNCHANGED <<networkVars, att, rsFrom>>

\* The decrypted ops arrive; get_messages takes the messages out of them.
TakeMessages(c) ==
  /\ pc[c] = "getDecryptedYOps"
  /\ Answered(c, "ok")
  /\ got' = [got EXCEPT ![c] = reply[Current(c)].sender]
  /\ pc' = [pc EXCEPT ![c] = "messages"]
  /\ UNCHANGED <<networkVars, att, rsFrom>>

\* A 500 is not retried: its body does not parse as the awaited vector.
TakeError(c) ==
  /\ Answered(c, "error")
  /\ pc' = [pc EXCEPT ![c] = "error"]
  /\ UNCHANGED <<networkVars, att, rsFrom, got>>

\* Variant: nothing is done once no attempt is left.
RetryOrWait(c, outcome, connections) ==
  /\ att[c] < MaxRetry
  /\ att' = [att EXCEPT ![c] = @ + 1]
  /\ conn' = Dial(connections, Attempt(c, pc[c], att[c] + 1))
  /\ UNCHANGED pc

\* One more attempt over a new connection, or the outcome once none is left.
RetryOr(c, outcome, connections) ==
  \/ /\ att[c] < MaxRetry
     /\ att' = [att EXCEPT ![c] = @ + 1]
     /\ conn' = Dial(connections, Attempt(c, pc[c], att[c] + 1))
     /\ UNCHANGED pc
  \/ /\ att[c] = MaxRetry
     /\ conn' = connections
     /\ pc' = [pc EXCEPT ![c] = outcome]
     /\ UNCHANGED att

\* A 503 is retried like a failure; the last one is thrown on as an OTError.
TakeLimit(c) ==
  /\ Answered(c, "limit")
  /\ RetryOr(c, "limit", conn)
  /\ UNCHANGED <<ask, reply, up, faults, rsFrom, got>>

\* The connection is refused or reset before an answer arrives.
ConnClosed(c) ==
  /\ pc[c] \in Waiting
  /\ conn[Current(c)] = "closed"
  /\ faults' = faults \cup {c}
  /\ RetryOr(c, "error", conn)
  /\ UNCHANGED <<ask, reply, up, rsFrom, got>>

\* The connection is lost on the client's side only: the handler, if the
\* request reached it, goes on and its answer is lost.
ConnLost(c) ==
  /\ pc[c] \in Waiting
  /\ conn[Current(c)] # "closed"
  /\ faults' = faults \cup {c}
  /\ \/ RetryOr(c, "error", conn)
     \/ /\ conn[Current(c)] = "sent"
        /\ RetryOr(c, "error", [conn EXCEPT ![Current(c)] = "closed"])
  /\ UNCHANGED <<ask, reply, up, rsFrom, got>>

\* The connection is lost inside the body of the answer, which is read
\* outside the executor's retries.
BodyLost(c) ==
  /\ \/ Answered(c, "ok")
     \/ Answered(c, "limit") /\ att[c] = MaxRetry
  /\ faults' = faults \cup {c}
  /\ pc' = [pc EXCEPT ![c] = "error"]
  /\ UNCHANGED <<ask, conn, reply, up, att, rsFrom, got>>

\* What the thread of call c does by itself once its connection has news.
Proceed(c) ==
  TakeRandomMsgs(c) \/ TakeMessages(c) \/ TakeError(c) \/ TakeLimit(c) \/ ConnClosed(c)

\* The process dies with the calls it is serving.
ClientCrash ==
  /\ \E c \in Calls : pc[c] \in Waiting
  /\ pc' = [c \in Calls |-> IF pc[c] \in Waiting THEN "crashed" ELSE pc[c]]
  /\ UNCHANGED <<networkVars, att, rsFrom, got>>
=============================================================================
