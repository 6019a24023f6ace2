----------------------------- MODULE OTSession -----------------------------
(***************************************************************************)
(* The transfer as it runs: ot_client and ot_server over their             *)
(* connections, with lost connections, retries and crashes.                *)
(***************************************************************************)
EXTENDS OTServer, OTClient

vars == <<networkVars, serverVars, clientVars>>

TypeOK == NetworkTypeOK /\ ServerTypeOK /\ ClientTypeOK

Init == NetworkInit /\ ServerInit /\ ClientInit

Serve(a) == Handle(a) /\ UNCHANGED clientVars

Call(c) ==
  /\ Start(c) \/ Proceed(c) \/ ConnLost(c) \/ BodyLost(c)
  /\ UNCHANGED serverVars

Crash ==
  \/ ServerCrash /\ UNCHANGED clientVars
  \/ ServerRestart /\ UNCHANGED clientVars
  \/ ClientCrash /\ UNCHANGED serverVars

Next ==
  \/ \E a \in Attempts : Serve(a)
  \/ \E c \in Calls : Call(c)
  \/ Crash

\* A handler's thread runs on, and so does the thread of a call: a connection
\* is answered, reset or refused in the end.  No caller need call, nothing
\* need crash or restart, and no connection need be lost.
Fairness ==
  /\ \A a \in Attempts : WF_vars(Serve(a))
  /\ \A c \in Calls : WF_vars(Proceed(c) /\ UNCHANGED serverVars)

Spec == Init /\ [][Next]_vars
FairSpec == Spec /\ Fairness

-----------------------------------------------------------------------------
(* Safety *)

\* Messages that reach a caller were decrypted by the sender whose random
\* messages the call encrypted with: otherwise get_messages xors garbage
\* (OTClientService.hpp:117, "4. otReceiver obtain the chosen message").
ChosenObtained ==
  \A c \in Calls : pc[c] = "messages" => got[c] = rsFrom[c]

\* What remains true with retries and equal tokens: a caller gets garbage
\* only if two /getRandomMsgs requests with its token were both handled, of
\* which map::insert kept one and the client used the other.
GarbageNeedsDuplicate ==
  \A c \in Calls :
    pc[c] = "messages" /\ got[c] # rsFrom[c] =>
      \E s, t \in Senders : /\ s # t
                            /\ reply[s] # NoReply /\ reply[t] # NoReply
                            /\ Token(s) = ask[c].token /\ Token(t) = ask[c].token

\* No caller gets messages for no choice or for more than reqLimitNum.
LimitHonoured ==
  \A c \in Calls : pc[c] = "messages" => ask[c].k \in 1..ReqLimitNum

\* A call that got its messages without a fault leaves nothing in
\* otSenderMap: setDecryptedYOps erased its entry before it answered.
SuccessFreesEntry ==
  \A c \in Calls :
    /\ DistinctTokens
    /\ pc[c] = "messages"
    /\ faults \cap {c, "race"} = {}
    => otSenderMap[ask[c].token] = NoSender

\* A caller gets a 500 only after a fault of its own connections, a crash of
\* the server or a race on the map: the two requests of an undisturbed call
\* always find the session they need.
ErrorHasCause ==
  \A c \in Calls :
    DistinctTokens /\ pc[c] = "error" => faults \cap {c, "crash", "race"} # {}

\* What the OTError of decrypt says (KOutOfNForOTSender.hpp:45): a call is
\* refused because its number is not "between 1 and" reqLimitNum.
RefusedOutsideLimit ==
  \A c \in Calls : pc[c] = "limit" => ask[c].k \notin 1..ReqLimitNum

-----------------------------------------------------------------------------
(* Liveness and refinement *)

\* Every call that starts ends, whatever is lost or crashes.
CallEnds == \A c \in Calls : pc[c] \in Waiting ~> pc[c] \in Ended

\* The session of call c, when its requests are not retried.
SessionState(c) ==
  LET sender == Attempt(c, "getRandomMsgs", 0)
      fetch  == Attempt(c, "getDecryptedYOps", 0)
  IN IF conn[fetch] = "replied" /\ reply[fetch].status = "ok" THEN "spent"
     ELSE IF reply[sender] = NoReply THEN "none"
     ELSE IF otSenderMap[ask[c].token] = sender THEN "open" ELSE "lost"

Outcome(c) == IF pc[c] \in Waiting THEN "asked" ELSE pc[c]
Origin(c)  == IF got[c] = NoSender THEN "none" ELSE got[c].call

Transfer == INSTANCE OTTransfer WITH
  k <- [c \in Calls |-> ask[c].k],
  outcome <- [c \in Calls |-> Outcome(c)],
  session <- [c \in Calls |-> SessionState(c)],
  from <- [c \in Calls |-> Origin(c)]

\* Without retries, and with distinct tokens, the service is OTTransfer:
\* crashes, lost connections and races on the map show only as failures.
ImplementsTransfer == Transfer!Spec
=============================================================================
