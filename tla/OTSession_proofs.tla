-------------------------- MODULE OTSession_proofs --------------------------
(***************************************************************************)
(* Proofs about OTSession, for any calls, tokens, retries and crashes.     *)
(***************************************************************************)
EXTENDS OTSession, TLAPS

USE NetworkAssumption, ServerAssumption

\* The fields of an attempt, and the attempt made of three fields.
LEMMA AttemptFields ==
  /\ \A c \in Calls, e \in Endpoints, n \in 0..MaxRetry :
       /\ Attempt(c, e, n) \in Attempts
       /\ Attempt(c, e, n).call = c
       /\ Attempt(c, e, n).to = e
       /\ Attempt(c, e, n).nr = n
  /\ \A a \in Attempts : /\ a.call \in Calls
                         /\ a.to \in Endpoints
                         /\ a.nr \in 0..MaxRetry
  /\ Senders \subseteq Attempts
  /\ \A a \in Attempts : a \in Senders <=> a.to = "getRandomMsgs"
BY DEF Attempt, Attempts, Senders

\* The replies a handler can give, by their fields.
LEMMA ReplyFields ==
  /\ NoReply \in Replies /\ Limit \in Replies /\ Error \in Replies
  /\ \A s \in Senders : /\ Ok(s) \in Replies
                        /\ Ok(s).status = "ok"
                        /\ Ok(s).sender = s
                        /\ Ok(s) # NoReply
  /\ NoReply.status = "none" /\ Limit.status = "limit" /\ Error.status = "error"
  /\ \A r \in Replies : r.status = "ok" => r.sender \in Senders
  /\ Limit # NoReply /\ Error # NoReply
<1>1. NoReply \in Replies /\ Limit \in Replies /\ Error \in Replies
  BY DEF Replies
<1>2. NoReply.status = "none" /\ Limit.status = "limit" /\ Error.status = "error"
  BY DEF NoReply, Limit, Error
<1>3. ASSUME NEW s \in Senders
      PROVE  Ok(s) \in Replies /\ Ok(s).status = "ok" /\ Ok(s).sender = s
  BY DEF Replies, Ok
<1>4. \A s \in Senders : Ok(s) # NoReply
  BY <1>2, <1>3
<1>5. ASSUME NEW r \in Replies, r.status = "ok"
      PROVE  r.sender \in Senders
  <2>1. r \notin {NoReply, Limit, Error}
    BY <1>2, <1>5
  <2>2. PICK s \in Senders : r = Ok(s)
    BY <2>1 DEF Replies
  <2>. QED
    BY <2>2, <1>3
<1>6. Limit # NoReply /\ Error # NoReply
  BY <1>2
<1>. QED
  BY <1>1, <1>2, <1>3, <1>4, <1>5, <1>6

\* A connection that is dialled stays a function from attempts to states.
LEMMA DialType ==
  ASSUME NEW connections \in [Attempts -> ConnStates], NEW a \in Attempts
  PROVE  Dial(connections, a) \in [Attempts -> ConnStates]
BY DEF Dial, ConnStates

\* The attempt a waiting call waits on is an attempt.
LEMMA CurrentType ==
  ASSUME ClientTypeOK, NEW c \in Calls, pc[c] \in Waiting
  PROVE  Current(c) \in Attempts
BY AttemptFields DEF ClientTypeOK, Current, Waiting

\* Another attempt, or the end of the call, keeps the client's types.
LEMMA RetryType ==
  ASSUME TypeOK, NEW c \in Calls, pc[c] \in Waiting,
         NEW o \in Ended, NEW cs \in [Attempts -> ConnStates], RetryOr(c, o, cs)
  PROVE  /\ pc' \in [Calls -> {"idle"} \cup Waiting \cup Ended]
         /\ att' \in [Calls -> 0..MaxRetry]
         /\ conn' \in [Attempts -> ConnStates]
<1>1. att[c] \in 0..MaxRetry
  BY DEF TypeOK, ClientTypeOK
<1>2. CASE att[c] < MaxRetry /\ att' = [att EXCEPT ![c] = @ + 1]
           /\ conn' = Dial(cs, Attempt(c, pc[c], att[c] + 1)) /\ UNCHANGED pc
  <2>1. att[c] + 1 \in 0..MaxRetry
    BY <1>1, <1>2
  <2>2. Attempt(c, pc[c], att[c] + 1) \in Attempts
    BY <2>1, AttemptFields DEF Waiting
  <2>. QED
    BY <1>2, <2>1, <2>2, DialType DEF TypeOK, ClientTypeOK
<1>3. CASE att[c] = MaxRetry /\ conn' = cs /\ pc' = [pc EXCEPT ![c] = o] /\ UNCHANGED att
  BY <1>3 DEF TypeOK, ClientTypeOK
<1>. QED
  BY <1>2, <1>3 DEF RetryOr

-----------------------------------------------------------------------------
(* Type correctness: TypeOK is not inductive alone, for a handler looks its  *)
(* token up in otSenderMap and a /getRandomMsgs handler stores itself there. *)

\* A call that has started has a token, and nothing happens before it starts.
CallInv ==
  \A c \in Calls :
    /\ pc[c] # "idle" => ask[c].token \in Tokens
    /\ pc[c] = "idle" => rsFrom[c] = NoSender /\ got[c] = NoSender

\* A handler stands at a map access of its own endpoint, for a started call.
ConnInv ==
  \A a \in Attempts :
    /\ conn[a] = "insert" => a \in Senders
    /\ conn[a] \in {"at", "erase"} => a \notin Senders
    /\ pc[a.call] = "idle" => conn[a] = "unused" /\ reply[a] = NoReply

TypeInv == TypeOK /\ CallInv /\ ConnInv

\* Everything ServeTypeInv needs to know of a handler at a map access.
LEMMA HandlerToken ==
  ASSUME TypeInv, NEW a \in Attempts, conn[a] # "unused"
  PROVE  /\ a.call \in Calls
         /\ pc[a.call] # "idle"
         /\ Token(a) \in Tokens
         /\ Token(a) = ask[a.call].token
BY AttemptFields DEF TypeInv, CallInv, ConnInv, Token

\* The types hold initially.
LEMMA InitTypeInv == Init => TypeInv
BY AttemptFields, ReplyFields
   DEF Init, NetworkInit, ServerInit, ClientInit, TypeInv, TypeOK, NetworkTypeOK,
       ServerTypeOK, ClientTypeOK, CallInv, ConnInv, NoAsk, ConnStates

\* Every handler step keeps the types.
LEMMA ServeTypeInv ==
  ASSUME TypeInv, NEW a \in Attempts, Serve(a)
  PROVE  TypeInv'
<1>. USE DEF TypeInv, TypeOK, NetworkTypeOK, ServerTypeOK, ClientTypeOK
<1>1. conn[a] # "unused"
  BY DEF Serve, Handle, Accept, SetRandomMsgs, AtAndDecrypt, Erase
<1>2. a.call \in Calls /\ pc[a.call] # "idle" /\ Token(a) \in Tokens
  BY <1>1, HandlerToken
<1>3. UNCHANGED <<pc, att, rsFrom, got, ask>>
  BY DEF Serve, Handle, Accept, SetRandomMsgs, AtAndDecrypt, Erase, clientVars
<1>4. CallInv'
  BY <1>3 DEF CallInv
<1>5. CASE Accept(a)
  BY <1>2, <1>3, <1>4, <1>5, AttemptFields
     DEF Accept, serverVars, ConnStates, ConnInv
<1>6. CASE SetRandomMsgs(a)
  <2>1. a \in Senders
    BY <1>6 DEF SetRandomMsgs, ConnInv
  <2>2. reply' \in [Attempts -> Replies]
    BY <1>6, <2>1, ReplyFields DEF SetRandomMsgs
  <2>3. otSenderMap' \in [Tokens -> Senders \cup {NoSender}]
    BY <1>6, <2>1 DEF SetRandomMsgs, InsertIfAbsent
  <2>4. ConnInv'
    BY <1>6, <1>2, <1>3 DEF SetRandomMsgs, ConnInv
  <2>. QED
    BY <1>6, <1>3, <1>4, <2>2, <2>3, <2>4 DEF SetRandomMsgs, ConnStates
<1>7. CASE AtAndDecrypt(a)
  <2>1. a \notin Senders
    BY <1>7 DEF AtAndDecrypt, ConnInv
  <2>2. /\ conn' \in [Attempts -> ConnStates]
        /\ faults' \in SUBSET (Calls \cup {"crash", "race"})
        /\ \E s \in {"erase", "replied"} : conn' = [conn EXCEPT ![a] = s]
    BY <1>7 DEF AtAndDecrypt, ConnStates
  <2>3. \E r \in Replies : reply' = [reply EXCEPT ![a] = r]
    BY <1>7, <1>2, ReplyFields DEF AtAndDecrypt
  <2>4. reply' \in [Attempts -> Replies]
    BY <2>3
  <2>5. ConnInv'
    BY <1>2, <1>3, <2>1, <2>2, <2>3 DEF ConnInv
  <2>. QED
    BY <1>7, <1>3, <1>4, <2>2, <2>4, <2>5 DEF AtAndDecrypt, serverVars
<1>8. CASE Erase(a)
  <2>1. ConnInv'
    BY <1>8, <1>2, <1>3 DEF Erase, ConnInv
  <2>. QED
    BY <1>8, <1>3, <1>4, <2>1 DEF Erase, ConnStates
<1>. QED
  BY <1>5, <1>6, <1>7, <1>8 DEF Serve, Handle

\* A step of started call c that only sends, or gives up, attempts of c.
LEMMA OwnConnections ==
  ASSUME TypeInv, NEW c \in Calls, pc'[c] # "idle",
         \A d \in Calls \ {c} : pc'[d] = pc[d],
         UNCHANGED reply,
         \A a \in Attempts :
           conn'[a] = conn[a] \/ (a.call = c /\ conn'[a] \in {"sent", "closed"})
  PROVE  ConnInv'
BY AttemptFields DEF TypeInv, ConnInv

\* Dialling, or giving up, a connection touches attempts of its call only.
LEMMA RetryConnections ==
  ASSUME TypeInv, NEW c \in Calls, pc[c] \in Waiting, NEW o \in Ended,
         NEW cs \in [Attempts -> ConnStates],
         \A a \in Attempts :
           cs[a] = conn[a] \/ (a.call = c /\ cs[a] \in {"sent", "closed"}),
         RetryOr(c, o, cs)
  PROVE  /\ \A a \in Attempts :
              conn'[a] = conn[a] \/ (a.call = c /\ conn'[a] \in {"sent", "closed"})
         /\ \A d \in Calls \ {c} : pc'[d] = pc[d]
         /\ pc'[c] # "idle"
<1>1. CASE /\ att[c] < MaxRetry
           /\ conn' = Dial(cs, Attempt(c, pc[c], att[c] + 1))
           /\ UNCHANGED pc
  <2>1. Attempt(c, pc[c], att[c] + 1).call = c
    BY DEF Attempt
  <2>. QED
    BY <1>1, <2>1 DEF Dial, Waiting, Endpoints, ConnStates
<1>2. CASE conn' = cs /\ pc' = [pc EXCEPT ![c] = o]
  BY <1>2 DEF TypeInv, TypeOK, ClientTypeOK, Ended
<1>. QED
  BY <1>1, <1>2 DEF RetryOr

\* Every step of a call keeps the types.
LEMMA CallTypeInv ==
  ASSUME TypeInv, NEW c \in Calls, Call(c)
  PROVE  TypeInv'
<1>. USE DEF TypeInv, TypeOK, NetworkTypeOK, ServerTypeOK, ClientTypeOK
<1>1. UNCHANGED serverVars
  BY DEF Call
<1>2. ASSUME pc[c] \in Waiting PROVE Current(c) \in Attempts /\ Current(c).call = c
  BY <1>2, AttemptFields DEF Current, Waiting
<1>3. ASSUME Answered(c, "ok")
      PROVE  pc[c] \in Waiting /\ reply[Current(c)].sender \in Senders
  BY <1>2, <1>3, ReplyFields DEF Answered
<1>4. "idle" \notin Waiting /\ "idle" \notin Ended
  BY DEF Waiting, Endpoints, Ended
<1>5. CASE Start(c)
  <2>1. Attempt(c, "getRandomMsgs", 0) \in Attempts
    BY AttemptFields DEF Endpoints
  <2>2. conn' \in [Attempts -> ConnStates]
    BY <1>5, <2>1, DialType DEF Start
  <2>3. ConnInv'
    BY <1>5, <2>1, OwnConnections, AttemptFields DEF Start, Dial, Endpoints
  <2>4. CallInv'
    BY <1>5 DEF Start, CallInv
  <2>. QED
    BY <1>1, <1>5, <2>2, <2>3, <2>4 DEF Start, serverVars, Waiting, Endpoints
<1>6. CASE TakeRandomMsgs(c)
  <2>1. Attempt(c, "getDecryptedYOps", 0) \in Attempts
    BY AttemptFields DEF Endpoints
  <2>2. conn' \in [Attempts -> ConnStates]
    BY <1>6, <2>1, DialType DEF TakeRandomMsgs
  <2>3. ConnInv'
    BY <1>6, <2>1, OwnConnections, AttemptFields DEF TakeRandomMsgs, Dial, Endpoints
  <2>4. CallInv'
    BY <1>6 DEF TakeRandomMsgs, CallInv
  <2>. QED
    BY <1>1, <1>3, <1>6, <2>2, <2>3, <2>4 DEF TakeRandomMsgs, serverVars, Waiting, Endpoints
<1>7. CASE TakeMessages(c)
  BY <1>1, <1>3, <1>4, <1>7
     DEF TakeMessages, networkVars, serverVars, Ended, CallInv, ConnInv
<1>8. CASE TakeError(c)
  BY <1>1, <1>4, <1>8
     DEF TakeError, Answered, networkVars, serverVars, Ended, CallInv, ConnInv
<1>9. CASE BodyLost(c)
  <2>1. pc[c] \in Waiting
    BY <1>9 DEF BodyLost, Answered
  <2>. QED
    BY <1>1, <1>4, <1>9, <2>1 DEF BodyLost, serverVars, Ended, CallInv, ConnInv
<1>10. ASSUME pc[c] \in Waiting, NEW o \in Ended,
              NEW cs \in [Attempts -> ConnStates],
              \A a \in Attempts :
                cs[a] = conn[a] \/ (a.call = c /\ cs[a] \in {"sent", "closed"}),
              RetryOr(c, o, cs),
              UNCHANGED <<ask, reply, up, rsFrom, got>>,
              faults' \in SUBSET (Calls \cup {"crash", "race"})
       PROVE  TypeInv'
  <2>1. /\ pc' \in [Calls -> {"idle"} \cup Waiting \cup Ended]
        /\ att' \in [Calls -> 0..MaxRetry]
        /\ conn' \in [Attempts -> ConnStates]
    BY <1>10, RetryType
  <2>2. ConnInv'
    BY <1>10, RetryConnections, OwnConnections
  <2>3. CallInv'
    <3>1. /\ \A d \in Calls \ {c} : pc'[d] = pc[d]
          /\ pc'[c] # "idle"
      BY <1>10, RetryConnections
    <3>. QED
      BY <1>4, <1>10, <3>1 DEF CallInv
  <2>. QED
    BY <1>1, <1>10, <2>1, <2>2, <2>3 DEF serverVars
<1>11. CASE TakeLimit(c)
  BY <1>10, <1>11 DEF TakeLimit, Answered, Ended
<1>12. CASE ConnClosed(c)
  BY <1>10, <1>12 DEF ConnClosed, Ended
<1>13. CASE ConnLost(c)
  <2>1. pc[c] \in Waiting
    BY <1>13 DEF ConnLost
  <2>2. [conn EXCEPT ![Current(c)] = "closed"] \in [Attempts -> ConnStates]
    BY <1>2, <2>1 DEF ConnStates
  <2>3. CASE RetryOr(c, "error", conn)
    BY <1>10, <1>13, <2>1, <2>3 DEF ConnLost, Ended
  <2>4. CASE RetryOr(c, "error", [conn EXCEPT ![Current(c)] = "closed"])
    <3>. DEFINE cs == [conn EXCEPT ![Current(c)] = "closed"]
    <3>1. \A a \in Attempts :
            cs[a] = conn[a] \/ (a.call = c /\ cs[a] \in {"sent", "closed"})
      BY <1>2, <2>1
    <3>2. UNCHANGED <<ask, reply, up, rsFrom, got>>
          /\ faults' \in SUBSET (Calls \cup {"crash", "race"})
      BY <1>13 DEF ConnLost
    <3>3. "error" \in Ended
      BY DEF Ended
    <3>. HIDE DEF cs
    <3>. QED
      BY <1>10, <2>1, <2>2, <2>4, <3>1, <3>2, <3>3 DEF cs
  <2>. QED
    BY <1>13, <2>3, <2>4 DEF ConnLost
<1>. QED
  BY <1>5, <1>6, <1>7, <1>8, <1>9, <1>11, <1>12, <1>13 DEF Call, Proceed

\* Crashes and the restart keep the types.
LEMMA CrashTypeInv ==
  ASSUME TypeInv, Crash
  PROVE  TypeInv'
<1>. USE DEF TypeInv, TypeOK, NetworkTypeOK, ServerTypeOK, ClientTypeOK
<1>1. CASE ServerCrash /\ UNCHANGED clientVars
  <2>1. conn' \in [Attempts -> ConnStates] /\ reply' \in [Attempts -> Replies]
    BY <1>1, ReplyFields DEF ServerCrash, ConnStates
  <2>2. CallInv' /\ ConnInv'
    BY <1>1, AttemptFields DEF ServerCrash, clientVars, CallInv, ConnInv, InMap
  <2>3. otSenderMap' \in [Tokens -> Senders \cup {NoSender}]
        /\ crashes' \in 0..MaxCrashes
    BY <1>1 DEF ServerCrash
  <2>4. faults' \in SUBSET (Calls \cup {"crash", "race"})
    BY <1>1 DEF ServerCrash
  <2>. QED
    BY <1>1, <2>1, <2>2, <2>3, <2>4 DEF ServerCrash, clientVars
<1>2. CASE ServerRestart /\ UNCHANGED clientVars
  BY <1>2 DEF ServerRestart, clientVars, serverVars, CallInv, ConnInv
<1>3. CASE ClientCrash /\ UNCHANGED serverVars
  <2>1. \A c \in Calls : pc'[c] = "idle" <=> pc[c] = "idle"
    BY <1>3 DEF ClientCrash, Waiting, Endpoints
  <2>2. CallInv' /\ ConnInv'
    BY <1>3, <2>1, AttemptFields DEF ClientCrash, networkVars, CallInv, ConnInv
  <2>. QED
    BY <1>3, <2>2 DEF ClientCrash, networkVars, serverVars, Ended
<1>. QED
  BY <1>1, <1>2, <1>3 DEF Crash

\* TypeInv is inductive.
LEMMA NextTypeInv == TypeInv /\ [Next]_vars => TypeInv'
<1>1. ASSUME TypeInv, UNCHANGED vars PROVE TypeInv'
  BY <1>1 DEF vars, networkVars, serverVars, clientVars, TypeInv, TypeOK,
     NetworkTypeOK, ServerTypeOK, ClientTypeOK, CallInv, ConnInv
<1>. QED
  BY <1>1, ServeTypeInv, CallTypeInv, CrashTypeInv DEF Next

\* Every reachable state of the transfer is well typed.
THEOREM TypeCorrect == Spec => []TypeOK
<1>1. Spec => []TypeInv
  BY InitTypeInv, NextTypeInv, PTL DEF Spec
<1>. QED
  BY <1>1, PTL DEF TypeInv

-----------------------------------------------------------------------------
(* Senders and tokens: whatever sender the map keeps, an answer carries or a *)
(* call uses was built by an answered /getRandomMsgs with the same token.    *)

\* A sender whose random messages went out for token t.
SentFor(s, t) == s \in Senders /\ reply[s] # NoReply /\ Token(s) = t

MapInv ==
  \A t \in Tokens : otSenderMap[t] # NoSender => SentFor(otSenderMap[t], t)

ReplyInv ==
  \A a \in Attempts :
    reply[a].status = "ok" => /\ SentFor(reply[a].sender, Token(a))
                              /\ a \notin Senders => ask[a.call].k \in 1..ReqLimitNum

UsedInv ==
  \A c \in Calls :
    /\ rsFrom[c] # NoSender => SentFor(rsFrom[c], ask[c].token)
    /\ got[c] # NoSender => SentFor(got[c], ask[c].token)
    /\ pc[c] \in {"getDecryptedYOps", "messages"} => rsFrom[c] # NoSender
    /\ pc[c] = "messages" => got[c] # NoSender /\ ask[c].k \in 1..ReqLimitNum

SessionInv == TypeInv /\ MapInv /\ ReplyInv /\ UsedInv

\* What no step changes: a started call stays started with its token and k,
\* and random messages that went out stay sent.
LEMMA Stable ==
  ASSUME TypeInv, [Next]_vars
  PROVE  /\ \A c \in Calls : pc[c] # "idle" => ask'[c] = ask[c] /\ pc'[c] # "idle"
         /\ \A s \in Senders : reply[s] # NoReply => reply'[s] # NoReply
<1>. USE DEF TypeInv, TypeOK, NetworkTypeOK, ClientTypeOK
<1>1. ASSUME NEW a \in Attempts, Serve(a) PROVE UNCHANGED <<ask, pc>>
  BY <1>1 DEF Serve, Handle, Accept, SetRandomMsgs, AtAndDecrypt, Erase, clientVars
<1>2. ASSUME NEW a \in Attempts, Serve(a), NEW s \in Senders, reply[s] # NoReply
      PROVE  reply'[s] # NoReply
  <2>1. CASE Accept(a) \/ Erase(a)
    BY <1>2, <2>1 DEF Accept, Erase
  <2>2. CASE SetRandomMsgs(a)
    BY <1>2, <2>2, ReplyFields, AttemptFields DEF SetRandomMsgs, ConnInv
  <2>3. CASE AtAndDecrypt(a)
    <3>1. a \notin Senders
      BY <1>2, <2>3 DEF AtAndDecrypt, ConnInv
    <3>2. \E r : reply' = [reply EXCEPT ![a] = r]
      BY <2>3 DEF AtAndDecrypt
    <3>. QED
      BY <1>2, <3>1, <3>2, AttemptFields
  <2>. QED
    BY <1>2, <2>1, <2>2, <2>3 DEF Serve, Handle
<1>3. ASSUME NEW c \in Calls, Call(c)
      PROVE  UNCHANGED reply /\ \A d \in Calls : pc[d] # "idle" => ask'[d] = ask[d] /\ pc'[d] # "idle"
  <2>1. CASE Start(c)
    BY <2>1 DEF Start
  <2>2. CASE Proceed(c) \/ ConnLost(c) \/ BodyLost(c)
    BY <2>2 DEF Proceed, TakeRandomMsgs, TakeMessages, TakeError, TakeLimit, ConnClosed,
                ConnLost, BodyLost, RetryOr, networkVars
  <2>. QED
    BY <1>3, <2>1, <2>2 DEF Call
<1>4. ASSUME Crash
      PROVE  /\ UNCHANGED ask
             /\ \A d \in Calls : pc[d] # "idle" => pc'[d] # "idle"
             /\ \A s \in Senders : reply[s] # NoReply => reply'[s] # NoReply
  <2>1. CASE ServerCrash /\ UNCHANGED clientVars
    BY <2>1, AttemptFields DEF ServerCrash, clientVars, ConnInv
  <2>2. CASE ServerRestart \/ ClientCrash
    BY <1>4, <2>2 DEF Crash, ServerRestart, ServerCrash, ClientCrash, networkVars, clientVars
  <2>. QED
    BY <1>4, <2>1, <2>2 DEF Crash
<1>. QED
  BY <1>1, <1>2, <1>3, <1>4 DEF Next, vars, networkVars, clientVars

\* SentFor after the step, for a sender and a token named before it.
SentNext(s, t) == s \in Senders /\ reply'[s] # NoReply /\ ask'[s.call].token = t

\* What was sent for a token stays sent for it.
LEMMA SentStays ==
  ASSUME TypeInv, [Next]_vars, NEW s, NEW t, SentFor(s, t)
  PROVE  SentNext(s, t)
<1>1. s \in Attempts /\ s.call \in Calls /\ pc[s.call] # "idle"
  BY AttemptFields DEF SentFor, TypeInv, ConnInv
<1>. QED
  BY <1>1, Stable DEF SentFor, SentNext, Token

\* Nothing is sent initially.
LEMMA InitSessionInv == Init => SessionInv
BY InitTypeInv, ReplyFields
   DEF Init, NetworkInit, ServerInit, ClientInit, SessionInv, MapInv, ReplyInv, UsedInv

\* An answered "ok" carries a sender sent for the call's token.
LEMMA AnsweredOk ==
  ASSUME SessionInv, NEW c \in Calls, Answered(c, "ok")
  PROVE  /\ Current(c) \in Attempts
         /\ SentFor(reply[Current(c)].sender, ask[c].token)
         /\ pc[c] = "getDecryptedYOps" => ask[c].k \in 1..ReqLimitNum
<1>1. /\ Current(c) \in Attempts
      /\ Current(c).call = c
      /\ Current(c).to = pc[c]
  BY AttemptFields
     DEF Answered, Current, Waiting, SessionInv, TypeInv, TypeOK, ClientTypeOK
<1>2. SentFor(reply[Current(c)].sender, Token(Current(c)))
      /\ (Current(c) \notin Senders => ask[c].k \in 1..ReqLimitNum)
  BY <1>1 DEF Answered, SessionInv, ReplyInv
<1>. QED
  BY <1>1, <1>2, AttemptFields DEF Token

\* A step that leaves map and replies, or loses some of them, keeps MapInv
\* and ReplyInv.
LEMMA NothingNew ==
  ASSUME SessionInv, [Next]_vars,
         \A t \in Tokens : otSenderMap'[t] \in {otSenderMap[t], NoSender},
         \A a \in Attempts : reply'[a] = reply[a] \/ reply'[a].status # "ok"
  PROVE  MapInv' /\ ReplyInv'
<1>1. MapInv'
  BY SentStays DEF SessionInv, MapInv, SentFor, SentNext, Token
<1>2. ASSUME NEW a \in Attempts, reply'[a].status = "ok"
      PROVE  /\ SentNext(reply'[a].sender, ask'[a.call].token)
             /\ a \notin Senders => ask'[a.call].k \in 1..ReqLimitNum
  <2>1. reply'[a] = reply[a] /\ reply[a] # NoReply
    BY <1>2, ReplyFields
  <2>2. a.call \in Calls /\ pc[a.call] # "idle"
    BY <2>1, AttemptFields DEF SessionInv, TypeInv, ConnInv
  <2>3. ask'[a.call] = ask[a.call]
    BY <2>2, Stable DEF SessionInv
  <2>. QED
    BY <1>2, <2>1, <2>3, SentStays DEF SessionInv, ReplyInv, Token
<1>. QED
  BY <1>1, <1>2 DEF ReplyInv, SentFor, SentNext, Token

\* A step that leaves the calls' senders, and moves no call on to its second
\* request or to its messages, keeps UsedInv.
LEMMA NothingUsed ==
  ASSUME SessionInv, [Next]_vars, UNCHANGED <<rsFrom, got>>,
         \A c \in Calls : pc'[c] \in {"getDecryptedYOps", "messages"} => pc'[c] = pc[c]
  PROVE  UsedInv'
<1>1. ASSUME NEW c \in Calls, rsFrom[c] # NoSender \/ got[c] # NoSender
      PROVE  pc[c] # "idle" /\ ask'[c] = ask[c]
  BY <1>1, Stable DEF SessionInv, TypeInv, CallInv
<1>. QED
  BY <1>1, SentStays DEF SessionInv, UsedInv, SentFor, SentNext, Token

\* The server's steps keep SessionInv.
LEMMA ServeSessionInv ==
  ASSUME SessionInv, NEW a \in Attempts, Serve(a)
  PROVE  MapInv' /\ ReplyInv' /\ UsedInv'
<1>. USE DEF TypeOK, NetworkTypeOK, ServerTypeOK, ClientTypeOK
<1>1. TypeInv /\ [Next]_vars
  BY DEF SessionInv, Next
<1>2. UNCHANGED clientVars /\ UNCHANGED ask
  BY DEF Serve, Handle, Accept, SetRandomMsgs, AtAndDecrypt, Erase
<1>3. UsedInv'
  BY <1>1, <1>2, NothingUsed DEF clientVars
<1>4. /\ a.call \in Calls
      /\ conn[a] # "unused" => pc[a.call] # "idle" /\ Token(a) \in Tokens
  BY <1>1, HandlerToken, AttemptFields
<1>5. CASE Accept(a)
  <2>1. UNCHANGED <<otSenderMap, reply>>
    BY <1>5 DEF Accept, serverVars
  <2>. QED
    BY <1>1, <1>3, <2>1, NothingNew
<1>6. CASE SetRandomMsgs(a)
  <2>1. a \in Senders /\ Token(a)' = Token(a)
    BY <1>1, <1>2, <1>6 DEF SetRandomMsgs, TypeInv, ConnInv, Token
  <2>2. reply' = [reply EXCEPT ![a] = Ok(a)]
    BY <1>6 DEF SetRandomMsgs
  <2>3. SentNext(a, Token(a))
    BY <1>1, <1>2, <2>1, <2>2, ReplyFields DEF SentNext, Token, TypeInv
  <2>4. MapInv'
    <3>1. \A t \in Tokens : otSenderMap'[t] = otSenderMap[t] \/ (otSenderMap'[t] = a /\ t = Token(a))
      BY <1>1, <1>6 DEF SetRandomMsgs, InsertIfAbsent, TypeInv
    <3>. QED
      BY <1>1, <2>1, <2>3, <3>1, SentStays DEF SessionInv, MapInv, SentFor, SentNext, Token
  <2>5. ReplyInv'
    <3>1. ASSUME NEW b \in Attempts, b # a PROVE reply'[b] = reply[b] /\ Token(b)' = Token(b)
      BY <1>1, <1>2, <2>2, <3>1 DEF TypeInv, Token
    <3>2. reply'[a].status = "ok" /\ reply'[a].sender = a
      BY <1>1, <2>1, <2>2, ReplyFields DEF TypeInv
    <3>. QED
      BY <1>1, <1>2, <2>1, <2>3, <3>1, <3>2, SentStays
         DEF SessionInv, ReplyInv, SentFor, SentNext, Token
  <2>. QED
    BY <1>3, <2>4, <2>5
<1>7. CASE AtAndDecrypt(a)
  <2>. DEFINE s == otSenderMap[Token(a)]
  <2>1. a \notin Senders /\ Token(a) \in Tokens /\ UNCHANGED otSenderMap
    BY <1>1, <1>4, <1>7 DEF AtAndDecrypt, serverVars, TypeInv, ConnInv
  <2>2. \/ reply' = [reply EXCEPT ![a] = Limit]
        \/ reply' = [reply EXCEPT ![a] = Error]
        \/ /\ reply' = [reply EXCEPT ![a] = Ok(s)]
           /\ s # NoSender
           /\ ask[a.call].k \in 1..ReqLimitNum
    <3>1. ask[a.call].k \in Nat
      BY <1>1, <1>4 DEF TypeInv
    <3>. QED
      BY <1>7, <3>1 DEF AtAndDecrypt, Verdicts
  <2>3. CASE reply' = [reply EXCEPT ![a] = Limit] \/ reply' = [reply EXCEPT ![a] = Error]
    <3>1. \A b \in Attempts : reply'[b] = reply[b] \/ reply'[b].status # "ok"
      BY <1>1, <2>3, ReplyFields DEF TypeInv
    <3>. QED
      BY <1>1, <1>3, <2>1, <3>1, NothingNew
  <2>4. CASE reply' = [reply EXCEPT ![a] = Ok(s)] /\ s # NoSender
             /\ ask[a.call].k \in 1..ReqLimitNum
    <3>1. SentFor(s, Token(a)) /\ Token(a)' = Token(a)
      BY <1>2, <2>1, <2>4 DEF SessionInv, MapInv, Token
    <3>2. SentNext(s, Token(a))
      BY <1>1, <3>1, SentStays
    <3>3. s \in Senders /\ reply'[a].status = "ok" /\ reply'[a].sender = s
      BY <1>1, <2>4, <3>1, ReplyFields DEF SentFor, TypeInv
    <3>4. ASSUME NEW b \in Attempts, b # a PROVE reply'[b] = reply[b] /\ Token(b)' = Token(b)
      BY <1>1, <1>2, <2>4, <3>4 DEF TypeInv, Token
    <3>5. MapInv'
      BY <1>1, <2>1, SentStays DEF SessionInv, MapInv, SentFor, SentNext, Token
    <3>6. ASSUME NEW b \in Attempts, reply'[b].status = "ok"
          PROVE  /\ SentNext(reply'[b].sender, Token(b))
                 /\ b \notin Senders => ask'[b.call].k \in 1..ReqLimitNum
      <4>1. CASE b = a
        <5>1. ask' = ask
          BY <1>2
        <5>. QED
          BY <2>4, <3>1, <3>2, <3>3, <4>1, <5>1
      <4>2. CASE b # a
        <5>1. reply'[b] = reply[b] /\ Token(b)' = Token(b) /\ ask' = ask
          BY <1>2, <3>4, <4>2
        <5>2. SentFor(reply[b].sender, Token(b))
              /\ (b \notin Senders => ask[b.call].k \in 1..ReqLimitNum)
          BY <3>6, <5>1 DEF SessionInv, ReplyInv
        <5>. QED
          BY <1>1, <5>1, <5>2, SentStays
      <4>. QED
        BY <4>1, <4>2
    <3>. QED
      BY <1>2, <1>3, <3>5, <3>6 DEF ReplyInv, SentFor, SentNext, Token
  <2>. QED
    BY <2>2, <2>3, <2>4, <2>1
<1>8. CASE Erase(a)
  <2>1. \A t \in Tokens : otSenderMap'[t] \in {otSenderMap[t], NoSender}
    BY <1>1, <1>8 DEF Erase, TypeInv
  <2>. QED
    BY <1>1, <1>3, <1>8, <2>1, NothingNew DEF Erase
<1>. QED
  BY <1>3, <1>5, <1>6, <1>7, <1>8 DEF Serve, Handle
\* The calls' steps keep SessionInv.
LEMMA CallSessionInv ==
  ASSUME SessionInv, NEW c \in Calls, Call(c)
  PROVE  MapInv' /\ ReplyInv' /\ UsedInv'
<1>. USE DEF TypeOK, ClientTypeOK
<1>1. TypeInv /\ [Next]_vars
  BY DEF SessionInv, Next
<1>2. UNCHANGED <<otSenderMap, reply>>
  BY DEF Call, serverVars, Start, Proceed, TakeRandomMsgs, TakeMessages, TakeError,
         TakeLimit, ConnClosed, ConnLost, BodyLost, networkVars
<1>3. MapInv' /\ ReplyInv'
  BY <1>1, <1>2, NothingNew
<1>4. ASSUME NEW d \in Calls, d # c
      PROVE  pc'[d] = pc[d] /\ rsFrom'[d] = rsFrom[d] /\ got'[d] = got[d]
  BY <1>1, <1>4
     DEF TypeInv, Call, Start, Proceed, TakeRandomMsgs, TakeMessages, TakeError,
         TakeLimit, ConnClosed, ConnLost, BodyLost, RetryOr
<1>5. ASSUME NEW d \in Calls, rsFrom[d] # NoSender \/ got[d] # NoSender
      PROVE  ask'[d] = ask[d]
  BY <1>1, <1>5, Stable DEF TypeInv, CallInv
<1>6. CASE Start(c) \/ TakeError(c) \/ TakeLimit(c) \/ ConnClosed(c) \/ ConnLost(c) \/ BodyLost(c)
  <2>1. UNCHANGED <<rsFrom, got>>
    BY <1>6 DEF Start, TakeError, TakeLimit, ConnClosed, ConnLost, BodyLost
  <2>2. pc'[c] \in {"getDecryptedYOps", "messages"} => pc'[c] = pc[c]
    BY <1>1, <1>6
       DEF TypeInv, Start, TakeError, TakeLimit, ConnClosed, ConnLost, BodyLost, RetryOr
  <2>. QED
    BY <1>1, <1>3, <1>4, <2>1, <2>2, NothingUsed
<1>7. CASE TakeRandomMsgs(c)
  <2>. DEFINE s == reply[Current(c)].sender
  <2>1. SentFor(s, ask[c].token)
    BY <1>7, AnsweredOk DEF TakeRandomMsgs
  <2>2. SentNext(s, ask[c].token) /\ s # NoSender
    BY <1>1, <2>1, SentStays, AttemptFields DEF SentFor
  <2>3. /\ rsFrom'[c] = s /\ UNCHANGED <<ask, got>>
        /\ pc'[c] = "getDecryptedYOps"
    BY <1>1, <1>7 DEF TakeRandomMsgs, TypeInv
  <2>. HIDE DEF s
  <2>4. ASSUME NEW d \in Calls
        PROVE  /\ rsFrom'[d] # NoSender => SentNext(rsFrom'[d], ask'[d].token)
               /\ got'[d] # NoSender => SentNext(got'[d], ask'[d].token)
    BY <1>1, <1>4, <2>2, <2>3, SentStays DEF SessionInv, UsedInv
  <2>5. ASSUME NEW d \in Calls
        PROVE  /\ pc'[d] \in {"getDecryptedYOps", "messages"} => rsFrom'[d] # NoSender
               /\ pc'[d] = "messages" => got'[d] # NoSender /\ ask'[d].k \in 1..ReqLimitNum
    BY <1>4, <2>2, <2>3 DEF SessionInv, UsedInv
  <2>. QED
    BY <1>3, <2>4, <2>5 DEF UsedInv, SentFor, SentNext, Token
<1>8. CASE TakeMessages(c)
  <2>. DEFINE s == reply[Current(c)].sender
  <2>1. SentFor(s, ask[c].token) /\ ask[c].k \in 1..ReqLimitNum /\ rsFrom[c] # NoSender
    BY <1>8, AnsweredOk DEF TakeMessages, SessionInv, UsedInv
  <2>2. SentNext(s, ask[c].token) /\ s # NoSender
    BY <1>1, <2>1, SentStays, AttemptFields DEF SentFor
  <2>3. got'[c] = s /\ UNCHANGED <<ask, rsFrom>>
    BY <1>1, <1>8 DEF TakeMessages, TypeInv, networkVars
  <2>. HIDE DEF s
  <2>4. ASSUME NEW d \in Calls
        PROVE  /\ rsFrom'[d] # NoSender => SentNext(rsFrom'[d], ask'[d].token)
               /\ got'[d] # NoSender => SentNext(got'[d], ask'[d].token)
    BY <1>1, <1>4, <2>2, <2>3, SentStays DEF SessionInv, UsedInv
  <2>5. ASSUME NEW d \in Calls
        PROVE  /\ pc'[d] \in {"getDecryptedYOps", "messages"} => rsFrom'[d] # NoSender
               /\ pc'[d] = "messages" => got'[d] # NoSender /\ ask'[d].k \in 1..ReqLimitNum
    BY <1>4, <2>1, <2>2, <2>3 DEF SessionInv, UsedInv
  <2>. QED
    BY <1>3, <2>4, <2>5 DEF UsedInv, SentFor, SentNext, Token
<1>. QED
  BY <1>6, <1>7, <1>8 DEF Call, Proceed

\* Crashes and the restart keep SessionInv.
LEMMA CrashSessionInv ==
  ASSUME SessionInv, Crash
  PROVE  MapInv' /\ ReplyInv' /\ UsedInv'
<1>. USE DEF TypeOK, NetworkTypeOK, ServerTypeOK
<1>1. TypeInv /\ [Next]_vars
  BY DEF SessionInv, Next
<1>2. UNCHANGED <<rsFrom, got>>
      /\ \A c \in Calls : pc'[c] \in {"getDecryptedYOps", "messages"} => pc'[c] = pc[c]
  BY DEF Crash, ServerCrash, ServerRestart, ClientCrash, clientVars
<1>3. UsedInv'
  BY <1>1, <1>2, NothingUsed
<1>4. CASE ServerCrash
  <2>1. \A t \in Tokens : otSenderMap'[t] = NoSender
    BY <1>4 DEF ServerCrash
  <2>2. \A a \in Attempts : reply'[a] = reply[a] \/ reply'[a].status # "ok"
    BY <1>4, ReplyFields DEF ServerCrash
  <2>. QED
    BY <1>1, <1>3, <2>1, <2>2, NothingNew
<1>5. CASE UNCHANGED <<otSenderMap, reply>>
  BY <1>1, <1>3, <1>5, NothingNew
<1>. QED
  BY <1>4, <1>5 DEF Crash, ServerRestart, ClientCrash, networkVars, serverVars

\* SessionInv is inductive.
LEMMA NextSessionInv == SessionInv /\ [Next]_vars => SessionInv'
<1>1. ASSUME SessionInv, [Next]_vars PROVE TypeInv'
  BY <1>1, NextTypeInv DEF SessionInv
<1>2. ASSUME SessionInv, UNCHANGED vars PROVE MapInv' /\ ReplyInv' /\ UsedInv'
  BY <1>2 DEF vars, networkVars, serverVars, clientVars, SessionInv, MapInv, ReplyInv,
              UsedInv, SentFor, Token
<1>3. ASSUME SessionInv, Next PROVE MapInv' /\ ReplyInv' /\ UsedInv'
  BY <1>3, ServeSessionInv, CallSessionInv, CrashSessionInv DEF Next
<1>. QED
  BY <1>1, <1>2, <1>3 DEF SessionInv

\* SessionInv holds in every reachable state.
LEMMA SessionInvariant == Spec => []SessionInv
BY InitSessionInv, NextSessionInv, PTL DEF Spec

\* Nobody is sent the messages of no choice, or of more choices than
\* reqLimitNum allows, by any server handler, retry or crash.
THEOREM LimitIsHonoured == Spec => []LimitHonoured
<1>1. SessionInv => LimitHonoured
  BY DEF SessionInv, UsedInv, LimitHonoured
<1>. QED
  BY <1>1, SessionInvariant, PTL

\* Garbage needs two handled /getRandomMsgs requests with one token.
THEOREM GarbageOnlyFromDuplicate == Spec => []GarbageNeedsDuplicate
<1>1. SessionInv => GarbageNeedsDuplicate
  BY DEF SessionInv, UsedInv, SentFor, GarbageNeedsDuplicate
<1>. QED
  BY <1>1, SessionInvariant, PTL

-----------------------------------------------------------------------------
(* The shipped configuration: no retries, and tokens that do not repeat.     *)

\* Two started calls have different tokens when tokens do not repeat.
DistinctInv ==
  DistinctTokens =>
    \A c, d \in Calls :
      c # d /\ pc[c] # "idle" /\ pc[d] # "idle" => ask[c].token # ask[d].token

\* Only Start draws a token, and it draws one no other call has.
LEMMA NextDistinct == TypeInv /\ DistinctInv /\ [Next]_vars => DistinctInv'
<1>. SUFFICES ASSUME TypeInv, DistinctInv, [Next]_vars, DistinctTokens
              PROVE  DistinctInv'
  BY DEF DistinctInv
<1>. USE DEF TypeInv, TypeOK, NetworkTypeOK, ClientTypeOK
<1>1. ASSUME NEW c \in Calls, Start(c) PROVE DistinctInv'
  <2>1. PICK t \in Tokens :
          /\ \A d \in Calls : ask[d].token # t
          /\ ask'[c].token = t
          /\ \A d \in Calls \ {c} : ask'[d] = ask[d] /\ pc'[d] = pc[d]
    BY <1>1 DEF Start
  <2>. QED
    BY <2>1 DEF DistinctInv
<1>2. CASE /\ UNCHANGED ask
           /\ \A c \in Calls : pc'[c] # "idle" => pc[c] # "idle"
  BY <1>2 DEF DistinctInv
<1>3. ASSUME NEW c \in Calls, Proceed(c) \/ ConnLost(c) \/ BodyLost(c)
      PROVE  UNCHANGED ask /\ \A d \in Calls : pc'[d] # "idle" => pc[d] # "idle"
  BY <1>3 DEF Proceed, TakeRandomMsgs, TakeMessages, TakeError, TakeLimit, ConnClosed,
              ConnLost, BodyLost, RetryOr, networkVars, Answered, Waiting, Endpoints
<1>4. ASSUME NEW a \in Attempts, Serve(a)
      PROVE  UNCHANGED <<ask, pc>>
  BY <1>4 DEF Serve, Handle, Accept, SetRandomMsgs, AtAndDecrypt, Erase, clientVars
<1>5. ASSUME Crash
      PROVE  UNCHANGED ask /\ \A d \in Calls : pc'[d] # "idle" => pc[d] # "idle"
  BY <1>5 DEF Crash, ServerCrash, ServerRestart, ClientCrash, networkVars, clientVars, Waiting,
              Endpoints
<1>6. ASSUME UNCHANGED vars
      PROVE  UNCHANGED <<ask, pc>>
  BY <1>6 DEF vars, networkVars, clientVars
<1>. QED
  BY <1>1, <1>2, <1>3, <1>4, <1>5, <1>6 DEF Next, Call

\* DistinctInv holds in every reachable state.
LEMMA DistinctInvariant == Spec => []DistinctInv
<1>1. Init => DistinctInv
  BY DEF Init, ClientInit, DistinctInv
<1>2. SessionInv => TypeInv
  BY DEF SessionInv
<1>. QED
  BY <1>1, <1>2, NextDistinct, SessionInvariant, PTL DEF Spec

\* A call's messages come from its own session, when tokens do not repeat.
LEMMA OwnSender ==
  ASSUME SessionInv, DistinctInv, DistinctTokens, NEW c \in Calls,
         pc[c] # "idle", NEW s, SentFor(s, ask[c].token)
  PROVE  s \in Senders /\ s.call = c
BY AttemptFields DEF SentFor, Token, SessionInv, TypeInv, ConnInv, DistinctInv

\* With maxRetry=0 and tokens that do not repeat, whoever gets messages gets
\* those that the sender of its own random messages decrypted.
THEOREM ConfiguredCallsObtain ==
  ASSUME DistinctTokens, MaxRetry = 0
  PROVE  Spec => []ChosenObtained
<1>1. ASSUME SessionInv, DistinctInv, NEW c \in Calls, pc[c] = "messages"
      PROVE  got[c] = rsFrom[c]
  <2>1. SentFor(got[c], ask[c].token) /\ SentFor(rsFrom[c], ask[c].token)
    BY <1>1 DEF SessionInv, UsedInv
  <2>2. got[c] \in Senders /\ got[c].call = c /\ rsFrom[c] \in Senders /\ rsFrom[c].call = c
    BY <1>1, <2>1, OwnSender
  <2>3. \A s, t \in Senders : s.call = t.call => s = t
    BY DEF Senders, Attempts
  <2>. QED
    BY <2>2, <2>3
<1>2. SessionInv /\ DistinctInv => ChosenObtained
  BY <1>1 DEF ChosenObtained
<1>. QED
  BY <1>2, SessionInvariant, DistinctInvariant, PTL
-----------------------------------------------------------------------------
(* What an undisturbed call finds and leaves: the sender of its first       *)
(* request while it still needs it, and nothing once it has its messages.   *)
(* A call is retried without a fault, too, when the guard of decrypt reads  *)
(* ciphertext for its limit; so nothing below assumes MaxRetry = 0.         *)

\* A handler that erases has the answer of a decryption.
EraseInv == \A a \in Attempts : conn[a] = "erase" => reply[a].status = "ok"

\* A call begins with attempt 0.
FreshInv == \A c \in Calls : pc[c] = "idle" => att[c] = 0

\* Only the attempt a call waits for can still be under way.
Settled(c) ==
  \A a \in Attempts :
    /\ a.call = c
    /\ pc[c] \in Waiting => a # Current(c)
    /\ pc[c] \in Waiting \cup {"messages"}
    => conn[a] \in {"unused", "replied"}

\* The call's sender is to be found: its random messages were sent, and no
\* ops were decrypted yet.
Needs(c) ==
  \/ pc[c] = "getRandomMsgs" /\ conn[Current(c)] = "replied"
  \/ pc[c] = "getDecryptedYOps" /\ ~ Answered(c, "ok")

\* The call's ops were decrypted and answered.
Done(c) == pc[c] = "messages" \/ (pc[c] = "getDecryptedYOps" /\ Answered(c, "ok"))

\* No attempt of the waiting call found its sender missing.
NoMiss(c) ==
  pc[c] \in Waiting => \A a \in Attempts : a.call = c => reply[a].status # "error"

Quiet(c) ==
  c \notin faults =>
    /\ Settled(c)
    /\ "race" \notin faults /\ Done(c) => otSenderMap[ask[c].token] = NoSender
    /\ faults \cap {"crash", "race"} = {} =>
         /\ pc[c] # "error"
         /\ NoMiss(c)
         /\ Needs(c) => otSenderMap[ask[c].token] # NoSender

QuietInv == \A c \in Calls : Quiet(c)

OutcomeInv == SessionInv /\ DistinctInv /\ EraseInv /\ FreshInv /\ QuietInv

-----------------------------------------------------------------------------
\* No step forgets a fault.
LEMMA FaultsStay == [Next]_vars => faults \subseteq faults'
<1>1. ASSUME NEW a \in Attempts, Serve(a) PROVE faults \subseteq faults'
  BY <1>1 DEF Serve, Handle, Accept, SetRandomMsgs, AtAndDecrypt, Erase
<1>2. ASSUME NEW c \in Calls, Call(c) PROVE faults \subseteq faults'
  BY <1>2 DEF Call, Start, Proceed, TakeRandomMsgs, TakeMessages, TakeError, TakeLimit,
              ConnClosed, ConnLost, BodyLost, networkVars
<1>3. ASSUME Crash PROVE faults \subseteq faults'
  BY <1>3 DEF Crash, ServerCrash, ServerRestart, ClientCrash, networkVars
<1>4. ASSUME UNCHANGED vars PROVE faults \subseteq faults'
  BY <1>4 DEF vars, networkVars
<1>. QED
  BY <1>1, <1>2, <1>3, <1>4 DEF Next

\* A step that leaves a call's attempts, and the entry of its token, alone.
LEMMA Elsewhere ==
  ASSUME TypeInv, NEW c \in Calls, Quiet(c), faults \subseteq faults',
         pc'[c] = pc[c], att'[c] = att[c], ask'[c] = ask[c],
         \A a \in Attempts : a.call = c => conn'[a] = conn[a] /\ reply'[a] = reply[a],
         pc[c] # "idle" => otSenderMap'[ask[c].token] = otSenderMap[ask[c].token]
  PROVE  Quiet(c)'
<1>1. Current(c)' = Current(c)
  BY DEF Current, Attempt
<1>2. pc[c] \in Waiting => /\ Current(c) \in Attempts
                           /\ Current(c).call = c
  BY CurrentType, AttemptFields DEF TypeInv, TypeOK, ClientTypeOK, Current, Waiting
<1>3. \A st : Answered(c, st)' <=> Answered(c, st)
  BY <1>1, <1>2 DEF Answered
<1>4. Needs(c)' <=> Needs(c)
  BY <1>1, <1>2, <1>3 DEF Needs, Waiting, Endpoints
<1>5. Done(c)' <=> Done(c)
  BY <1>3 DEF Done
<1>6. (Needs(c) \/ Done(c)) => pc[c] # "idle"
  BY DEF Needs, Done
<1>7. Settled(c) => Settled(c)'
  BY <1>1 DEF Settled
<1>8. NoMiss(c) => NoMiss(c)'
  BY DEF NoMiss
<1>. QED
  BY <1>4, <1>5, <1>6, <1>7, <1>8 DEF Quiet

\* Handlers keep EraseInv and FreshInv, and so do calls and crashes.
LEMMA NextEraseFresh ==
  TypeInv /\ EraseInv /\ FreshInv /\ [Next]_vars => EraseInv' /\ FreshInv'
<1>. SUFFICES ASSUME TypeInv, EraseInv, FreshInv, [Next]_vars
              PROVE  EraseInv' /\ FreshInv'
  OBVIOUS
<1>. USE DEF TypeInv, TypeOK, NetworkTypeOK, ClientTypeOK
<1>1. ASSUME NEW a \in Attempts, Serve(a) PROVE EraseInv' /\ FreshInv'
  <2>1. FreshInv'
    BY <1>1 DEF FreshInv, Serve, clientVars
  <2>2. CASE Accept(a)
    BY <2>1, <2>2 DEF Accept, EraseInv
  <2>3. CASE SetRandomMsgs(a)
    BY <2>1, <2>3 DEF SetRandomMsgs, EraseInv
  <2>4. CASE AtAndDecrypt(a)
    BY <2>1, <2>4, ReplyFields DEF AtAndDecrypt, EraseInv, Ok
  <2>5. CASE Erase(a)
    BY <2>1, <2>5 DEF Erase, EraseInv
  <2>. QED
    BY <1>1, <2>1, <2>2, <2>3, <2>4, <2>5 DEF Serve, Handle
<1>2. ASSUME NEW c \in Calls, Call(c) PROVE EraseInv' /\ FreshInv'
  <2>1. UNCHANGED reply /\ \A a \in Attempts : conn'[a] = "erase" => conn[a] = "erase"
    BY <1>2 DEF Call, Start, Proceed, TakeRandomMsgs, TakeMessages, TakeError, TakeLimit,
                ConnClosed, ConnLost, BodyLost, RetryOr, Dial, networkVars
  <2>2. \A d \in Calls : pc'[d] = "idle" => pc[d] = "idle" /\ att'[d] = att[d]
    BY <1>2 DEF Call, Start, Proceed, TakeRandomMsgs, TakeMessages, TakeError, TakeLimit,
                ConnClosed, ConnLost, BodyLost, RetryOr, Answered, Waiting, Endpoints
  <2>. QED
    BY <2>1, <2>2 DEF EraseInv, FreshInv
<1>3. ASSUME Crash PROVE EraseInv' /\ FreshInv'
  BY <1>3 DEF Crash, ServerCrash, ServerRestart, ClientCrash, EraseInv, FreshInv, InMap,
              networkVars, clientVars, Waiting, Endpoints
<1>4. ASSUME UNCHANGED vars PROVE EraseInv' /\ FreshInv'
  BY <1>4 DEF vars, networkVars, clientVars, EraseInv, FreshInv
<1>. QED
  BY <1>1, <1>2, <1>3, <1>4 DEF Next

-----------------------------------------------------------------------------
\* A handler's step keeps every call quiet.
LEMMA ServeQuiet ==
  ASSUME OutcomeInv, DistinctTokens, NEW a \in Attempts, Serve(a), NEW c \in Calls
  PROVE  Quiet(c)'
<1>. USE DEF TypeOK, NetworkTypeOK, ServerTypeOK, ClientTypeOK
<1>1. /\ TypeInv /\ DistinctInv /\ Quiet(c)
      /\ faults \subseteq faults'
      /\ UNCHANGED <<pc, att, ask>>
  BY FaultsStay
     DEF OutcomeInv, SessionInv, QuietInv, Next, Serve, Handle, Accept, SetRandomMsgs,
         AtAndDecrypt, Erase, clientVars
<1>2. /\ conn[a] \notin {"unused", "replied"}
      /\ \A b \in Attempts \ {a} : conn'[b] = conn[b] /\ reply'[b] = reply[b]
  BY <1>1 DEF TypeInv, Serve, Handle, Accept, SetRandomMsgs, AtAndDecrypt, Erase
<1>3. a.call \in Calls /\ pc[a.call] # "idle" /\ Token(a) \in Tokens
  BY <1>1, <1>2, HandlerToken
<1>4. \A t \in Tokens \ {Token(a)} : otSenderMap'[t] = otSenderMap[t]
  BY <1>1 DEF TypeInv, Serve, Handle, Accept, SetRandomMsgs, AtAndDecrypt, Erase,
              InsertIfAbsent, serverVars
<1>5. CASE a.call # c
  <2>1. pc[c] # "idle" => ask[c].token \in Tokens \ {Token(a)}
    BY <1>1, <1>3, <1>5 DEF DistinctInv, Token, TypeInv, CallInv
  <2>. QED
    BY <1>1, <1>2, <1>4, <1>5, <2>1, Elsewhere
<1>6. CASE a.call = c /\ c \notin faults'
  <2>1. Settled(c) /\ Token(a) = ask[c].token /\ c \notin faults
    BY <1>1, <1>6 DEF Quiet, Token
  <2>2. CASE pc[c] \notin Waiting
    <3>1. pc[c] # "messages"
      BY <1>2, <1>6, <2>1, <2>2 DEF Settled
    <3>2. pc'[c] = pc[c] /\ pc[c] \notin {"getRandomMsgs", "getDecryptedYOps"}
      BY <1>1, <2>2 DEF Waiting, Endpoints
    <3>. QED
      BY <1>1, <2>1, <2>2, <3>1, <3>2 DEF Quiet, Settled, NoMiss, Needs, Done
  <2>3. CASE pc[c] \in Waiting
    <3>1. a = Current(c) /\ Current(c)' = Current(c) /\ a.to = pc[c] /\ pc'[c] = pc[c]
      BY <1>1, <1>2, <1>6, <2>1, <2>3 DEF Settled, Current, Attempt
    <3>2. Settled(c)'
      BY <1>1, <1>2, <2>1, <3>1 DEF Settled
    <3>3. pc[c] \in {"getRandomMsgs", "getDecryptedYOps"}
          /\ (a \in Senders <=> pc[c] = "getRandomMsgs")
      BY <2>3, <3>1, AttemptFields DEF Waiting, Endpoints
    <3>4. pc[c] # "error" /\ pc[c] # "messages"
      BY <3>3
    <3>5. /\ \A st : Answered(c, st)' <=> conn'[a] = "replied" /\ reply'[a].status = st
          /\ \A st : Answered(c, st) <=> conn[a] = "replied" /\ reply[a].status = st
      BY <2>3, <3>1 DEF Answered
    <3>6. CASE Accept(a)
      BY <1>1, <2>1, <3>1, <3>2, <3>3, <3>4, <3>5, <3>6
         DEF Accept, Quiet, Needs, Done, NoMiss, TypeInv, serverVars
    <3>7. CASE SetRandomMsgs(a)
      <4>1. a \in Senders /\ pc[c] = "getRandomMsgs"
        BY <1>1, <3>3, <3>7 DEF SetRandomMsgs, TypeInv, ConnInv
      <4>2. ~ Done(c)'
        BY <3>1, <4>1 DEF Done
      <4>4. ASSUME NoMiss(c) PROVE NoMiss(c)'
        <5>1. reply'[a].status = "ok"
          BY <1>1, <3>7, <4>1, ReplyFields DEF SetRandomMsgs, TypeInv
        <5>. QED
          BY <1>1, <1>2, <4>4, <5>1 DEF NoMiss
      <4>3. "race" \in faults' \/ otSenderMap'[ask[c].token] # NoSender
        BY <1>1, <1>3, <2>1, <3>7, AttemptFields
           DEF SetRandomMsgs, InsertIfAbsent, TypeInv
      <4>. QED
        BY <1>1, <2>1, <3>2, <3>4, <4>2, <4>3, <4>4 DEF Quiet
    <3>8. CASE AtAndDecrypt(a)
      <4>1. a \notin Senders /\ pc[c] = "getDecryptedYOps" /\ UNCHANGED otSenderMap
        BY <1>1, <3>3, <3>8 DEF AtAndDecrypt, TypeInv, ConnInv, serverVars
      <4>2. Needs(c)
        BY <3>5, <3>8, <4>1 DEF AtAndDecrypt, Needs
      <4>3. ~ Answered(c, "ok")'
        BY <1>1, <3>5, <3>8, ReplyFields DEF AtAndDecrypt, TypeInv
      <4>4. ASSUME faults' \cap {"crash", "race"} = {}
            PROVE  NoMiss(c)' /\ otSenderMap[ask[c].token] # NoSender
        <5>1. NoMiss(c) /\ otSenderMap[ask[c].token] # NoSender
          BY <1>1, <2>1, <4>2, <4>4 DEF Quiet
        <5>2. reply'[a].status \in {"ok", "limit"}
          <6>1. \E v : reply' = [reply EXCEPT ![a] = IF v = "accept"
                                                    THEN Ok(otSenderMap[Token(a)]) ELSE Limit]
            BY <2>1, <3>8, <4>4, <5>1 DEF AtAndDecrypt
          <6>. QED
            BY <1>1, <6>1 DEF TypeInv, Ok, Limit
        <5>. QED
          BY <1>1, <1>2, <5>1, <5>2 DEF NoMiss
      <4>. QED
        BY <1>1, <3>2, <3>4, <4>1, <4>3, <4>4 DEF Quiet, Done
    <3>9. CASE Erase(a)
      <4>1. a \notin Senders /\ pc[c] = "getDecryptedYOps"
        BY <1>1, <3>3, <3>9 DEF Erase, TypeInv, ConnInv
      <4>2. Answered(c, "ok")' /\ reply' = reply
        BY <1>1, <3>5, <3>9 DEF Erase, OutcomeInv, EraseInv, TypeInv
      <4>3. "race" \in faults' \/ otSenderMap'[ask[c].token] = NoSender
        BY <1>1, <1>3, <2>1, <3>9 DEF Erase, TypeInv
      <4>4. ~ Needs(c)'
        BY <1>1, <4>1, <4>2 DEF Needs
      <4>5. NoMiss(c) => NoMiss(c)'
        BY <1>1, <4>2 DEF NoMiss
      <4>. QED
        BY <1>1, <2>1, <3>2, <3>4, <4>3, <4>4, <4>5 DEF Quiet
    <3>. QED
      BY <3>6, <3>7, <3>8, <3>9 DEF Serve, Handle
  <2>. QED
    BY <2>2, <2>3
<1>. QED
  BY <1>5, <1>6 DEF Quiet

\* A call that dials or ends leaves the other calls' attempts alone.
LEMMA CallElsewhere ==
  ASSUME TypeInv, NEW d \in Calls, Call(d), NEW c \in Calls \ {d}
  PROVE  /\ pc'[c] = pc[c] /\ att'[c] = att[c] /\ ask'[c] = ask[c]
         /\ \A a \in Attempts : a.call = c => conn'[a] = conn[a]
         /\ UNCHANGED <<reply, otSenderMap>>
<1>. USE DEF TypeInv, TypeOK, NetworkTypeOK, ClientTypeOK
<1>1. \A x, n : Attempt(d, x, n).call = d /\ Current(d).call = d
  BY DEF Attempt, Current
<1>2. pc'[c] = pc[c] /\ att'[c] = att[c] /\ ask'[c] = ask[c]
  BY DEF Call, Start, Proceed, TakeRandomMsgs, TakeMessages, TakeError, TakeLimit,
         ConnClosed, ConnLost, BodyLost, RetryOr, networkVars
<1>3. \A a \in Attempts : a.call = c => conn'[a] = conn[a]
  BY <1>1 DEF Call, Start, Proceed, TakeRandomMsgs, TakeMessages, TakeError, TakeLimit,
              ConnClosed, ConnLost, BodyLost, RetryOr, Dial, networkVars
<1>4. UNCHANGED <<reply, otSenderMap>>
  BY DEF Call, Start, Proceed, TakeRandomMsgs, TakeMessages, TakeError, TakeLimit,
         ConnClosed, ConnLost, BodyLost, networkVars, serverVars
<1>. QED
  BY <1>2, <1>3, <1>4

\* A call's own step keeps it quiet, or is a fault.
LEMMA OwnQuiet ==
  ASSUME OutcomeInv, DistinctTokens, NEW c \in Calls, Call(c)
  PROVE  Quiet(c)'
<1>. USE DEF TypeOK, NetworkTypeOK, ClientTypeOK
<1>1. /\ TypeInv /\ Quiet(c)
      /\ faults \subseteq faults'
      /\ UNCHANGED <<reply, otSenderMap>>
  BY FaultsStay
     DEF OutcomeInv, SessionInv, QuietInv, Next, Call, Start, Proceed, TakeRandomMsgs,
         TakeMessages, TakeError, TakeLimit, ConnClosed, ConnLost, BodyLost, networkVars,
         serverVars
<1>2. CASE c \in faults'
  BY <1>2 DEF Quiet
<1>3. SUFFICES ASSUME c \notin faults' PROVE Quiet(c)'
  BY <1>2
<1>4. c \notin faults /\ Settled(c)
  BY <1>1, <1>3 DEF Quiet
<1>5. \A x \in Endpoints, n \in 0..MaxRetry : Attempt(c, x, n) \in Attempts
  BY AttemptFields
\* The call dials, and nothing else of it is under way.
<1>6. ASSUME NEW x \in Endpoints, NEW n \in 0..MaxRetry,
             pc'[c] = x, att'[c] = n,
             conn' = Dial(conn, Attempt(c, x, n)),
             \A b \in Attempts : b.call = c => conn[b] \in {"unused", "replied"},
             faults \cap {"crash", "race"} = {} =>
               /\ \A b \in Attempts : b.call = c => reply[b].status # "error"
               /\ x = "getDecryptedYOps" => /\ otSenderMap[ask[c].token] # NoSender
                                            /\ ask'[c] = ask[c]
      PROVE  Quiet(c)'
  <2>1. Current(c)' = Attempt(c, x, n) /\ Attempt(c, x, n) \in Attempts
    BY <1>5, <1>6 DEF Current
  <2>2. /\ conn'[Current(c)'] \in {"sent", "closed"}
        /\ \A b \in Attempts : b # Current(c)' => conn'[b] = conn[b]
    BY <1>1, <1>6, <2>1 DEF Dial, TypeInv
  <2>3. Settled(c)'
    BY <1>6, <2>2 DEF Settled, Waiting, Endpoints
  <2>4. ~ Answered(c, "ok")' /\ ~ Done(c)' /\ pc'[c] # "error"
    BY <1>6, <2>2 DEF Answered, Done, Endpoints
  <2>5. faults' \cap {"crash", "race"} = {} => NoMiss(c)'
    BY <1>1, <1>6 DEF NoMiss
  <2>6. faults' \cap {"crash", "race"} = {} /\ Needs(c)' => otSenderMap[ask'[c].token] # NoSender
    BY <1>1, <1>6, <2>2 DEF Needs
  <2>. QED
    BY <1>1, <2>3, <2>4, <2>5, <2>6 DEF Quiet
\* Once the awaited attempt has its answer, nothing of the call is under way.
<1>7. ASSUME NEW st, Answered(c, st)
      PROVE  /\ \A b \in Attempts : b.call = c => conn[b] \in {"unused", "replied"}
             /\ faults \cap {"crash", "race"} = {} =>
                  /\ \A b \in Attempts : b.call = c => reply[b].status # "error"
                  /\ st # "ok" \/ pc[c] = "getRandomMsgs" => Needs(c)
                  /\ Needs(c) => otSenderMap[ask[c].token] # NoSender
  BY <1>1, <1>4, <1>7 DEF Answered, Settled, Quiet, NoMiss, Needs, Waiting, Endpoints
<1>8. CASE Start(c)
  <2>1. \A b \in Attempts : b.call = c => conn[b] = "unused" /\ reply[b].status # "error"
    BY <1>1, <1>8, ReplyFields DEF Start, TypeInv, ConnInv
  <2>2. /\ pc'[c] = "getRandomMsgs" /\ att'[c] = 0
        /\ conn' = Dial(conn, Attempt(c, "getRandomMsgs", 0))
    BY <1>1, <1>8 DEF Start, OutcomeInv, FreshInv, TypeInv
  <2>. QED
    BY <1>6, <2>1, <2>2 DEF Endpoints
<1>9. CASE TakeRandomMsgs(c)
  <2>1. /\ pc'[c] = "getDecryptedYOps" /\ att'[c] = 0 /\ ask'[c] = ask[c]
        /\ conn' = Dial(conn, Attempt(c, "getDecryptedYOps", 0))
        /\ Answered(c, "ok") /\ pc[c] = "getRandomMsgs"
    BY <1>1, <1>9 DEF TakeRandomMsgs, TypeInv
  <2>. QED
    BY <1>6, <1>7, <2>1 DEF Endpoints
<1>10. CASE TakeMessages(c)
  <2>1. /\ pc'[c] = "messages" /\ ask'[c] = ask[c] /\ conn' = conn
        /\ Answered(c, "ok") /\ pc[c] = "getDecryptedYOps"
    BY <1>1, <1>10 DEF TakeMessages, TypeInv, networkVars
  <2>2. Settled(c)' /\ Done(c) /\ ~ Needs(c)'
    BY <1>7, <2>1 DEF Settled, Done, Needs, Waiting, Endpoints
  <2>3. NoMiss(c)'
    BY <2>1 DEF NoMiss, Waiting, Endpoints
  <2>. QED
    BY <1>1, <1>4, <2>1, <2>2, <2>3 DEF Quiet
<1>11. CASE TakeError(c)
  <2>1. pc'[c] = "error" /\ Answered(c, "error") /\ Current(c) \in Attempts
    BY <1>1, <1>11, CurrentType DEF TakeError, Answered, TypeInv
  <2>2. faults \cap {"crash", "race"} # {}
    BY <1>7, <2>1 DEF Answered, Current, Attempt
  <2>. QED
    BY <1>1, <2>1, <2>2 DEF Quiet, Settled, Done, Waiting, Endpoints
<1>12. CASE TakeLimit(c)
  <2>1. Answered(c, "limit") /\ pc[c] \in Endpoints /\ ask'[c] = ask[c]
        /\ att[c] \in 0..MaxRetry
    BY <1>1, <1>12 DEF TakeLimit, Answered, Waiting, TypeInv
  <2>2. CASE /\ att[c] < MaxRetry /\ att' = [att EXCEPT ![c] = @ + 1]
             /\ conn' = Dial(conn, Attempt(c, pc[c], att[c] + 1))
             /\ UNCHANGED pc
    <3>1. att[c] + 1 \in 0..MaxRetry /\ att'[c] = att[c] + 1 /\ pc'[c] = pc[c]
      BY <1>1, <2>1, <2>2 DEF TypeInv
    <3>. QED
      BY <1>6, <1>7, <2>1, <2>2, <3>1
  <2>3. CASE pc' = [pc EXCEPT ![c] = "limit"]
    <3>1. pc'[c] = "limit"
      BY <1>1, <2>3 DEF TypeInv
    <3>. QED
      BY <3>1 DEF Quiet, Settled, Done, Needs, NoMiss, Waiting, Endpoints
  <2>. QED
    BY <1>12, <2>2, <2>3 DEF TakeLimit, RetryOr
<1>13. ~ (ConnClosed(c) \/ ConnLost(c) \/ BodyLost(c))
  BY <1>3 DEF ConnClosed, ConnLost, BodyLost
<1>. QED
  BY <1>8, <1>9, <1>10, <1>11, <1>12, <1>13 DEF Call, Proceed

\* Crashes and restarts keep every call quiet.
LEMMA CrashQuiet ==
  ASSUME OutcomeInv, DistinctTokens, Crash, NEW c \in Calls
  PROVE  Quiet(c)'
<1>. USE DEF TypeOK, NetworkTypeOK, ClientTypeOK
<1>1. TypeInv /\ Quiet(c) /\ faults \subseteq faults'
  BY FaultsStay DEF OutcomeInv, SessionInv, QuietInv, Next
<1>2. CASE ServerCrash /\ UNCHANGED clientVars
  <2>1. Settled(c) => Settled(c)'
    BY <1>1, <1>2 DEF ServerCrash, clientVars, Settled, Current, InMap, Attempt
  <2>2. "crash" \in faults' /\ (pc[c] # "idle" => otSenderMap'[ask'[c].token] = NoSender)
    BY <1>1, <1>2 DEF ServerCrash, TypeInv, CallInv
  <2>3. Done(c)' => pc[c] # "idle"
    BY <1>2 DEF Done, clientVars
  <2>. QED
    BY <1>1, <2>1, <2>2, <2>3 DEF Quiet
<1>3. CASE ServerRestart /\ UNCHANGED clientVars
  BY <1>1, <1>3, Elsewhere DEF ServerRestart, clientVars, serverVars
<1>4. CASE ClientCrash /\ UNCHANGED serverVars
  <2>1. CASE pc[c] \in Waiting
    <3>1. pc'[c] = "crashed"
      BY <1>1, <1>4, <2>1 DEF ClientCrash, TypeInv
    <3>. QED
      BY <1>1, <3>1 DEF Quiet, Settled, Done, Needs, NoMiss, Waiting, Endpoints
  <2>2. CASE pc[c] \notin Waiting
    <3>1. pc'[c] = pc[c]
      BY <1>1, <1>4, <2>2 DEF ClientCrash, TypeInv
    <3>. QED
      BY <1>1, <1>4, <3>1, Elsewhere DEF ClientCrash, networkVars, serverVars
  <2>. QED
    BY <2>1, <2>2
<1>. QED
  BY <1>2, <1>3, <1>4 DEF Crash

-----------------------------------------------------------------------------
\* OutcomeInv holds in every reachable state, when tokens do not repeat.
LEMMA OutcomeInvariant ==
  ASSUME DistinctTokens
  PROVE  Spec => []OutcomeInv
<1>1. Init => EraseInv /\ FreshInv /\ QuietInv
  BY ReplyFields
     DEF Init, NetworkInit, ServerInit, ClientInit, EraseInv, FreshInv, QuietInv, Quiet,
         Settled, Done, Needs, NoMiss, Waiting, Endpoints
<1>2. ASSUME OutcomeInv, [Next]_vars
      PROVE  OutcomeInv'
  <2>1. SessionInv' /\ DistinctInv' /\ EraseInv' /\ FreshInv'
    BY <1>2, NextSessionInv, NextDistinct, NextEraseFresh DEF OutcomeInv, SessionInv
  <2>2. ASSUME NEW c \in Calls
        PROVE  Quiet(c)'
    <3>1. TypeInv /\ Quiet(c) /\ faults \subseteq faults'
      BY <1>2, FaultsStay DEF OutcomeInv, SessionInv, QuietInv
    <3>2. ASSUME UNCHANGED vars PROVE Quiet(c)'
      BY <3>1, <3>2, Elsewhere DEF vars, networkVars, serverVars, clientVars
    <3>3. ASSUME NEW d \in Calls, Call(d) PROVE Quiet(c)'
      <4>1. CASE d = c
        BY <1>2, <3>3, <4>1, OwnQuiet
      <4>2. CASE d # c
        BY <3>1, <3>3, <4>2, CallElsewhere, Elsewhere
      <4>. QED
        BY <4>1, <4>2
    <3>. QED
      BY <1>2, <3>2, <3>3, ServeQuiet, CrashQuiet DEF Next
  <2>. QED
    BY <2>1, <2>2 DEF OutcomeInv, QuietInv
<1>3. Init => SessionInv /\ DistinctInv
  BY InitSessionInv DEF Init, ClientInit, DistinctInv
<1>. QED
  BY <1>1, <1>2, <1>3, PTL DEF Spec, OutcomeInv

\* A call that got its messages without a fault of its own, or a race on the
\* map, left nothing in otSenderMap.
THEOREM SuccessLeavesNothing == Spec => []SuccessFreesEntry
<1>1. CASE DistinctTokens
  <2>1. OutcomeInv => SuccessFreesEntry
    BY DEF OutcomeInv, QuietInv, Quiet, Done, SuccessFreesEntry
  <2>. QED
    BY <1>1, <2>1, OutcomeInvariant, PTL
<1>2. CASE ~ DistinctTokens
  <2>1. SuccessFreesEntry
    BY <1>2 DEF SuccessFreesEntry
  <2>. QED
    BY <2>1, PTL
<1>. QED
  BY <1>1, <1>2

\* A caller's 500 goes back to a lost connection of the call, a crash of the
\* server or a race on the map.
THEOREM ErrorsHaveCauses == Spec => []ErrorHasCause
<1>1. CASE DistinctTokens
  <2>1. OutcomeInv => ErrorHasCause
    BY DEF OutcomeInv, QuietInv, Quiet, ErrorHasCause
  <2>. QED
    BY <1>1, <2>1, OutcomeInvariant, PTL
<1>2. CASE ~ DistinctTokens
  <2>1. ErrorHasCause
    BY <1>2 DEF ErrorHasCause
  <2>. QED
    BY <2>1, PTL
<1>. QED
  BY <1>1, <1>2

-----------------------------------------------------------------------------
(* Without retries, and with tokens that do not repeat, the service         *)
(* implements OTTransfer: each step of a handler, a call or a crash is a    *)
(* step of the promise to the callers, or none.  First those steps, by what *)
(* the mapped state of each call does.                                      *)

\* Nothing of the mapped state changes.
LEMMA NoStep ==
  ASSUME \A d \in Calls : /\ ask'[d].k = ask[d].k /\ Outcome(d)' = Outcome(d)
                          /\ SessionState(d)' = SessionState(d) /\ Origin(d)' = Origin(d)
  PROVE  UNCHANGED Transfer!vars
BY DEF Transfer!vars

\* A call fails.
LEMMA FailStep ==
  ASSUME NEW c \in Calls, Outcome(c) = "asked", Outcome(c)' \in {"limit", "error"},
         \A d \in Calls \ {c} : Outcome(d)' = Outcome(d),
         \A d \in Calls : /\ ask'[d].k = ask[d].k
                          /\ SessionState(d)' = SessionState(d) /\ Origin(d)' = Origin(d)
  PROVE  Transfer!Fail(c)
<1>1. [d \in Calls |-> Outcome(d)]' = [[d \in Calls |-> Outcome(d)] EXCEPT ![c] = Outcome(c)']
  OBVIOUS
<1>. QED
  BY <1>1 DEF Transfer!Fail

\* A call obtains its messages.
LEMMA ObtainStep ==
  ASSUME NEW c \in Calls, Outcome(c) = "asked", SessionState(c) = "spent",
         Outcome(c)' = "messages", Origin(c)' = c,
         \A d \in Calls \ {c} : Outcome(d)' = Outcome(d) /\ Origin(d)' = Origin(d),
         \A d \in Calls : ask'[d].k = ask[d].k /\ SessionState(d)' = SessionState(d)
  PROVE  Transfer!Obtain(c)
BY DEF Transfer!Obtain

\* A call's session moves, and nothing else.
LEMMA SessionStep ==
  ASSUME NEW c \in Calls,
         \A d \in Calls \ {c} : SessionState(d)' = SessionState(d),
         \A d \in Calls : /\ ask'[d].k = ask[d].k /\ Outcome(d)' = Outcome(d)
                          /\ Origin(d)' = Origin(d)
  PROVE  /\ /\ Outcome(c) # "idle" /\ SessionState(c) = "none"
            /\ SessionState(c)' \in {"open", "lost"}
            => Transfer!Open(c)
         /\ /\ SessionState(c) = "open" /\ SessionState(c)' = "spent"
            /\ ask[c].k \in 1..ReqLimitNum
            => Transfer!Spend(c)
<1>1. [d \in Calls |-> SessionState(d)]'
        = [[d \in Calls |-> SessionState(d)] EXCEPT ![c] = SessionState(c)']
  OBVIOUS
<1>. QED
  BY <1>1 DEF Transfer!Open, Transfer!Spend

\* A call is asked.
LEMMA AskStep ==
  ASSUME NEW c \in Calls, Outcome(c) = "idle", Outcome(c)' = "asked",
         ask'[c].k \in 0..MaxChosen,
         \A d \in Calls \ {c} : ask'[d].k = ask[d].k /\ Outcome(d)' = Outcome(d),
         \A d \in Calls : SessionState(d)' = SessionState(d) /\ Origin(d)' = Origin(d)
  PROVE  Transfer!Ask(c)
<1>1. [d \in Calls |-> ask[d].k]' = [[d \in Calls |-> ask[d].k] EXCEPT ![c] = ask'[c].k]
  OBVIOUS
<1>. QED
  BY <1>1 DEF Transfer!Ask

\* The server loses its open sessions.
LEMMA LoseStep ==
  ASSUME \A d \in Calls :
           /\ SessionState(d)' = IF SessionState(d) = "open" THEN "lost" ELSE SessionState(d)
           /\ ask'[d].k = ask[d].k /\ Outcome(d)' = Outcome(d) /\ Origin(d)' = Origin(d)
  PROVE  Transfer!Lose
BY DEF Transfer!Lose

\* The client leaves its waiting calls.
LEMMA AbandonStep ==
  ASSUME \A d \in Calls :
           /\ Outcome(d)' = IF Outcome(d) = "asked" THEN "crashed" ELSE Outcome(d)
           /\ ask'[d].k = ask[d].k /\ Origin(d)' = Origin(d)
           /\ SessionState(d)' = SessionState(d)
  PROVE  Transfer!Abandon
BY DEF Transfer!Abandon

-----------------------------------------------------------------------------
(* A call without retries: one attempt at each request.                      *)

SenderOf(c) == Attempt(c, "getRandomMsgs", 0)
FetchOf(c)  == Attempt(c, "getDecryptedYOps", 0)

\* Every attempt is one of the two of its call.
LEMMA TwoAttempts ==
  ASSUME MaxRetry = 0
  PROVE  /\ \A c \in Calls :
              /\ SenderOf(c) \in Senders /\ SenderOf(c).call = c
              /\ FetchOf(c) \in Attempts \ Senders /\ FetchOf(c).call = c
         /\ \A a \in Attempts :
              a = IF a \in Senders THEN SenderOf(a.call) ELSE FetchOf(a.call)
BY DEF SenderOf, FetchOf, Attempt, Attempts, Senders, Endpoints

\* Nothing is answered before its handler answers, and a call asks for its
\* ops only after its random messages came.
OrderInv ==
  /\ \A a \in Attempts : conn[a] \in {"unused", "sent", "insert", "at"} => reply[a] = NoReply
  /\ \A c \in Calls : pc[c] \in {"idle", "getRandomMsgs"} => conn[FetchOf(c)] = "unused"

\* While a handler is about to erase an entry, it is that of its own call.
ErasesOwn ==
  \A c \in Calls :
    conn[FetchOf(c)] = "erase" =>
      /\ reply[FetchOf(c)].status = "ok"
      /\ otSenderMap[ask[c].token] = SenderOf(c)

PlainInv == SessionInv /\ DistinctInv /\ OrderInv /\ ErasesOwn

\* What the map and the answers hold of a call: the call's own sender.
LEMMA OwnSession ==
  ASSUME DistinctTokens, MaxRetry = 0, SessionInv, DistinctInv, NEW c \in Calls, pc[c] # "idle"
  PROVE  /\ ask[c].token \in Tokens
         /\ otSenderMap[ask[c].token] # NoSender => /\ otSenderMap[ask[c].token] = SenderOf(c)
                                                    /\ reply[SenderOf(c)] # NoReply
         /\ reply[FetchOf(c)].status = "ok" => /\ reply[FetchOf(c)].sender = SenderOf(c)
                                               /\ reply[SenderOf(c)] # NoReply
                                               /\ ask[c].k \in 1..ReqLimitNum
<1>1. ask[c].token \in Tokens
  BY DEF SessionInv, TypeInv, CallInv
<1>2. ASSUME NEW s, SentFor(s, ask[c].token)
      PROVE  s = SenderOf(c) /\ reply[SenderOf(c)] # NoReply
  BY <1>2, OwnSender, TwoAttempts, AttemptFields DEF SentFor
<1>3. FetchOf(c) \in Attempts \ Senders /\ FetchOf(c).call = c
  BY TwoAttempts
<1>. QED
  BY <1>1, <1>2, <1>3 DEF SessionInv, MapInv, ReplyInv, Token

\* Handlers, calls and crashes keep the order.
LEMMA NextOrder ==
  ASSUME DistinctTokens, MaxRetry = 0, PlainInv, [Next]_vars
  PROVE  OrderInv'
<1>. USE DEF TypeInv, TypeOK, NetworkTypeOK, ClientTypeOK
<1>1. TypeInv /\ OrderInv
  BY DEF PlainInv, SessionInv
<1>2. ASSUME NEW a \in Attempts, Serve(a) PROVE OrderInv'
  <2>1. /\ UNCHANGED pc
        /\ conn[a] # "unused"
        /\ \A b \in Attempts \ {a} : conn'[b] = conn[b] /\ reply'[b] = reply[b]
        /\ conn'[a] \in {"unused", "sent", "insert", "at"} => Accept(a)
    BY <1>1, <1>2 DEF Serve, Handle, Accept, SetRandomMsgs, AtAndDecrypt, Erase, clientVars
  <2>2. Accept(a) => conn[a] = "sent" /\ UNCHANGED reply
    BY DEF Accept
  <2>3. \A d \in Calls : pc[d] \in {"idle", "getRandomMsgs"} => a # FetchOf(d)
    BY <1>1, <2>1 DEF OrderInv
  <2>4. \A d \in Calls : FetchOf(d) \in Attempts
    BY TwoAttempts
  <2>. QED
    BY <1>1, <2>1, <2>2, <2>3, <2>4 DEF OrderInv
<1>3. ASSUME NEW c \in Calls, Call(c) PROVE OrderInv'
  <2>1. UNCHANGED reply
    BY <1>3 DEF Call, Start, Proceed, TakeRandomMsgs, TakeMessages, TakeError, TakeLimit,
                ConnClosed, ConnLost, BodyLost, networkVars
  <2>2. SenderOf(c) \in Attempts /\ FetchOf(c) \in Attempts
        /\ \A d \in Calls : FetchOf(d) \in Attempts \ {SenderOf(c)} /\ FetchOf(d).call = d
    BY TwoAttempts, AttemptFields
  <2>3. CASE Start(c)
    <3>1. conn' = Dial(conn, SenderOf(c)) /\ pc[c] = "idle" /\ pc'[c] = "getRandomMsgs"
          /\ \A d \in Calls \ {c} : pc'[d] = pc[d]
      BY <1>1, <2>3 DEF Start, SenderOf
    <3>2. conn[SenderOf(c)] = "unused"
      BY <1>1, <3>1, TwoAttempts, AttemptFields DEF ConnInv
    <3>. QED
      BY <1>1, <2>1, <2>2, <3>1, <3>2 DEF OrderInv, Dial
  <2>4. CASE TakeRandomMsgs(c)
    <3>1. conn' = Dial(conn, FetchOf(c)) /\ pc[c] = "getRandomMsgs"
          /\ pc'[c] = "getDecryptedYOps"
          /\ \A d \in Calls \ {c} : pc'[d] = pc[d]
      BY <1>1, <2>4 DEF TakeRandomMsgs, FetchOf
    <3>. QED
      BY <1>1, <2>1, <2>2, <3>1 DEF OrderInv, Dial
  <2>5. CASE TakeMessages(c) \/ TakeError(c) \/ TakeLimit(c) \/ ConnClosed(c) \/ ConnLost(c)
             \/ BodyLost(c)
    <3>1. att[c] = 0
      BY <1>1
    <3>2. /\ \A a \in Attempts : conn'[a] = conn[a] \/ conn'[a] = "closed"
          /\ \A a \in Attempts : conn[a] = "unused" => conn'[a] = "unused"
      BY <1>1, <2>5, <3>1
         DEF TakeMessages, TakeError, TakeLimit, ConnClosed, ConnLost, BodyLost, RetryOr,
             networkVars
    <3>3. \A d \in Calls : pc'[d] \in {"idle", "getRandomMsgs"} => pc'[d] = pc[d]
      BY <1>1, <2>5, <3>1
         DEF TakeMessages, TakeError, TakeLimit, ConnClosed, ConnLost, BodyLost, RetryOr
    <3>. QED
      BY <1>1, <2>1, <2>2, <3>2, <3>3 DEF OrderInv
  <2>. QED
    BY <1>3, <2>3, <2>4, <2>5 DEF Call, Proceed
<1>4. ASSUME Crash PROVE OrderInv'
  <2>1. \A d \in Calls : FetchOf(d) \in Attempts
    BY TwoAttempts
  <2>. QED
    BY <1>1, <1>4, <2>1
       DEF Crash, ServerCrash, ServerRestart, ClientCrash, networkVars, clientVars, OrderInv,
           InMap
<1>5. ASSUME UNCHANGED vars PROVE OrderInv'
  BY <1>1, <1>5 DEF vars, networkVars, clientVars, OrderInv
<1>. QED
  BY <1>2, <1>3, <1>4, <1>5 DEF Next

\* Nothing but the handler that erases it removes an entry while the server runs.
LEMMA NextErasesOwn ==
  ASSUME DistinctTokens, MaxRetry = 0, PlainInv, [Next]_vars
  PROVE  ErasesOwn'
<1>. USE DEF TypeInv, TypeOK, NetworkTypeOK, ServerTypeOK, ClientTypeOK
<1>1. TypeInv /\ SessionInv /\ DistinctInv /\ ErasesOwn
  BY DEF PlainInv, SessionInv
<1>2. SUFFICES ASSUME NEW c \in Calls, conn'[FetchOf(c)] = "erase"
      PROVE  /\ reply'[FetchOf(c)].status = "ok"
             /\ otSenderMap'[ask'[c].token] = SenderOf(c)
  BY DEF ErasesOwn
<1>3. FetchOf(c) \in Attempts \ Senders /\ FetchOf(c).call = c
  BY TwoAttempts
<1>4. ASSUME NEW a \in Attempts, Serve(a)
      PROVE  /\ reply'[FetchOf(c)].status = "ok"
             /\ otSenderMap'[ask'[c].token] = SenderOf(c)
  <2>1. conn[a] # "unused" /\ UNCHANGED <<ask, pc>>
        /\ \A b \in Attempts \ {a} : conn'[b] = conn[b] /\ reply'[b] = reply[b]
    BY <1>1, <1>4 DEF Serve, Handle, Accept, SetRandomMsgs, AtAndDecrypt, Erase, clientVars
  <2>2. a.call \in Calls /\ pc[a.call] # "idle" /\ Token(a) \in Tokens
        /\ Token(a) = ask[a.call].token
    BY <1>1, <2>1, HandlerToken
  <2>3. pc[c] # "idle" /\ ask[c].token \in Tokens
    BY <1>1, <1>2, <1>3, <2>1, <2>2 DEF ConnInv, CallInv
  <2>4. CASE a = FetchOf(c)
    <3>1. AtAndDecrypt(a)
      BY <1>1, <1>2, <1>3, <1>4, <2>4
         DEF Serve, Handle, Accept, SetRandomMsgs, Erase, ConnInv
    <3>2. /\ UNCHANGED otSenderMap /\ otSenderMap[Token(a)] # NoSender
          /\ reply'[a].status = "ok"
      BY <1>1, <1>2, <2>4, <3>1 DEF AtAndDecrypt, serverVars, Ok
    <3>. QED
      BY <1>1, <1>3, <2>1, <2>2, <2>3, <2>4, <3>2, OwnSession DEF Token
  <2>5. CASE a # FetchOf(c)
    <3>1. reply[FetchOf(c)].status = "ok" /\ otSenderMap[ask[c].token] = SenderOf(c)
      BY <1>1, <1>2, <1>3, <2>1, <2>5 DEF ErasesOwn
    <3>2. SenderOf(c) # NoSender
      BY TwoAttempts, AttemptFields
    <3>3. CASE a.call = c
      <4>1. a \in Senders
        BY <2>5, <3>3, TwoAttempts
      <4>2. UNCHANGED otSenderMap \/ otSenderMap' = InsertIfAbsent(otSenderMap, Token(a), a)
        BY <1>1, <1>4, <4>1
           DEF Serve, Handle, Accept, SetRandomMsgs, AtAndDecrypt, Erase, ConnInv, serverVars
      <4>. QED
        BY <1>3, <2>1, <2>2, <2>5, <3>1, <3>2, <3>3, <4>2 DEF InsertIfAbsent
    <3>4. CASE a.call # c
      <4>1. ask[c].token # Token(a)
        BY <1>1, <2>2, <2>3, <3>4 DEF DistinctInv
      <4>2. otSenderMap'[ask[c].token] = otSenderMap[ask[c].token]
        BY <1>1, <1>4, <2>2, <2>3, <4>1
           DEF Serve, Handle, Accept, SetRandomMsgs, AtAndDecrypt, Erase, InsertIfAbsent,
               serverVars
      <4>. QED
        BY <1>3, <2>1, <2>5, <3>1, <4>2
    <3>. QED
      BY <3>3, <3>4
  <2>. QED
    BY <2>4, <2>5
<1>5. ASSUME conn[FetchOf(c)] = "erase", UNCHANGED <<reply, otSenderMap>>
      PROVE  /\ reply'[FetchOf(c)].status = "ok"
             /\ otSenderMap'[ask'[c].token] = SenderOf(c)
  <2>1. pc[c] # "idle"
    BY <1>1, <1>3, <1>5 DEF ConnInv
  <2>. QED
    BY <1>1, <1>5, <2>1, Stable DEF ErasesOwn
<1>6. ASSUME NEW d \in Calls, Call(d)
      PROVE  conn[FetchOf(c)] = "erase" /\ UNCHANGED <<reply, otSenderMap>>
  BY <1>1, <1>2, <1>3, <1>6
     DEF Call, Start, Proceed, TakeRandomMsgs, TakeMessages, TakeError, TakeLimit, ConnClosed,
         ConnLost, BodyLost, RetryOr, Dial, networkVars, serverVars
<1>7. ASSUME Crash
      PROVE  conn[FetchOf(c)] = "erase" /\ UNCHANGED <<reply, otSenderMap>>
  BY <1>1, <1>2, <1>3, <1>7
     DEF Crash, ServerCrash, ServerRestart, ClientCrash, networkVars, serverVars, InMap
<1>8. ASSUME UNCHANGED vars
      PROVE  conn[FetchOf(c)] = "erase" /\ UNCHANGED <<reply, otSenderMap>>
  BY <1>2, <1>8 DEF vars, networkVars, serverVars
<1>. QED
  BY <1>4, <1>5, <1>6, <1>7, <1>8 DEF Next

\* PlainInv holds in every reachable state.
LEMMA PlainInvariant ==
  ASSUME DistinctTokens, MaxRetry = 0
  PROVE  Spec => []PlainInv
<1>1. Init => PlainInv
  <2>1. Init => OrderInv /\ ErasesOwn
    BY TwoAttempts DEF Init, NetworkInit, ServerInit, ClientInit, OrderInv, ErasesOwn
  <2>. QED
    BY <2>1, InitSessionInv DEF PlainInv, Init, ClientInit, DistinctInv
<1>2. PlainInv /\ [Next]_vars => PlainInv'
  BY NextSessionInv, NextDistinct, NextOrder, NextErasesOwn DEF PlainInv, SessionInv
<1>. QED
  BY <1>1, <1>2, PTL DEF Spec

-----------------------------------------------------------------------------
(* Each step of the service.                                                 *)

\* A call whose fetch is as answered as before, with what was answered, and
\* whose sender is as sent and as kept as before, has the session it had.
LEMMA SameSession ==
  ASSUME NEW c \in Calls,
         conn'[FetchOf(c)] = "replied" <=> conn[FetchOf(c)] = "replied",
         conn[FetchOf(c)] = "replied" => reply'[FetchOf(c)] = reply[FetchOf(c)],
         reply'[SenderOf(c)] = NoReply <=> reply[SenderOf(c)] = NoReply,
         reply[SenderOf(c)] # NoReply =>
           otSenderMap'[ask'[c].token] = otSenderMap[ask[c].token]
  PROVE  SessionState(c)' = SessionState(c)
BY DEF SessionState, SenderOf, FetchOf

\* A handler's step.
LEMMA ServeStep ==
  ASSUME DistinctTokens, MaxRetry = 0, PlainInv, NEW a \in Attempts, Serve(a)
  PROVE  UNCHANGED Transfer!vars \/ Transfer!Next
<1>. USE DEF TypeInv, TypeOK, NetworkTypeOK, ServerTypeOK, ClientTypeOK
<1>. DEFINE c == a.call
<1>1. TypeInv /\ SessionInv /\ DistinctInv /\ OrderInv /\ ErasesOwn
  BY DEF PlainInv, SessionInv
<1>2. /\ conn[a] # "unused" /\ UNCHANGED <<ask, pc, got>>
      /\ \A b \in Attempts \ {a} : conn'[b] = conn[b] /\ reply'[b] = reply[b]
  BY <1>1 DEF Serve, Handle, Accept, SetRandomMsgs, AtAndDecrypt, Erase, clientVars
<1>3. /\ c \in Calls /\ pc[c] # "idle" /\ Token(a) \in Tokens /\ Token(a) = ask[c].token
      /\ a = IF a \in Senders THEN SenderOf(c) ELSE FetchOf(c)
  BY <1>1, <1>2, HandlerToken, TwoAttempts
<1>4. \A d \in Calls : /\ SenderOf(d) \in Senders /\ FetchOf(d) \in Attempts \ Senders
                       /\ SenderOf(d).call = d /\ FetchOf(d).call = d
                       /\ SenderOf(d) \in Attempts
  BY TwoAttempts, AttemptFields
<1>5. \A d \in Calls : /\ ask'[d].k = ask[d].k /\ Outcome(d)' = Outcome(d)
                       /\ Origin(d)' = Origin(d)
  BY <1>2 DEF Outcome, Origin
<1>6. ASSUME NEW d \in Calls \ {c}
      PROVE  SessionState(d)' = SessionState(d)
  <2>1. SenderOf(d) # a /\ FetchOf(d) # a
    BY <1>4
  <2>2. reply[SenderOf(d)] # NoReply => ask[d].token \in Tokens \ {Token(a)}
    BY <1>1, <1>3, <1>4 DEF ConnInv, CallInv, DistinctInv
  <2>3. \A t \in Tokens \ {Token(a)} : otSenderMap'[t] = otSenderMap[t]
    BY <1>1, <1>3 DEF Serve, Handle, Accept, SetRandomMsgs, AtAndDecrypt, Erase,
                      InsertIfAbsent, serverVars
  <2>. QED
    BY <1>2, <1>4, <2>1, <2>2, <2>3, SameSession
<1>. HIDE DEF c
<1>7. CASE Accept(a)
  <2>1. SessionState(c)' = SessionState(c)
    BY <1>1, <1>2, <1>3, <1>7, SameSession, <1>4 DEF Accept, serverVars
  <2>. QED
    BY <1>5, <1>6, <2>1, NoStep
<1>8. CASE SetRandomMsgs(a)
  <2>1. a = SenderOf(c) /\ reply[SenderOf(c)] = NoReply /\ reply'[SenderOf(c)] # NoReply
    BY <1>1, <1>3, <1>8, ReplyFields DEF SetRandomMsgs, ConnInv, OrderInv
  <2>2. ~ (conn[FetchOf(c)] = "replied" /\ reply[FetchOf(c)].status = "ok")
        /\ ~ (conn'[FetchOf(c)] = "replied" /\ reply'[FetchOf(c)].status = "ok")
    BY <1>1, <1>2, <1>3, <1>4, <2>1, OwnSession
  <2>3. SessionState(c) = "none" /\ SessionState(c)' \in {"open", "lost"}
    BY <2>1, <2>2 DEF SessionState, SenderOf, FetchOf
  <2>4. Outcome(c) # "idle"
    BY <1>3 DEF Outcome
  <2>5. Transfer!Open(c)
    BY <1>3, <1>5, <1>6, <2>3, <2>4, SessionStep
  <2>. QED
    BY <1>3, <2>5 DEF Transfer!Next
<1>9. CASE AtAndDecrypt(a)
  <2>1. a = FetchOf(c) /\ conn[a] = "at" /\ UNCHANGED otSenderMap
    BY <1>1, <1>3, <1>9 DEF AtAndDecrypt, ConnInv, serverVars
  <2>2. ~ (conn'[FetchOf(c)] = "replied" /\ reply'[FetchOf(c)].status = "ok")
    BY <1>1, <1>9, <2>1, ReplyFields DEF AtAndDecrypt
  <2>3. reply'[SenderOf(c)] = reply[SenderOf(c)]
    BY <1>2, <1>3, <1>4, <2>1
  <2>4. SessionState(c)' = SessionState(c)
    BY <1>2, <2>1, <2>2, <2>3 DEF SessionState, SenderOf, FetchOf
  <2>. QED
    BY <1>5, <1>6, <2>4, NoStep
<1>10. CASE Erase(a)
  <2>1. a = FetchOf(c) /\ conn[a] = "erase" /\ UNCHANGED reply /\ conn'[a] = "replied"
    BY <1>1, <1>3, <1>10 DEF Erase, ConnInv
  <2>2. reply[FetchOf(c)].status = "ok" /\ otSenderMap[ask[c].token] = SenderOf(c)
    BY <1>1, <1>3, <2>1 DEF ErasesOwn
  <2>3. reply[SenderOf(c)] # NoReply /\ ask[c].k \in 1..ReqLimitNum
    BY <1>1, <1>3, <2>2, OwnSession
  <2>4. SessionState(c) = "open" /\ SessionState(c)' = "spent"
    BY <2>1, <2>2, <2>3 DEF SessionState, SenderOf, FetchOf
  <2>5. Transfer!Spend(c)
    BY <1>3, <1>5, <1>6, <2>3, <2>4, SessionStep
  <2>. QED
    BY <1>3, <2>5 DEF Transfer!Next
<1>. QED
  BY <1>7, <1>8, <1>9, <1>10 DEF Serve, Handle

\* A call's step.
LEMMA CallStep ==
  ASSUME DistinctTokens, MaxRetry = 0, PlainInv, NEW c \in Calls, Call(c)
  PROVE  UNCHANGED Transfer!vars \/ Transfer!Next
<1>. USE DEF TypeInv, TypeOK, NetworkTypeOK, ServerTypeOK, ClientTypeOK
<1>1. TypeInv /\ SessionInv /\ DistinctInv /\ OrderInv
  BY DEF PlainInv, SessionInv
<1>2. UNCHANGED <<reply, otSenderMap>>
      /\ \A d \in Calls \ {c} : ask'[d] = ask[d] /\ pc'[d] = pc[d] /\ got'[d] = got[d]
  BY <1>1 DEF Call, Start, Proceed, TakeRandomMsgs, TakeMessages, TakeError, TakeLimit,
              ConnClosed, ConnLost, BodyLost, RetryOr, networkVars, serverVars
<1>3. \A d \in Calls : /\ SenderOf(d) \in Senders /\ FetchOf(d) \in Attempts \ Senders
                       /\ SenderOf(d).call = d /\ FetchOf(d).call = d
                       /\ SenderOf(d) \in Attempts
  BY TwoAttempts, AttemptFields
<1>4. \A d \in Calls \ {c} : /\ ask'[d].k = ask[d].k /\ Outcome(d)' = Outcome(d)
                             /\ Origin(d)' = Origin(d)
  BY <1>2 DEF Outcome, Origin
<1>5. att[c] = 0
  BY <1>1
\* Answers and dials change no session.
<1>6. ASSUME \A d \in Calls : conn'[FetchOf(d)] = "replied" <=> conn[FetchOf(d)] = "replied",
             reply[SenderOf(c)] # NoReply => ask'[c] = ask[c]
      PROVE  \A d \in Calls : SessionState(d)' = SessionState(d)
  BY <1>2, <1>6, SameSession
<1>7. CASE Start(c)
  <2>1. /\ conn' = Dial(conn, SenderOf(c)) /\ pc[c] = "idle" /\ pc'[c] = "getRandomMsgs"
        /\ ask'[c].k \in 0..MaxChosen /\ got' = got
    BY <1>1, <1>7 DEF Start, SenderOf
  <2>2. reply[SenderOf(c)] = NoReply
    BY <1>1, <1>3, <2>1 DEF ConnInv
  <2>3. \A d \in Calls : conn'[FetchOf(d)] = "replied" <=> conn[FetchOf(d)] = "replied"
    BY <1>1, <1>3, <2>1 DEF Dial
  <2>4. Outcome(c) = "idle" /\ Outcome(c)' = "asked" /\ \A d \in Calls : Origin(d)' = Origin(d)
    BY <2>1 DEF Outcome, Origin, Waiting, Endpoints
  <2>5. \A d \in Calls : SessionState(d)' = SessionState(d)
    BY <1>6, <2>2, <2>3
  <2>6. Transfer!Ask(c)
    BY <1>4, <2>1, <2>4, <2>5, AskStep
  <2>. QED
    BY <2>6 DEF Transfer!Next
<1>8. CASE TakeRandomMsgs(c)
  <2>1. /\ conn' = Dial(conn, FetchOf(c)) /\ pc[c] = "getRandomMsgs"
        /\ pc'[c] = "getDecryptedYOps" /\ ask' = ask /\ got' = got
    BY <1>1, <1>8 DEF TakeRandomMsgs, FetchOf
  <2>2. conn[FetchOf(c)] = "unused"
    BY <1>1, <2>1 DEF OrderInv
  <2>3. \A d \in Calls : conn'[FetchOf(d)] = "replied" <=> conn[FetchOf(d)] = "replied"
    BY <1>1, <1>3, <2>1, <2>2 DEF Dial
  <2>4. Outcome(c)' = Outcome(c) /\ Origin(c)' = Origin(c)
    BY <2>1 DEF Outcome, Origin, Waiting, Endpoints
  <2>5. \A d \in Calls : SessionState(d)' = SessionState(d)
    BY <1>6, <2>1, <2>3
  <2>. QED
    BY <1>4, <2>1, <2>4, <2>5, NoStep
<1>9. CASE TakeMessages(c)
  <2>1. /\ pc[c] = "getDecryptedYOps" /\ pc'[c] = "messages" /\ UNCHANGED <<ask, conn>>
        /\ Current(c) = FetchOf(c) /\ Answered(c, "ok")
        /\ got'[c] = reply[FetchOf(c)].sender
    BY <1>1, <1>5, <1>9 DEF TakeMessages, Current, FetchOf, networkVars
  <2>2. SessionState(c) = "spent"
    BY <2>1 DEF SessionState, Answered, FetchOf
  <2>3. reply[FetchOf(c)].sender = SenderOf(c)
    BY <1>1, <2>1, OwnSession DEF Answered
  <2>4. Origin(c)' = c
    BY <1>3, <2>1, <2>3 DEF Origin
  <2>5. Outcome(c) = "asked" /\ Outcome(c)' = "messages"
    BY <2>1 DEF Outcome, Waiting, Endpoints
  <2>6. \A d \in Calls : SessionState(d)' = SessionState(d)
    BY <1>6, <2>1
  <2>7. Transfer!Obtain(c)
    BY <1>4, <2>1, <2>2, <2>4, <2>5, <2>6, ObtainStep
  <2>. QED
    BY <2>7 DEF Transfer!Next
<1>10. CASE TakeError(c) \/ TakeLimit(c) \/ ConnClosed(c) \/ ConnLost(c) \/ BodyLost(c)
  <2>1. /\ pc[c] \in Waiting /\ pc'[c] \in {"limit", "error"} /\ UNCHANGED <<ask, got>>
        /\ conn' = conn \/ (conn[Current(c)] = "sent"
                           /\ conn' = [conn EXCEPT ![Current(c)] = "closed"])
    BY <1>1, <1>5, <1>10
       DEF TakeError, TakeLimit, ConnClosed, ConnLost, BodyLost, Answered, RetryOr, networkVars
  <2>2. \A d \in Calls : conn'[FetchOf(d)] = "replied" <=> conn[FetchOf(d)] = "replied"
    BY <1>1, <1>3, <2>1
  <2>3. Outcome(c) = "asked" /\ Outcome(c)' \in {"limit", "error"} /\ Origin(c)' = Origin(c)
    BY <2>1 DEF Outcome, Origin, Waiting, Endpoints
  <2>4. \A d \in Calls : SessionState(d)' = SessionState(d)
    BY <1>6, <2>1, <2>2
  <2>5. Transfer!Fail(c)
    BY <1>4, <2>1, <2>3, <2>4, FailStep
  <2>. QED
    BY <2>5 DEF Transfer!Next
<1>. QED
  BY <1>7, <1>8, <1>9, <1>10 DEF Call, Proceed

\* Crashes and the restart.
LEMMA CrashStep ==
  ASSUME DistinctTokens, MaxRetry = 0, PlainInv, Crash
  PROVE  UNCHANGED Transfer!vars \/ Transfer!Next
<1>. USE DEF TypeInv, TypeOK, NetworkTypeOK, ServerTypeOK, ClientTypeOK
<1>1. TypeInv
  BY DEF PlainInv, SessionInv
<1>2. \A d \in Calls : /\ SenderOf(d) \in Senders /\ FetchOf(d) \in Attempts
                       /\ SenderOf(d) \in Attempts /\ SenderOf(d) # NoSender
                       /\ SenderOf(d).call = d
  BY TwoAttempts, AttemptFields
<1>3. CASE ServerCrash /\ UNCHANGED clientVars
  <2>1. \A d \in Calls : /\ ask'[d].k = ask[d].k /\ Outcome(d)' = Outcome(d)
                         /\ Origin(d)' = Origin(d)
    BY <1>3 DEF ServerCrash, clientVars, Outcome, Origin
  <2>2. ASSUME NEW d \in Calls
        PROVE  SessionState(d)' = IF SessionState(d) = "open" THEN "lost" ELSE SessionState(d)
    <3>1. /\ conn'[FetchOf(d)] = "replied" <=> conn[FetchOf(d)] = "replied"
          /\ conn[FetchOf(d)] = "replied" => reply'[FetchOf(d)] = reply[FetchOf(d)]
          /\ reply'[SenderOf(d)] = reply[SenderOf(d)]
      BY <1>1, <1>2, <1>3 DEF ServerCrash, InMap, ConnInv
    <3>2. reply[SenderOf(d)] # NoReply => otSenderMap'[ask'[d].token] # SenderOf(d)
      BY <1>1, <1>2, <1>3 DEF ServerCrash, ConnInv, CallInv
    <3>. QED
      BY <3>1, <3>2 DEF SessionState, SenderOf, FetchOf
  <2>3. Transfer!Lose
    BY <2>1, <2>2, LoseStep
  <2>. QED
    BY <2>3 DEF Transfer!Next
<1>4. CASE ServerRestart /\ UNCHANGED clientVars
  <2>1. \A d \in Calls : /\ ask'[d].k = ask[d].k /\ Outcome(d)' = Outcome(d)
                         /\ Origin(d)' = Origin(d)
    BY <1>4 DEF ServerRestart, clientVars, Outcome, Origin
  <2>2. \A d \in Calls : SessionState(d)' = SessionState(d)
    BY <1>4, SameSession DEF ServerRestart, serverVars
  <2>. QED
    BY <2>1, <2>2, NoStep
<1>5. CASE ClientCrash /\ UNCHANGED serverVars
  <2>1. \A d \in Calls : /\ ask'[d].k = ask[d].k /\ Origin(d)' = Origin(d)
                         /\ Outcome(d)' = IF Outcome(d) = "asked" THEN "crashed" ELSE Outcome(d)
    BY <1>1, <1>5 DEF ClientCrash, networkVars, Outcome, Origin, Waiting, Endpoints, Ended
  <2>2. \A d \in Calls : SessionState(d)' = SessionState(d)
    BY <1>5, SameSession DEF ClientCrash, networkVars, serverVars
  <2>3. Transfer!Abandon
    BY <2>1, <2>2, AbandonStep
  <2>. QED
    BY <2>3 DEF Transfer!Next
<1>. QED
  BY <1>3, <1>4, <1>5 DEF Crash

\* Without retries, and with tokens that do not repeat, every behaviour of the
\* service is one of OTTransfer: whatever races, is lost or crashes, a
\* session is spent once and within the limit, and messages come from the
\* caller's own spent session.
THEOREM TransferIsImplemented ==
  ASSUME DistinctTokens, MaxRetry = 0
  PROVE  Spec => Transfer!Init /\ [][Transfer!Next]_(Transfer!vars)
<1>1. Init => Transfer!Init
  <2>1. SUFFICES ASSUME Init PROVE Transfer!Init
    OBVIOUS
  <2>2. \A d \in Calls : /\ ask[d].k = 0 /\ Outcome(d) = "idle" /\ Origin(d) = "none"
                         /\ SessionState(d) = "none"
    BY <2>1, TwoAttempts, AttemptFields
       DEF Init, NetworkInit, ClientInit, NoAsk, Outcome, Origin, SessionState, Waiting,
           Endpoints, SenderOf, FetchOf
  <2>. QED
    BY <2>2 DEF Transfer!Init
<1>2. PlainInv /\ [Next]_vars => [Transfer!Next]_(Transfer!vars)
  <2>1. SUFFICES ASSUME PlainInv, [Next]_vars
                 PROVE  UNCHANGED Transfer!vars \/ Transfer!Next
    OBVIOUS
  <2>2. ASSUME UNCHANGED vars
        PROVE  UNCHANGED Transfer!vars
    <3>1. \A d \in Calls : /\ ask'[d].k = ask[d].k /\ Outcome(d)' = Outcome(d)
                           /\ Origin(d)' = Origin(d)
      BY <2>2 DEF vars, networkVars, clientVars, Outcome, Origin
    <3>2. \A d \in Calls : SessionState(d)' = SessionState(d)
      BY <2>2, SameSession DEF vars, networkVars, serverVars
    <3>. QED
      BY <3>1, <3>2, NoStep
  <2>. QED
    BY <2>1, <2>2, ServeStep, CallStep, CrashStep DEF Next
<1>. QED
  BY <1>1, <1>2, PlainInvariant, PTL DEF Spec
=============================================================================
