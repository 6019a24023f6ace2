------------------------------ MODULE OTServer ------------------------------
(***************************************************************************)
(* ot_server: OTServerController and OTServerService.                      *)
(*                                                                         *)
(* The two POST endpoints share one std::map, otSenderMap, from session    *)
(* tokens to senders.  Each handler runs in its connection's thread and no *)
(* mutex guards the map, so a handler is split at its map accesses.  The   *)
(* secure mode (secureMode, by default true) is the one modelled.          *)
(***************************************************************************)
EXTENDS OTNetwork

CONSTANTS ReqLimitNum,  \* "reqLimitNum", the most messages one call may get
          MaxCrashes    \* bound: the crashes of either process

ASSUME ServerAssumption == ReqLimitNum \in Nat /\ MaxCrashes \in Nat

VARIABLES
  otSenderMap,  \* the sender kept for each session token, or NoSender
  crashes       \* the crashes so far

serverVars == <<otSenderMap, crashes>>

ServerTypeOK ==
  /\ otSenderMap \in [Tokens -> Senders \cup {NoSender}]
  /\ crashes \in 0..MaxCrashes

ServerInit ==
  /\ otSenderMap = [t \in Tokens |-> NoSender]
  /\ crashes = 0

InMap == {"insert", "at", "erase"}

Token(a) == ask[a.call].token

\* Another handler stands at a map access while a does, and one of the two
\* writes: a data race on the map's tree.  Its outcomes are a crash
\* (ServerCrash), a write that is lost, and a lookup that misses the entry.
Races(a) ==
  \E b \in Attempts \ {a} :
    /\ conn[b] \in InMap
    /\ ~(conn[a] = "at" /\ conn[b] = "at")

\* The handler's thread reads its request.  /getRandomMsgs also reads the
\* messages from the KV store and builds the sender, all in locals.
Accept(a) ==
  /\ up
  /\ conn[a] = "sent"
  /\ conn' = [conn EXCEPT ![a] = IF a.to = "getRandomMsgs" THEN "insert" ELSE "at"]
  /\ UNCHANGED <<ask, reply, up, faults, serverVars>>

\* Variant: one sender kept for the whole service instead of one per token.
InsertForAll(m, t, s) == [u \in DOMAIN m |-> s]

\* map::insert keeps the entry that a token already has.
InsertIfAbsent(m, t, s) == IF m[t] = NoSender THEN [m EXCEPT ![t] = s] ELSE m

\* OTServerService::setRandomMsgs: the answer carries the random messages of
\* the new sender, whether or not that sender went into the map.
SetRandomMsgs(a) ==
  /\ conn[a] = "insert"
  /\ \/ /\ otSenderMap' = InsertIfAbsent(otSenderMap, Token(a), a)
        /\ UNCHANGED faults
     \/ /\ Races(a)
        /\ faults' = faults \cup {"race"}
        /\ UNCHANGED otSenderMap
  /\ conn' = [conn EXCEPT ![a] = "replied"]
  /\ reply' = [reply EXCEPT ![a] = Ok(a)]
  /\ UNCHANGED <<ask, up, crashes>>

\* Variant: the limit is off by one.
VerdictsOffByOne(k) ==
  IF k = 0 \/ k > ReqLimitNum + 1 THEN {"reject"} ELSE {"accept", "reject"}

\* The guard of KOutOfNForOTSender::decrypt for k chosen messages, which come
\* as 2*k ops.  Its last disjunct is atoi of ops[2]: with k = 1 there is no
\* such op and with k > 1 it is ciphertext, so it may read as any number.
Verdicts(k) == IF k = 0 \/ k > ReqLimitNum THEN {"reject"} ELSE {"accept", "reject"}

\* Variant: operator[] in the place of at(), which never throws.
AtUnchecked(a) ==
  /\ conn[a] = "at"
  /\ conn' = [conn EXCEPT ![a] = "erase"]
  /\ reply' = [reply EXCEPT ![a] = Ok(otSenderMap[Token(a)])]
  /\ UNCHANGED <<ask, up, faults, serverVars>>

\* Variant: the sender is moved out of the map before its guard is checked.
MoveAndDecrypt(a) ==
  /\ conn[a] = "at"
  /\ \E v \in IF otSenderMap[Token(a)] = NoSender THEN {"miss"} ELSE Verdicts(ask[a.call].k) :
       /\ conn' = [conn EXCEPT ![a] = IF v = "accept" THEN "erase" ELSE "replied"]
       /\ reply' = [reply EXCEPT ![a] = CASE v = "accept" -> Ok(otSenderMap[Token(a)])
                                         [] v = "reject" -> Limit
                                         [] v = "miss"   -> Error]
  /\ otSenderMap' = [otSenderMap EXCEPT ![Token(a)] = NoSender]
  /\ UNCHANGED <<ask, up, faults, crashes>>

\* setDecryptedYOps up to the end of decrypt, which works on a copy of the
\* sender: std::out_of_range when the token has no entry, OTError when the
\* guard rejects (the entry stays), else on to the erase with the answer.
AtAndDecrypt(a) ==
  LET found(s) == \E v \in Verdicts(ask[a.call].k) :
                    /\ conn' = [conn EXCEPT ![a] = IF v = "accept" THEN "erase" ELSE "replied"]
                    /\ reply' = [reply EXCEPT ![a] = IF v = "accept" THEN Ok(s) ELSE Limit]
      missed   == /\ conn' = [conn EXCEPT ![a] = "replied"]
                  /\ reply' = [reply EXCEPT ![a] = Error]
      entry    == otSenderMap[Token(a)]
  IN /\ conn[a] = "at"
     /\ \/ entry # NoSender /\ found(entry) /\ UNCHANGED faults
        \/ entry = NoSender /\ missed /\ UNCHANGED faults
        \/ Races(a) /\ missed /\ faults' = faults \cup {"race"}
     /\ UNCHANGED <<ask, up, serverVars>>

\* Variant: the answer is sent and the entry stays.
AnswerWithoutErase(a) ==
  /\ conn[a] = "erase"
  /\ conn' = [conn EXCEPT ![a] = "replied"]
  /\ UNCHANGED <<ask, reply, up, faults, serverVars>>

\* The end of setDecryptedYOps: the entry is erased by its token, whichever
\* sender it holds by now, and the answer is sent.
Erase(a) ==
  /\ conn[a] = "erase"
  /\ \/ /\ otSenderMap' = [otSenderMap EXCEPT ![Token(a)] = NoSender]
        /\ UNCHANGED faults
     \/ /\ Races(a)
        /\ faults' = faults \cup {"race"}
        /\ UNCHANGED otSenderMap
  /\ conn' = [conn EXCEPT ![a] = "replied"]
  /\ UNCHANGED <<ask, reply, up, crashes>>

Handle(a) == Accept(a) \/ SetRandomMsgs(a) \/ AtAndDecrypt(a) \/ Erase(a)

\* The process dies: the map is lost and every connection whose answer is not
\* out yet is reset.
ServerCrash ==
  /\ up
  /\ crashes < MaxCrashes
  /\ up' = FALSE
  /\ crashes' = crashes + 1
  /\ faults' = faults \cup {"crash"}
  /\ otSenderMap' = [t \in Tokens |-> NoSender]
  /\ conn' = [a \in Attempts |->
                IF conn[a] \in InMap \cup {"sent"} THEN "closed" ELSE conn[a]]
  /\ reply' = [a \in Attempts |-> IF conn[a] = "erase" THEN NoReply ELSE reply[a]]
  /\ UNCHANGED ask

\* docker-compose restarts the container ("restart: always").
ServerRestart ==
  /\ ~up
  /\ up' = TRUE
  /\ UNCHANGED <<ask, conn, reply, faults, serverVars>>
=============================================================================
