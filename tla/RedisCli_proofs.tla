-------------------------- MODULE RedisCli_proofs --------------------------
(***************************************************************************)
(* Proofs about RedisCli, for any handlers, keys and data: as long as no   *)
(* two handlers were inside redisCommand at once, at most one is between a *)
(* command and the free of its reply, and everything shared is its own.    *)
(***************************************************************************)
EXTENDS RedisCli, DataInduction, FiniteSetTheorems, SequenceTheorems

USE TypesAssumption, DataAssumption

-----------------------------------------------------------------------------
(* Type correctness: TypeOK alone does not say that a handler in hGetAll has *)
(* a key left to ask for.                                                    *)

InCall == {"send", "recv", "read", "free"}

CallStates ==
  [pc : InCall \cup {"idle", "done"}, cmd : {"HGETALL", "GET"}, keys : Seq(Keys),
   fs : Seq(Field), values : Seq(Seq(Field))]

CallInv ==
  /\ call \in [Handlers -> CallStates]
  /\ \A h \in Handlers :
       /\ call[h].keys \in {Asked[h], <<>>}
       /\ call[h].pc \in InCall => Len(call[h].values) < Len(call[h].keys)

TypeInv == TypeOK /\ CallInv

\* The key a handler in hGetAll asks for is one of the keys.
LEMMA KeyType ==
  ASSUME CallInv, NEW h \in Handlers, call[h].pc \in InCall
  PROVE  Key(call[h]) \in Keys /\ Key(call[h]) \in Texts
<1>1. call[h].keys \in Seq(Keys) /\ Len(call[h].values) + 1 \in 1..Len(call[h].keys)
  BY DEF CallInv, CallStates
<1>. QED
  BY <1>1, ElementOfSeq DEF Key, Texts

\* Redis answers with a reply.
LEMMA AnswerType ==
  ASSUME NEW cmd \in {"HGETALL", "GET"}, NEW entry \in Entries
  PROVE  Answer(cmd, entry) \in Reply
BY DEF Answer, Entries, Reply, Nil, Wrong, Texts

\* The texts of the data are texts.
LEMMA TextTypes ==
  /\ ErrorText \in Texts /\ Garbage \in Texts /\ <<>> \in Texts
  /\ <<"key">> \in Texts /\ <<"value">> \in Texts
BY DEF Texts

\* A field, or the fields of a reply, as fields of a message.
LEMMA FieldTypes ==
  /\ \A t, u \in Texts : <<<<t, u>>>> \in Seq(Field)
  /\ \A r \in Reply : r.fields \in Seq(Field)
<1>1. ASSUME NEW t \in Texts, NEW u \in Texts PROVE <<<<t, u>>>> \in Seq(Field)
  <2>1. <<t, u>> \in Field
    BY DEF Field
  <2>. QED
    BY <2>1
<1>2. ASSUME NEW r \in Reply PROVE r.fields \in Seq(Field)
  <2>1. r.fields \in Hashes \cup {<<>>}
    BY DEF Reply
  <2>. QED
    BY <2>1, EmptySeq DEF Field
<1>. QED
  BY <1>1, <1>2

\* What a handler in hGetAll reads is made of fields, whatever was freed.
LEMMA ReadType ==
  ASSUME TypeInv, NEW h \in Handlers, Read(h)
  PROVE  \E fs \in Seq(Field) : call' = [call EXCEPT ![h].pc = "free", ![h].fs = fs]
<1>1. PICK r \in {reply} \cup (IF freed THEN {[Nil EXCEPT !.str = Garbage]} ELSE {}) :
        LET text == IF r.str # NoText THEN r.str ELSE <<>>
        IN call' = [call EXCEPT ![h].pc = "free",
                      ![h].fs = IF call[h].cmd = "GET" THEN <<<<<<"value">>, text>>>> ELSE r.fields]
  BY DEF Read
<1>2. r \in Reply
  BY <1>1, TextTypes DEF TypeInv, TypeOK, Reply, Nil
<1>. DEFINE text == IF r.str # NoText THEN r.str ELSE <<>>
<1>3. text \in Texts
  BY <1>2, TextTypes DEF Reply
<1>4. <<<<<<"value">>, text>>>> \in Seq(Field) /\ r.fields \in Seq(Field)
  BY <1>2, <1>3, TextTypes, FieldTypes
<1>. QED
  BY <1>1, <1>4

\* Taking up the next key, or asking again with GET.
LEMMA GoOnType ==
  ASSUME TypeInv, NEW h \in Handlers, call[h].pc = "free", GoOn(h)
  PROVE  CallInv' /\ seen' \in [Handlers -> SUBSET Entries]
<1>. USE DEF TypeInv, CallInv
<1>. DEFINE c == call[h]
            values == Append(c.values, <<<<<<"key">>, Key(c)>>>> \o c.fs)
            again == [c EXCEPT !.pc = "send", !.cmd = "GET"]
            taken == [c EXCEPT !.pc = IF Len(values) = Len(c.keys) THEN "done" ELSE "send",
                               !.cmd = "HGETALL", !.fs = <<>>, !.values = values]
            next == IF c.fs = <<>> THEN again ELSE taken
<1>1. /\ c \in CallStates /\ c.keys \in {Asked[h], <<>>} /\ Len(c.values) < Len(c.keys)
      /\ Key(c) \in Texts
  BY KeyType DEF InCall
<1>2. values \in Seq(Seq(Field)) /\ Len(values) = Len(c.values) + 1
  <2>1. <<<<<<"key">>, Key(c)>>>> \o c.fs \in Seq(Field)
    BY <1>1, TextTypes, FieldTypes, ConcatProperties DEF CallStates
  <2>. HIDE DEF c
  <2>. QED
    BY <1>1, <2>1 DEF CallStates
<1>3. again \in CallStates /\ again.keys = c.keys /\ again.pc \in InCall
      /\ again.values = c.values
  BY <1>1 DEF CallStates, InCall
<1>4. /\ taken \in CallStates /\ taken.keys = c.keys
      /\ taken.pc \in InCall => Len(taken.values) < Len(taken.keys)
  <2>. HIDE DEF values, c
  <2>1. Len(c.keys) \in Nat /\ Len(c.values) \in Nat
    BY <1>1 DEF CallStates
  <2>2. <<>> \in Seq(Field)
    BY EmptySeq
  <2>3. taken.keys = c.keys /\ taken.values = values
        /\ taken.pc = IF Len(values) = Len(c.keys) THEN "done" ELSE "send"
    BY <1>1 DEF CallStates
  <2>4. taken \in CallStates
    BY <1>1, <1>2, <2>2 DEF CallStates, InCall
  <2>. HIDE DEF taken
  <2>. QED
    BY <1>1, <1>2, <2>1, <2>3, <2>4 DEF InCall
<1>5. call' = [call EXCEPT ![h] = next]
  BY DEF GoOn
<1>6. /\ next \in CallStates /\ next.keys = c.keys
      /\ next.pc \in InCall => Len(next.values) < Len(next.keys)
  BY <1>1, <1>3, <1>4
<1>7. CallInv'
  BY <1>1, <1>5, <1>6
<1>8. next.pc # "done" => next.pc \in InCall /\ Key(next) \in Keys
  <2>1. next.pc # "done" => next.pc \in InCall
    BY <1>3, <1>1 DEF InCall
  <2>2. next.pc \in InCall => Len(next.values) + 1 \in 1..Len(next.keys)
    BY <1>6 DEF CallStates
  <2>. QED
    BY <2>1, <2>2, <1>6, ElementOfSeq DEF Key, CallStates
<1>9. seen' = [seen EXCEPT ![h] = CASE raced \/ next.pc = "done" -> {}
                                     [] next.cmd = "GET"          -> @
                                     [] OTHER                     -> {db[Key(next)]}]
  BY DEF GoOn
<1>. HIDE DEF next
<1>10. seen' \in [Handlers -> SUBSET Entries]
  BY <1>8, <1>9 DEF TypeOK
<1>. QED
  BY <1>7, <1>10

\* Of call, TypeOK says no more than CallInv.
CallTypes == \A h \in Handlers :
  /\ call[h].pc \in {"idle", "send", "recv", "read", "free", "done"}
  /\ call[h].cmd \in {"HGETALL", "GET"}
  /\ call[h].keys \in {Asked[h], <<>>}
  /\ call[h].fs \in Seq(Field) /\ call[h].values \in Seq(Seq(Field))

LEMMA CallTypesHold == CallInv => CallTypes
BY DEF CallInv, CallStates, InCall, CallTypes

LEMMA CallTypesHoldNext == CallInv' => CallTypes'
BY DEF CallInv, CallStates, InCall, CallTypes

\* A handler that is not in hGetAll.
LEMMA IdleType ==
  /\ Idle \in CallStates /\ Idle.keys = <<>> /\ Idle.pc \notin InCall
  /\ Idle.values = <<>> /\ Idle.cmd = "HGETALL"
<1>1. <<>> \in Seq(Keys) /\ <<>> \in Seq(Field) /\ <<>> \in Seq(Seq(Field))
  BY EmptySeq
<1>. QED
  BY <1>1 DEF Idle, CallStates, InCall

\* A restart forgets all but redis itself.
LEMMA RestartType ==
  ASSUME TypeInv, Restart
  PROVE  TypeInv'
<1>1. CallInv'
  BY IdleType DEF Restart, CallInv
<1>2. Nil \in Reply /\ <<>> \in Seq(Reply)
  BY EmptySeq DEF Nil, Reply
<1>. QED
  BY <1>1, <1>2, CallTypesHoldNext DEF Restart, TypeInv, TypeOK, CallTypes

\* TypeInv is inductive.
LEMMA NextTypeInv == TypeInv /\ [Next]_vars => TypeInv'
<1>. SUFFICES ASSUME TypeInv, [Next]_vars PROVE TypeInv'
  OBVIOUS
<1>0. ASSUME CallInv',
             db' \in [Keys -> Entries], link' \in BOOLEAN,
             replies' \in Seq(Reply), reply' \in Reply, freed' \in BOOLEAN,
             seen' \in [Handlers -> SUBSET Entries],
             writes' \in 0..MaxWrites, raced' \in BOOLEAN, leaked' \in BOOLEAN
      PROVE  TypeInv'
  BY <1>0, CallTypesHoldNext DEF TypeInv, TypeOK, CallTypes
<1>1. ASSUME NEW h \in Handlers, Start(h) PROVE TypeInv'
  <2>1. /\ Asked[h] \in Seq(Keys) /\ Asked[h] # <<>> /\ Len(Asked[h]) \in Nat \ {0}
        /\ Asked[h][1] \in Keys
    BY EmptySeq, ElementOfSeq
  <2>. DEFINE c == [Idle EXCEPT !.pc = "send", !.keys = Asked[h]]
  <2>2. c \in CallStates /\ c.keys = Asked[h] /\ Len(c.values) < Len(c.keys)
    <3>1. c.keys = Asked[h] /\ c.values = <<>>
      BY IdleType DEF Idle
    <3>2. c \in CallStates
      BY <2>1, IdleType DEF CallStates, InCall
    <3>. QED
      BY <2>1, <3>1, <3>2
  <2>. HIDE DEF c
  <2>3. CallInv'
    BY <1>1, <2>2 DEF Start, c, TypeInv, CallInv
  <2>4. seen' \in [Handlers -> SUBSET Entries]
    BY <1>1, <2>1 DEF Start, TypeInv, TypeOK
  <2>. QED
    BY <1>0, <1>1, <2>3, <2>4 DEF Start, TypeInv, TypeOK
<1>2. ASSUME NEW h \in Handlers, Send(h) PROVE TypeInv'
  <2>1. /\ call[h].pc = "send" /\ call' = [call EXCEPT ![h].pc = "recv"]
        /\ raced' = (raced \/ Busy \ {h} # {})
        /\ seen' = IF raced' THEN [g \in Handlers |-> {}] ELSE seen
    BY <1>2 DEF Send
  <2>2. CallInv'
    BY <2>1, ZenonT(40) DEF TypeInv, CallInv, CallStates, InCall
  <2>. DEFINE answer == Answer(call[h].cmd, db[Key(call[h])])
  <2>3. answer \in Reply
    BY <2>1, KeyType, AnswerType DEF TypeInv, TypeOK, CallInv, CallStates, InCall
  <2>4. \/ replies' = Append(replies, answer) \/ replies' = replies
        \/ replies' = replies \o <<answer, answer>>
    BY <1>2 DEF Send
  <2>. HIDE DEF answer
  <2>5. replies' \in Seq(Reply)
    <3>1. <<answer, answer>> \in Seq(Reply) /\ replies \in Seq(Reply)
      BY <2>3 DEF TypeInv, TypeOK
    <3>. HIDE DEF Reply
    <3>2. Append(replies, answer) \in Seq(Reply)
      BY <2>3, <3>1
    <3>3. replies \o <<answer, answer>> \in Seq(Reply)
      BY <3>1, ConcatProperties
    <3>. QED
      BY <2>4, <3>1, <3>2, <3>3
  <2>6. seen' \in [Handlers -> SUBSET Entries] /\ raced' \in BOOLEAN
    BY <2>1 DEF TypeInv, TypeOK
  <2>. QED
    BY <1>0, <1>2, <2>2, <2>5, <2>6 DEF Send, TypeInv, TypeOK
<1>3. ASSUME NEW h \in Handlers, Recv(h) PROVE TypeInv'
  <2>1. CallInv'
    BY <1>3, ZenonT(40) DEF Recv, TypeInv, CallInv, CallStates, InCall
  <2>2. reply' \in Reply /\ replies' \in Seq(Reply)
    BY <1>3, HeadTailProperties DEF Recv, TypeInv, TypeOK
  <2>3. freed' \in BOOLEAN /\ leaked' \in BOOLEAN
    BY <1>3 DEF Recv, TypeInv, TypeOK
  <2>. QED
    BY <1>0, <1>3, <2>1, <2>2, <2>3 DEF Recv, TypeInv, TypeOK
<1>4. ASSUME NEW h \in Handlers, Read(h) PROVE TypeInv'
  <2>1. PICK fs \in Seq(Field) : call' = [call EXCEPT ![h].pc = "free", ![h].fs = fs]
    BY <1>4, ReadType
  <2>2. call[h].pc = "read"
    BY <1>4 DEF Read
  <2>. DEFINE c == [call[h] EXCEPT !.pc = "free", !.fs = fs]
  <2>3. call' = [call EXCEPT ![h] = c]
    BY <2>1
  <2>4. c \in CallStates /\ c.keys = call[h].keys /\ c.values = call[h].values
    BY <2>1 DEF TypeInv, CallInv, CallStates, InCall
  <2>. HIDE DEF c
  <2>5. CallInv'
    BY <2>2, <2>3, <2>4 DEF TypeInv, CallInv, InCall
  <2>. QED
    BY <1>0, <1>4, <2>5 DEF Read, TypeInv, TypeOK
<1>5. ASSUME NEW h \in Handlers, Free(h) PROVE TypeInv'
  <2>1. CallInv' /\ seen' \in [Handlers -> SUBSET Entries]
    BY <1>5, GoOnType DEF Free
  <2>. QED
    BY <1>0, <1>5, <2>1 DEF Free, TypeInv, TypeOK
<1>6. ASSUME NEW h \in Handlers, Return(h) PROVE TypeInv'
  <2>1. CallInv'
    BY <1>6, IdleType DEF Return, TypeInv, CallInv
  <2>. QED
    BY <1>0, <1>6, <2>1 DEF Return, TypeInv, TypeOK
<1>7. ASSUME Restart PROVE TypeInv'
  BY <1>7, RestartType
<1>8. ASSUME NEW k \in Keys, Write(k) PROVE TypeInv'
  <2>1. PICK entry \in Entries :
          /\ writes < MaxWrites /\ writes' = writes + 1
          /\ db' = [db EXCEPT ![k] = entry]
          /\ seen' = [h \in Handlers |->
                        IF seen[h] # {} /\ Key(call[h]) = k THEN seen[h] \cup {entry}
                                                            ELSE seen[h]]
          /\ UNCHANGED <<link, replies, reply, freed, call, raced, leaked>>
    BY <1>8 DEF Write
  <2>2. CallInv' /\ seen' \in [Handlers -> SUBSET Entries]
    BY <2>1 DEF TypeInv, TypeOK, CallInv
  <2>3. db' \in [Keys -> Entries] /\ writes' \in 0..MaxWrites
    BY <2>1 DEF TypeInv, TypeOK
  <2>. QED
    BY <1>0, <2>1, <2>2, <2>3 DEF TypeInv, TypeOK
<1>9. ASSUME LinkLost PROVE TypeInv'
  <2>1. CallInv' /\ <<>> \in Seq(Reply)
    BY <1>9, EmptySeq DEF LinkLost, TypeInv, CallInv
  <2>. QED
    BY <1>0, <1>9, <2>1 DEF LinkLost, TypeInv, TypeOK
<1>10. ASSUME UNCHANGED vars PROVE TypeInv'
  <2>1. CallInv'
    BY <1>10 DEF vars, TypeInv, CallInv
  <2>. QED
    BY <1>0, <1>10, <2>1 DEF vars, TypeInv, TypeOK
<1>. QED
  BY <1>1, <1>2, <1>3, <1>4, <1>5, <1>6, <1>7, <1>8, <1>9, <1>10
     DEF Next, Step, NullReply, Crash

LEMMA TypeInvHolds == Spec => []TypeInv
<1>1. Init => TypeInv
  <2>. SUFFICES ASSUME Init PROVE TypeInv
    OBVIOUS
  <2>1. CallInv
    BY IdleType DEF Init, CallInv
  <2>2. Nil \in Reply /\ <<>> \in Seq(Reply)
    BY EmptySeq DEF Nil, Reply
  <2>3. seen \in [Handlers -> SUBSET Entries]
    BY DEF Init
  <2>4. CallTypes
    BY <2>1, CallTypesHold
  <2>5. writes \in 0..MaxWrites
    BY DEF Init
  <2>. QED
    BY <2>1, <2>2, <2>3, <2>4, <2>5 DEF Init, TypeInv, TypeOK, CallTypes
<1>. QED
  BY <1>1, NextTypeInv, PTL DEF Spec

\* Every reachable state is well typed.
THEOREM RepliesAreTyped == Spec => []TypeOK
<1>1. TypeInv => TypeOK
  BY DEF TypeInv
<1>. QED
  BY <1>1, TypeInvHolds, PTL

-----------------------------------------------------------------------------
(* What is shared: without a race one handler at a time is between a command *)
(* and the free of its reply, and the answer on its way, the reply and its   *)
(* memory are that handler's.                                                *)

SharedInv ==
  ~raced =>
    /\ \A g, h \in Busy : g = h
    /\ ~leaked
    /\ freed \/ \E h \in Handlers : call[h].pc \in {"read", "free"}
    /\ \A h \in Handlers : call[h].pc = "read" => ~freed
    /\ link => \/ replies = <<>> /\ \A h \in Handlers : call[h].pc # "recv"
               \/ Len(replies) = 1 /\ \E h \in Handlers : call[h].pc = "recv"

\* SharedInv is inductive, given the types.
LEMMA NextSharedInv == TypeInv /\ SharedInv /\ [Next]_vars => SharedInv'
<1>. SUFFICES ASSUME TypeInv, SharedInv, [Next]_vars, ~raced' PROVE SharedInv'
  BY DEF SharedInv
<1>0. call \in [Handlers -> CallStates]
  BY DEF TypeInv, CallInv
<1>1. ASSUME NEW h \in Handlers, Start(h) PROVE SharedInv'
  <2>1. \A g \in Handlers : call'[g].pc = IF g = h THEN "send" ELSE call[g].pc
    BY <1>0, <1>1 DEF Start, Idle
  <2>. QED
    BY <1>1, <2>1 DEF Start, SharedInv, Busy
<1>2. ASSUME NEW h \in Handlers, Send(h) PROVE SharedInv'
  <2>1. \A g \in Handlers : call'[g].pc = IF g = h THEN "recv" ELSE call[g].pc
    BY <1>0, <1>2 DEF Send, CallStates
  <2>2. ~raced /\ Busy = {}
    BY <1>2 DEF Send, Busy
  <2>3. replies = <<>> /\ freed /\ ~leaked
    BY <1>2, <2>2 DEF Send, SharedInv, Busy
  <2>4. Len(replies') = 1
    BY <1>2, <2>2, <2>3 DEF Send
  <2>. QED
    BY <1>2, <2>1, <2>2, <2>3, <2>4 DEF Send, SharedInv, Busy
<1>3. ASSUME NEW h \in Handlers, Recv(h) PROVE SharedInv'
  <2>1. \A g \in Handlers : call'[g].pc = IF g = h THEN "read" ELSE call[g].pc
    BY <1>0, <1>3 DEF Recv, CallStates
  <2>2. ~raced /\ Busy = {h} /\ call[h].pc = "recv"
    BY <1>3 DEF Recv, Busy, SharedInv
  <2>3. freed /\ ~leaked'
    BY <1>3, <2>2 DEF Recv, Busy, SharedInv
  <2>4. link => replies' = <<>>
    BY <1>3, <2>2 DEF Recv, SharedInv, TypeInv, TypeOK
  <2>. QED
    BY <1>3, <2>1, <2>2, <2>3, <2>4 DEF Recv, SharedInv, Busy
<1>4. ASSUME NEW h \in Handlers, Read(h) PROVE SharedInv'
  <2>1. PICK fs \in Seq(Field) : call' = [call EXCEPT ![h].pc = "free", ![h].fs = fs]
    BY <1>4, ReadType
  <2>2. \A g \in Handlers : call'[g].pc = IF g = h THEN "free" ELSE call[g].pc
    BY <1>0, <2>1 DEF CallStates
  <2>. QED
    BY <1>4, <2>2 DEF Read, SharedInv, Busy
<1>5. ASSUME NEW h \in Handlers, Free(h) PROVE SharedInv'
  <2>1. \A g \in Handlers \ {h} : call'[g].pc = call[g].pc
    BY <1>0, <1>5 DEF Free, GoOn
  <2>2. call'[h].pc \in {"send", "done"}
    BY <1>0, <1>5 DEF Free, GoOn, CallStates
  <2>3. Busy' = {} /\ Busy = {h} /\ ~raced
    BY <1>5, <2>1, <2>2 DEF Free, SharedInv, Busy
  <2>. QED
    BY <1>5, <2>1, <2>2, <2>3 DEF Free, SharedInv, Busy
<1>6. ASSUME NEW h \in Handlers, Return(h) PROVE SharedInv'
  <2>1. \A g \in Handlers : call'[g].pc = IF g = h THEN "idle" ELSE call[g].pc
    BY <1>0, <1>6 DEF Return, Idle
  <2>. QED
    BY <1>6, <2>1 DEF Return, SharedInv, Busy
<1>7. ASSUME Restart PROVE SharedInv'
  <2>1. \A g \in Handlers : call'[g].pc = "idle"
    BY <1>7 DEF Restart, Idle
  <2>. QED
    BY <1>7, <2>1 DEF Restart, SharedInv, Busy
<1>8. ASSUME NEW k \in Keys, Write(k) PROVE SharedInv'
  BY <1>8 DEF Write, SharedInv, Busy
<1>9. ASSUME LinkLost PROVE SharedInv'
  BY <1>9 DEF LinkLost, SharedInv, Busy
<1>10. ASSUME UNCHANGED vars PROVE SharedInv'
  BY <1>10 DEF vars, SharedInv, Busy
<1>. QED
  BY <1>1, <1>2, <1>3, <1>4, <1>5, <1>6, <1>7, <1>8, <1>9, <1>10
     DEF Next, Step, NullReply, Crash

LEMMA SharedInvHolds == Spec => []SharedInv
<1>1. Init => SharedInv
  BY DEF Init, SharedInv, Busy, Idle
<1>. QED
  BY <1>1, TypeInvHolds, NextSharedInv, PTL DEF Spec

\* Without a race a reply is freed before the member is assigned again.
THEOREM RepliesAreFreed == Spec => []RepliesFreed
<1>1. SharedInv => RepliesFreed
  BY DEF SharedInv, RepliesFreed
<1>. QED
  BY <1>1, SharedInvHolds, PTL

\* Without a race no answer is left over for another call's command.
THEOREM CommandsInStep == Spec => []InStep
<1>1. SharedInv => InStep
  <2>. DEFINE Waiting == {h \in Handlers : call[h].pc = "recv"}
  <2>. SUFFICES ASSUME SharedInv, ~raced, link
                PROVE  Len(replies) = Cardinality(Waiting) /\ Len(replies) <= 1
    BY DEF InStep
  <2>1. CASE replies = <<>> /\ \A h \in Handlers : call[h].pc # "recv"
    <3>1. Waiting = {}
      BY <2>1
    <3>. HIDE DEF Waiting
    <3>. QED
      BY <2>1, <3>1, FS_EmptySet
  <2>2. CASE Len(replies) = 1 /\ \E h \in Handlers : call[h].pc = "recv"
    <3>1. PICK g \in Handlers : call[g].pc = "recv"
      BY <2>2
    <3>2. Waiting = {g}
      BY <3>1 DEF SharedInv, Busy
    <3>3. Cardinality({g}) = 1
      BY FS_Singleton
    <3>. HIDE DEF Waiting
    <3>. QED
      BY <2>2, <3>2, <3>3
  <2>. QED
    BY <2>1, <2>2 DEF SharedInv
<1>. QED
  BY <1>1, SharedInvHolds, PTL

-----------------------------------------------------------------------------
(* What a message says: what the handler has read so far is redis' answer on *)
(* something the key held since the handler came to it.                      *)

\* What the handler reads from a reply.
Fields(cmd, r) ==
  IF cmd = "GET" THEN <<<<<<"value">>, IF r.str # NoText THEN r.str ELSE <<>>>>>> ELSE r.fields

HasRead(h) ==
  LET c == call[h] IN
  call[h].pc \in InCall =>
    /\ db[Key(c)] \in seen[h] /\ IsFiniteSet(seen[h])
    /\ c.cmd = "GET" => \E e \in seen[h] : e.type # "hash"
    /\ c.pc = "recv" /\ replies # <<>> => \E e \in seen[h] : Head(replies) = Answer(c.cmd, e)
    /\ c.pc = "read" => \E e \in seen[h] : reply = Answer(c.cmd, e)
    /\ c.pc = "free" => \E e \in seen[h] : c.fs = Fields(c.cmd, Answer(c.cmd, e))

HeldInv == ~raced => \A h \in Handlers : HasRead(h)

\* A hash has fields.
LEMMA NoFieldsNoHash ==
  ASSUME NEW e \in Entries, Fields("HGETALL", Answer("HGETALL", e)) = <<>>
  PROVE  e.type # "hash"
BY DEF Fields, Answer, Entries, Nil, Wrong

\* A message that says what redis answered on entries the key held, and was
\* asked for with GET only after an entry that is no hash, is held.
LEMMA AnswersAreHeld ==
  ASSUME NEW entries, entries \subseteq Entries, IsFiniteSet(entries),
         NEW e \in entries, NEW cmd \in {"HGETALL", "GET"},
         cmd = "GET" => \E d \in entries : d.type # "hash",
         NEW fields, fields # <<>>, fields = Fields(cmd, Answer(cmd, e))
  PROVE  Held(fields, entries)
<1>1. /\ ErrorText # NoText
      /\ e.type \in {"hash", "string", "list", "none"}
      /\ e.type = "string" => e.text # NoText
  BY TextTypes DEF Entries, Texts
<1>2. CASE cmd = "HGETALL"
  BY <1>1, <1>2 DEF Fields, Answer, Nil, Wrong, Held
<1>3. CASE cmd = "GET" /\ e.type # "hash"
  BY <1>1, <1>3 DEF Fields, Answer, Nil, Wrong, Held
<1>4. CASE cmd = "GET" /\ e.type = "hash"
  <2>1. fields = <<<<<<"value">>, ErrorText>>>>
    BY <1>1, <1>4 DEF Fields, Answer, Wrong
  <2>2. PICK d \in entries : d.type # "hash"
    BY <1>4
  <2>3. Cardinality({d, e}) = 2 /\ {d, e} \subseteq entries
    <3>1. d # e
      BY <1>4, <2>2
    <3>2. IsFiniteSet({e}) /\ Cardinality({e}) = 1
      BY FS_Singleton
    <3>3. Cardinality({e} \cup {d}) = Cardinality({e}) + 1
      BY <3>1, <3>2, FS_AddElement
    <3>4. {e} \cup {d} = {d, e}
      OBVIOUS
    <3>. QED
      BY <2>2, <3>2, <3>3, <3>4
  <2>4. Cardinality({d, e}) <= Cardinality(entries) /\ Cardinality(entries) \in Nat
    BY <2>3, FS_Subset, FS_CardinalityType
  <2>5. Cardinality(entries) > 1
    BY <2>3, <2>4
  <2>. QED
    BY <1>4, <2>1, <2>5 DEF Held
<1>. QED
  BY <1>2, <1>3, <1>4

\* A step of another handler does not disturb what a handler has read.
LEMMA OthersKeep ==
  ASSUME NEW h \in Handlers, HasRead(h), call'[h] = call[h], seen'[h] = seen[h], db' = db,
         call[h].pc = "recv" => replies' \in {replies, <<>>},
         call[h].pc = "read" => reply' = reply
  PROVE  HasRead(h)'
BY DEF HasRead, Key

\* HeldInv is inductive, given the types and that what is shared is one's own.
LEMMA NextHeldInv == TypeInv /\ SharedInv /\ HeldInv /\ [Next]_vars => HeldInv'
<1>. SUFFICES ASSUME TypeInv, SharedInv, HeldInv, [Next]_vars, ~raced'
              PROVE  \A h \in Handlers : HasRead(h)'
  BY DEF HeldInv
<1>0. call \in [Handlers -> CallStates] /\ seen \in [Handlers -> SUBSET Entries]
  BY DEF TypeInv, TypeOK, CallInv
<1>1. ASSUME NEW h \in Handlers, Start(h) PROVE \A g \in Handlers : HasRead(g)'
  <2>0. ~raced
    BY <1>1 DEF Start
  <2>. DEFINE c == [Idle EXCEPT !.pc = "send", !.keys = Asked[h]]
  <2>1. call' = [call EXCEPT ![h] = c] /\ seen' = [seen EXCEPT ![h] = {db[Asked[h][1]]}]
    BY <1>1, <2>0 DEF Start
  <2>2. c.pc = "send" /\ c.cmd = "HGETALL" /\ Key(c) = Asked[h][1]
    BY DEF Idle, Key
  <2>. HIDE DEF c
  <2>3. HasRead(h)'
    <3>1. call'[h] = c /\ seen'[h] = {db[Key(c)]} /\ db' = db
      BY <1>0, <1>1, <2>1, <2>2 DEF Start
    <3>2. IsFiniteSet({db[Key(c)]})
      BY FS_Singleton
    <3>. QED
      BY <2>2, <3>1, <3>2 DEF HasRead, Key
  <2>4. ASSUME NEW g \in Handlers, g # h PROVE HasRead(g)'
    BY <1>0, <1>1, <2>0, <2>1, <2>4, OthersKeep DEF Start, HeldInv
  <2>. QED
    BY <2>3, <2>4
<1>2. ASSUME NEW h \in Handlers, Send(h) PROVE \A g \in Handlers : HasRead(g)'
  <2>1. /\ ~raced /\ Busy \subseteq {h} /\ call[h].pc = "send"
        /\ call' = [call EXCEPT ![h].pc = "recv"] /\ seen' = seen /\ db' = db
    BY <1>2 DEF Send
  <2>. DEFINE answer == Answer(call[h].cmd, db[Key(call[h])])
  <2>2. replies' = <<answer>>
    <3>1. replies = <<>>
      BY <1>2, <2>1 DEF Send, SharedInv, Busy
    <3>. QED
      BY <1>2, <2>1, <3>1 DEF Send
  <2>3. HasRead(h)'
    <3>1. /\ call'[h].pc = "recv" /\ call'[h].cmd = call[h].cmd /\ Key(call'[h]) = Key(call[h])
      BY <1>0, <2>1 DEF CallStates, Key
    <3>2. HasRead(h)
      BY <2>1 DEF HeldInv
    <3>3. Head(replies') = answer
      BY <2>2
    <3>. QED
      BY <2>1, <3>1, <3>2, <3>3 DEF HasRead, InCall, Key
  <2>4. ASSUME NEW g \in Handlers, g # h PROVE HasRead(g)'
    <3>1. call[g].pc \notin {"recv", "read"}
      BY <2>1, <2>4 DEF Busy
    <3>2. call'[g] = call[g]
      BY <1>0, <2>1, <2>4
    <3>. QED
      BY <2>1, <3>1, <3>2, OthersKeep DEF HeldInv
  <2>. QED
    BY <2>3, <2>4
<1>3. ASSUME NEW h \in Handlers, Recv(h) PROVE \A g \in Handlers : HasRead(g)'
  <2>1. /\ ~raced /\ call[h].pc = "recv" /\ replies # <<>> /\ reply' = Head(replies)
        /\ call' = [call EXCEPT ![h].pc = "read"] /\ seen' = seen /\ db' = db
    BY <1>3 DEF Recv
  <2>2. HasRead(h)'
    <3>1. /\ call'[h].pc = "read" /\ call'[h].cmd = call[h].cmd /\ Key(call'[h]) = Key(call[h])
      BY <1>0, <2>1 DEF CallStates, Key
    <3>2. HasRead(h)
      BY <2>1 DEF HeldInv
    <3>. QED
      BY <2>1, <3>1, <3>2 DEF HasRead, InCall, Key
  <2>3. ASSUME NEW g \in Handlers, g # h PROVE HasRead(g)'
    <3>1. call[g].pc \notin {"recv", "read"}
      BY <2>1, <2>3 DEF SharedInv, Busy
    <3>2. call'[g] = call[g]
      BY <1>0, <2>1, <2>3
    <3>. QED
      BY <2>1, <3>1, <3>2, OthersKeep DEF HeldInv
  <2>. QED
    BY <2>2, <2>3
<1>4. ASSUME NEW h \in Handlers, Read(h) PROVE \A g \in Handlers : HasRead(g)'
  <2>1. /\ ~raced /\ call[h].pc = "read" /\ ~freed
        /\ seen' = seen /\ db' = db /\ replies' = replies /\ reply' = reply
    BY <1>4 DEF Read, SharedInv
  <2>2. call' = [call EXCEPT ![h].pc = "free", ![h].fs = Fields(call[h].cmd, reply)]
    BY <1>4, <2>1 DEF Read, Fields
  <2>3. HasRead(h)'
    <3>1. /\ call'[h].pc = "free" /\ call'[h].cmd = call[h].cmd /\ Key(call'[h]) = Key(call[h])
          /\ call'[h].fs = Fields(call[h].cmd, reply)
      BY <1>0, <2>2 DEF CallStates, Key
    <3>2. HasRead(h)
      BY <2>1 DEF HeldInv
    <3>. QED
      BY <2>1, <3>1, <3>2 DEF HasRead, InCall, Key
  <2>4. ASSUME NEW g \in Handlers, g # h PROVE HasRead(g)'
    BY <1>0, <2>1, <2>2, <2>4, OthersKeep DEF HeldInv
  <2>. QED
    BY <2>3, <2>4
<1>5. ASSUME NEW h \in Handlers, Free(h) PROVE \A g \in Handlers : HasRead(g)'
  <2>1. /\ ~raced /\ call[h].pc = "free" /\ GoOn(h)
        /\ db' = db /\ replies' = replies /\ reply' = reply
    BY <1>5 DEF Free
  <2>2. HasRead(h) /\ call[h] \in CallStates
    BY <1>0, <2>1 DEF HeldInv
  <2>3. HasRead(h)'
    <3>1. CASE call[h].fs = <<>>
      <4>1. call'[h] = [call[h] EXCEPT !.pc = "send", !.cmd = "GET"]
        BY <1>0, <2>1, <3>1 DEF GoOn
      <4>2. call'[h].pc = "send" /\ call'[h].cmd = "GET" /\ Key(call'[h]) = Key(call[h])
        BY <2>2, <4>1 DEF CallStates, Key
      <4>3. seen'[h] = seen[h]
        BY <1>0, <2>1, <2>2, <3>1 DEF GoOn, CallStates
      <4>4. PICK e \in seen[h] : <<>> = Fields(call[h].cmd, Answer(call[h].cmd, e))
        BY <2>1, <2>2, <3>1 DEF HasRead, InCall
      <4>5. e.type # "hash"
        <5>1. call[h].cmd = "HGETALL"
          BY <2>2, <4>4 DEF Fields, CallStates
        <5>. QED
          BY <1>0, <4>4, <5>1, NoFieldsNoHash
      <4>. QED
        BY <2>1, <2>2, <4>2, <4>3, <4>5 DEF HasRead, InCall, Key
    <3>2. CASE call[h].fs # <<>>
      <4>1. /\ call'[h].pc \in {"send", "done"} /\ call'[h].cmd = "HGETALL"
            /\ call'[h].pc = "send" => seen'[h] = {db[Key(call'[h])]}
        BY <1>0, <2>1, <2>2, <3>2 DEF GoOn, CallStates
      <4>2. IsFiniteSet({db[Key(call'[h])]})
        BY FS_Singleton
      <4>. QED
        BY <2>1, <4>1, <4>2 DEF HasRead, InCall, Key
    <3>. QED
      BY <3>1, <3>2
  <2>4. ASSUME NEW g \in Handlers, g # h PROVE HasRead(g)'
    <3>1. call'[g] = call[g] /\ seen'[g] = seen[g]
      BY <1>0, <2>1, <2>4 DEF GoOn
    <3>. QED
      BY <2>1, <3>1, OthersKeep DEF HeldInv
  <2>. QED
    BY <2>3, <2>4
<1>6. ASSUME NEW h \in Handlers, Return(h) PROVE \A g \in Handlers : HasRead(g)'
  <2>1. HasRead(h)'
    <3>1. call'[h].pc = "idle"
      BY <1>0, <1>6 DEF Return, Idle
    <3>. QED
      BY <3>1 DEF HasRead, InCall
  <2>2. ASSUME NEW g \in Handlers, g # h PROVE HasRead(g)'
    BY <1>0, <1>6, <2>2, OthersKeep DEF Return, HeldInv
  <2>. QED
    BY <2>1, <2>2
<1>7. ASSUME Restart PROVE \A g \in Handlers : HasRead(g)'
  BY <1>7, SMTT(40) DEF Restart, Idle, HasRead, InCall
<1>8. ASSUME NEW k \in Keys, Write(k) PROVE \A g \in Handlers : HasRead(g)'
  <2>1. PICK entry \in Entries :
          /\ db' = [db EXCEPT ![k] = entry]
          /\ seen' = [h \in Handlers |->
                        IF seen[h] # {} /\ Key(call[h]) = k THEN seen[h] \cup {entry}
                                                            ELSE seen[h]]
          /\ UNCHANGED <<link, replies, reply, freed, call, raced, leaked>>
    BY <1>8 DEF Write
  <2>2. SUFFICES ASSUME NEW h \in Handlers, call[h].pc \in InCall PROVE HasRead(h)'
    BY <2>1 DEF HasRead
  <2>3. HasRead(h) /\ seen[h] # {} /\ db[Key(call[h])] \in seen[h] /\ IsFiniteSet(seen[h])
    BY <2>1, <2>2 DEF HeldInv, HasRead
  <2>4. Key(call[h]) \in Keys /\ db \in [Keys -> Entries]
    BY <2>2, KeyType DEF TypeInv, TypeOK
  <2>5. db'[Key(call[h])] \in seen'[h]
    BY <2>1, <2>3, <2>4
  <2>6. seen[h] \subseteq seen'[h] /\ IsFiniteSet(seen'[h])
    <3>1. IsFiniteSet(seen[h] \cup {entry})
      BY <2>3, FS_AddElement
    <3>. QED
      BY <2>1, <2>3, <3>1
  <2>. QED
    BY <2>1, <2>3, <2>5, <2>6 DEF HasRead, Key
<1>9. ASSUME LinkLost PROVE \A g \in Handlers : HasRead(g)'
  BY <1>9, OthersKeep DEF LinkLost, HeldInv
<1>10. ASSUME UNCHANGED vars PROVE \A g \in Handlers : HasRead(g)'
  BY <1>10, OthersKeep DEF vars, HeldInv
<1>. QED
  BY <1>1, <1>2, <1>3, <1>4, <1>5, <1>6, <1>7, <1>8, <1>9, <1>10
     DEF Next, Step, NullReply, Crash

\* The property of a step.
SaysWhatIsHeld == \A h \in Handlers :
  ~raced /\ Len(call'[h].values) > Len(call[h].values) =>
    LET m == Last(call'[h].values)
    IN m[1] = <<<<"key">>, Key(call[h])>> /\ Held(Tail(m), seen[h])

\* Without a race, a message is about its key and says what the key held at
\* some moment of the handler's two commands.
THEOREM WhatMessagesSay == Spec => MessagesAreHeld
<1>1. TypeInv /\ HeldInv /\ [Next]_vars => SaysWhatIsHeld
  <2>. SUFFICES ASSUME TypeInv, HeldInv, [Next]_vars, NEW h \in Handlers, ~raced,
                       Len(call'[h].values) > Len(call[h].values)
                PROVE  LET m == Last(call'[h].values)
                       IN m[1] = <<<<"key">>, Key(call[h])>> /\ Held(Tail(m), seen[h])
    BY DEF SaysWhatIsHeld
  <2>0. call \in [Handlers -> CallStates] /\ seen \in [Handlers -> SUBSET Entries]
        /\ Len(call[h].values) \in Nat
    BY DEF TypeInv, TypeOK, CallInv, CallStates
  <2>1. Free(h)
    <3>0. ASSUME call'[h].values \in {call[h].values, <<>>} PROVE FALSE
      BY <2>0, <3>0
    <3>1. ASSUME NEW g \in Handlers, \/ Start(g) \/ Send(g) \/ Recv(g) \/ Read(g)
                                     \/ Return(g) \/ (Free(g) /\ g # h)
          PROVE  FALSE
      <4>1. CASE Start(g) \/ Return(g)
        <5>1. PICK c \in {Idle, [Idle EXCEPT !.pc = "send", !.keys = Asked[g]]} :
                call' = [call EXCEPT ![g] = c]
          BY <4>1 DEF Start, Return
        <5>2. c.values = <<>>
          <6>1. [Idle EXCEPT !.pc = "send", !.keys = Asked[g]].values = <<>>
            BY IdleType DEF Idle
          <6>. QED
            BY <5>1, <6>1, IdleType
        <5>3. call'[h].values \in {call[h].values, <<>>}
          BY <2>0, <5>1, <5>2
        <5>. QED
          BY <3>0, <5>3
      <4>2. CASE Send(g) \/ Recv(g)
        <5>1. PICK pc \in {"recv", "read"} : call' = [call EXCEPT ![g].pc = pc]
          BY <4>2 DEF Send, Recv
        <5>2. call'[h].values = call[h].values
          BY <2>0, <5>1 DEF CallStates
        <5>. QED
          BY <3>0, <5>2
      <4>3. CASE Read(g)
        <5>1. PICK fs \in Seq(Field) : call' = [call EXCEPT ![g].pc = "free", ![g].fs = fs]
          BY <4>3, ReadType
        <5>. QED
          BY <2>0, <3>0, <5>1 DEF CallStates
      <4>4. CASE Free(g) /\ g # h
        BY <2>0, <3>0, <4>4 DEF Free, GoOn
      <4>. QED
        BY <3>1, <4>1, <4>2, <4>3, <4>4
    <3>2. ASSUME Restart PROVE FALSE
      BY <2>0, <3>2, IdleType DEF Restart
    <3>3. ASSUME UNCHANGED call PROVE FALSE
      BY <2>0, <3>3
    <3>. QED
      BY <3>1, <3>2, <3>3 DEF Next, Step, NullReply, Crash, Write, LinkLost, vars
  <2>2. HasRead(h) /\ call[h].pc = "free" /\ call[h] \in CallStates /\ seen[h] \subseteq Entries
    BY <2>0, <2>1 DEF HeldInv, Free
  <2>. DEFINE message == <<<<<<"key">>, Key(call[h])>>>> \o call[h].fs
  <2>3. call[h].fs # <<>> /\ call'[h].values = Append(call[h].values, message)
    BY <2>0, <2>1, <2>2 DEF Free, GoOn, CallStates
  <2>4. Last(call'[h].values) = message
    <3>. HIDE DEF message
    <3>. QED
      BY <2>2, <2>3 DEF Last, CallStates
  <2>5. message[1] = <<<<"key">>, Key(call[h])>> /\ Tail(message) = call[h].fs
    BY <2>2 DEF CallStates
  <2>6. PICK e \in seen[h] : call[h].fs = Fields(call[h].cmd, Answer(call[h].cmd, e))
    BY <2>2 DEF HasRead, InCall
  <2>7. Held(call[h].fs, seen[h])
    BY <2>2, <2>3, <2>6, AnswersAreHeld DEF HasRead, InCall, CallStates
  <2>. QED
    BY <2>4, <2>5, <2>7
<1>2. Init => HeldInv
  BY DEF Init, HeldInv, HasRead, Idle, InCall
<1>3. Spec => []HeldInv
  BY <1>2, TypeInvHolds, SharedInvHolds, NextHeldInv, PTL DEF Spec
<1>4. TypeInv /\ HeldInv /\ [Next]_vars => [SaysWhatIsHeld]_vars
  BY <1>1
<1>5. Spec => [][SaysWhatIsHeld]_vars
  BY <1>3, <1>4, TypeInvHolds, PTL DEF Spec
<1>. QED
  BY <1>5 DEF MessagesAreHeld, SaysWhatIsHeld

-----------------------------------------------------------------------------
(* What arrives: a message is a text and a message again.  The text is read  *)
(* piece by piece, so each part of it takes the reader from one state to     *)
(* another, wherever in the text it is.                                      *)

Reader(fields, k, v, isTurnOfKey) ==
  [fields |-> fields, k |-> k, v |-> v, isTurnOfKey |-> isTurnOfKey]

\* The text is read to the state s.
ReadTo(r, text, s) ==
  /\ r = [i \in 0..Len(text) |-> r[i]] /\ r[0] = Unread /\ r[Len(text)] = s
  /\ \A i \in 1..Len(text) : r[i] = ReadPiece(r[i - 1], text[i])

Reads(text, s) == \E r : ReadTo(r, text, s)

\* What one piece does: a separator, another piece.
LEMMA SeparatorRead ==
  ASSUME NEW fields, NEW k, NEW v
  PROVE  /\ ReadPiece(Reader(fields, k, v, FALSE), FIELD_SEP)
              = Reader(Append(fields, <<k, v>>), <<>>, <<>>, TRUE)
         /\ ReadPiece(Reader(fields, k, v, TRUE), KV_SEP) = Reader(fields, k, v, FALSE)
         /\ ReadPiece(Reader(fields, k, v, FALSE), KV_SEP) = Reader(fields, k, v, FALSE)
<1>1. ASSUME NEW t \in BOOLEAN, NEW s, s = Reader(fields, k, v, t)
      PROVE  /\ ReadPiece(s, FIELD_SEP) = Reader(Append(fields, <<k, v>>), <<>>, <<>>, TRUE)
             /\ ReadPiece(s, KV_SEP) = Reader(fields, k, v, FALSE)
  <2>1. s.fields = fields /\ s.k = k /\ s.v = v /\ FIELD_SEP # KV_SEP
    BY <1>1 DEF Reader, FIELD_SEP, KV_SEP
  <2>2. ReadPiece(s, FIELD_SEP) = Reader(Append(fields, <<k, v>>), <<>>, <<>>, TRUE)
    <3>1. ReadPiece(s, FIELD_SEP) = [Unread EXCEPT !.fields = Append(fields, <<k, v>>)]
      BY <2>1 DEF ReadPiece
    <3>. QED
      BY <3>1 DEF Unread, Reader
  <2>3. ReadPiece(s, KV_SEP) = Reader(fields, k, v, FALSE)
    <3>1. ReadPiece(s, KV_SEP) = [s EXCEPT !.isTurnOfKey = FALSE]
      BY <2>1 DEF ReadPiece
    <3>. QED
      BY <1>1, <3>1 DEF Reader
  <2>. QED
    BY <2>2, <2>3
<1>. QED
  BY <1>1

LEMMA OtherRead ==
  ASSUME NEW c, c \notin {FIELD_SEP, KV_SEP}, NEW fields, NEW k, NEW v
  PROVE  /\ ReadPiece(Reader(fields, k, v, TRUE), c) = Reader(fields, Append(k, c), v, TRUE)
         /\ ReadPiece(Reader(fields, k, v, FALSE), c) = Reader(fields, k, Append(v, c), FALSE)
<1>1. ASSUME NEW t \in BOOLEAN, NEW s, s = Reader(fields, k, v, t)
      PROVE  ReadPiece(s, c) = IF t THEN Reader(fields, Append(k, c), v, t)
                                    ELSE Reader(fields, k, Append(v, c), t)
  <2>1. s.k = k /\ s.v = v /\ s.isTurnOfKey = t
    BY <1>1 DEF Reader
  <2>2. ReadPiece(s, c) = IF t THEN [s EXCEPT !.k = Append(k, c)]
                               ELSE [s EXCEPT !.v = Append(v, c)]
    BY <2>1 DEF ReadPiece
  <2>. QED
    BY <1>1, <2>2 DEF Reader
<1>. QED
  BY <1>1

LEMMA NothingRead == Reads(<<>>, Reader(<<>>, <<>>, <<>>, TRUE))
<1>. DEFINE r == [i \in 0..Len(<<>>) |-> Unread]
<1>1. ReadTo(r, <<>>, Unread)
  BY EmptySeq DEF ReadTo
<1>2. Unread = Reader(<<>>, <<>>, <<>>, TRUE)
  BY DEF Unread, Reader
<1>. QED
  BY <1>1, <1>2 DEF Reads

LEMMA MoreRead ==
  ASSUME NEW P, NEW text \in Seq(P), NEW c \in P, NEW s, Reads(text, s)
  PROVE  Reads(Append(text, c), ReadPiece(s, c))
<1>1. PICK r : ReadTo(r, text, s)
  BY DEF Reads
<1>. DEFINE n == Len(text)
            u == Append(text, c)
            q == [i \in 0..(n + 1) |-> IF i = n + 1 THEN ReadPiece(s, c) ELSE r[i]]
<1>2. n \in Nat /\ Len(u) = n + 1 /\ u[n + 1] = c /\ \A i \in 1..n : u[i] = text[i]
  BY AppendProperties
<1>3. /\ q = [i \in 0..(n + 1) |-> q[i]] /\ q[n + 1] = ReadPiece(s, c)
      /\ \A i \in 0..n : q[i] = r[i]
  BY <1>2
<1>4. r[0] = Unread /\ r[n] = s /\ \A i \in 1..n : r[i] = ReadPiece(r[i - 1], text[i])
  BY <1>1 DEF ReadTo
<1>. HIDE DEF n, u, q
<1>5. ASSUME NEW i \in 1..(n + 1) PROVE q[i] = ReadPiece(q[i - 1], u[i])
  <2>1. CASE i = n + 1
    <3>1. i - 1 = n /\ n \in 0..n
      BY <1>2, <2>1
    <3>. QED
      BY <1>2, <1>3, <1>4, <2>1, <3>1
  <2>2. CASE i # n + 1
    <3>1. i \in 1..n /\ i \in 0..n /\ i - 1 \in 0..n
      BY <1>2, <2>2
    <3>. QED
      BY <1>2, <1>3, <1>4, <3>1
  <2>. QED
    BY <2>1, <2>2
<1>6. q[0] = Unread
  <2>1. 0 \in 0..n
    BY <1>2
  <2>. QED
    BY <1>3, <1>4, <2>1
<1>7. ReadTo(q, u, ReadPiece(s, c))
  BY <1>2, <1>3, <1>5, <1>6 DEF ReadTo
<1>. QED
  BY <1>7 DEF Reads, u

\* What a text is read to is what str2fieldsMessage makes of it.
LEMMA MessageRead ==
  ASSUME NEW P, NEW text \in Seq(P), NEW s, Reads(text, s)
  PROVE  str2fieldsMessage(text) = Append(s.fields, <<s.k, s.v>>)
<1>1. PICK r : ReadTo(r, text, s)
  BY DEF Reads
<1>. DEFINE n == Len(text)
            Obeys(f) == f = [i \in 0..n |-> IF i = 0 THEN Unread ELSE ReadPiece(f[i - 1], text[i])]
            read == CHOOSE f : Obeys(f)
            T == {i \in 0..n : read[i] = r[i]}
<1>2. n \in Nat /\ \A i \in 1..n : i \in 0..n /\ i # 0
  OBVIOUS
<1>3. Obeys(r)
  <2>1. /\ r = [i \in 0..n |-> r[i]] /\ r[0] = Unread
        /\ \A i \in 1..n : r[i] = ReadPiece(r[i - 1], text[i])
    BY <1>1 DEF ReadTo
  <2>2. ASSUME NEW i \in 0..n
        PROVE  r[i] = IF i = 0 THEN Unread ELSE ReadPiece(r[i - 1], text[i])
    <3>1. CASE i = 0
      BY <2>1, <3>1
    <3>2. CASE i # 0
      <4>1. i \in 1..n
        BY <1>2, <3>2
      <4>. QED
        BY <2>1, <3>2, <4>1
    <3>. QED
      BY <3>1, <3>2
  <2>. HIDE DEF n
  <2>. QED
    BY <2>1, <2>2
<1>4. Obeys(read)
  <2>. HIDE DEF Obeys
  <2>. QED
    BY <1>3
<1>5. 0..n \subseteq T
  <2>1. 0 \in T
    <3>1. 0 \in 0..n
      BY <1>2
    <3>. HIDE DEF n, read
    <3>. QED
      BY <1>3, <1>4, <3>1
  <2>2. ASSUME NEW i \in 0..n, i \in T, i < n PROVE i + 1 \in T
    <3>1. i + 1 \in 0..n /\ i + 1 # 0 /\ (i + 1) - 1 = i
      BY <1>2, <2>2
    <3>2. read[i + 1] = ReadPiece(read[i], text[i + 1]) /\ r[i + 1] = ReadPiece(r[i], text[i + 1])
      <4>. HIDE DEF n, read
      <4>. QED
        BY <1>3, <1>4, <3>1
    <3>. QED
      BY <2>2, <3>1, <3>2
  <2>. HIDE DEF T
  <2>. QED
    BY <1>2, <2>1, <2>2, SetInductionFromZero
<1>6. read[n] = s
  <2>1. n \in 0..n
    BY <1>2
  <2>. QED
    BY <1>1, <1>5, <2>1 DEF ReadTo
<1>7. str2fieldsMessage(text) = Append(read[n].fields, <<read[n].k, read[n].v>>)
  BY DEF str2fieldsMessage
<1>. HIDE DEF read
<1>. QED
  BY <1>6, <1>7

LEMMA FunctionIsSeq ==
  ASSUME NEW S, NEW n \in Nat, NEW f \in [1..n -> S]
  PROVE  f \in Seq(S) /\ Len(f) = n
OBVIOUS

\* A sequence, one element after the other.
LEMMA OneMore ==
  ASSUME NEW P, NEW s \in Seq(P)
  PROVE  /\ Len(s) \in Nat /\ SubSeq(s, 1, 0) = <<>> /\ SubSeq(s, 1, Len(s)) = s
         /\ \A i \in 0..Len(s) : SubSeq(s, 1, i) \in Seq(P)
         /\ \A i \in 0..Len(s) : i < Len(s) =>
              /\ i + 1 \in 1..Len(s) /\ s[i + 1] \in P
              /\ SubSeq(s, 1, i + 1) = Append(SubSeq(s, 1, i), s[i + 1])
<1>1. Len(s) \in Nat /\ SubSeq(s, 1, 0) = <<>> /\ SubSeq(s, 1, Len(s)) = s
  BY SubSeqEmpty, SubSeqFull
<1>2. ASSUME NEW i \in 0..Len(s) PROVE SubSeq(s, 1, i) \in Seq(P)
  <2>1. \A j \in 1..i : s[j] \in P
    BY <1>1, ElementOfSeq
  <2>. QED
    BY <2>1, SubSeqProperties
<1>3. ASSUME NEW i \in 0..Len(s), i < Len(s)
      PROVE  /\ i + 1 \in 1..Len(s) /\ s[i + 1] \in P
             /\ SubSeq(s, 1, i + 1) = Append(SubSeq(s, 1, i), s[i + 1])
  <2>1. i + 1 \in 1..Len(s) /\ (i + 1) - 1 = i
    BY <1>1, <1>3
  <2>2. s[i + 1] \in P
    BY <2>1, ElementOfSeq
  <2>3. 1 \in 1..Len(s) /\ i + 1 \in 1..Len(s)
    BY <1>1, <2>1
  <2>4. SubSeq(s, 1, i + 1) = SubSeq(s, 1, i) \o <<s[i + 1]>>
    BY <2>1, <2>3, SubSeqRecursiveSecond
  <2>5. SubSeq(s, 1, i) \o <<s[i + 1]>> = Append(SubSeq(s, 1, i), s[i + 1])
    BY <1>2, <2>2, AppendIsConcat
  <2>. QED
    BY <2>1, <2>2, <2>4, <2>5
<1>. QED
  BY <1>1, <1>2, <1>3

LEMMA ConcatOneMore ==
  ASSUME NEW P, NEW s \in Seq(P), NEW t \in Seq(P), NEW c \in P
  PROVE  s \o Append(t, c) = Append(s \o t, c) /\ s \o t \in Seq(P)
<1>1. s \o t \in Seq(P) /\ <<c>> \in Seq(P)
  BY ConcatProperties
<1>2. Append(t, c) = t \o <<c>> /\ Append(s \o t, c) = (s \o t) \o <<c>>
  BY <1>1, AppendIsConcat
<1>3. (s \o t) \o <<c>> = s \o (t \o <<c>>)
  BY <1>1, ConcatAssociative
<1>. QED
  BY <1>1, <1>2, <1>3

LEMMA ConcatThree ==
  ASSUME NEW P, NEW s \in Seq(P), NEW t \in Seq(P), NEW u \in Seq(P)
  PROVE  (s \o t) \o u = s \o (t \o u)
BY ConcatAssociative

\* A name, without separators, is read as it is.
LEMMA NameRead ==
  ASSUME NEW P, NEW text \in Seq(P), NEW name \in Seq(P), NEW fields,
         \A i \in 1..Len(name) : name[i] \notin {FIELD_SEP, KV_SEP},
         Reads(text, Reader(fields, <<>>, <<>>, TRUE))
  PROVE  Reads(text \o name, Reader(fields, name, <<>>, TRUE))
<1>. DEFINE n == Len(name)
            p(i) == SubSeq(name, 1, i)
            R(i) == Reads(text \o p(i), Reader(fields, p(i), <<>>, TRUE))
            T == {i \in 0..n : R(i)}
<1>1. /\ n \in Nat /\ p(0) = <<>> /\ p(n) = name
      /\ \A i \in 0..n : p(i) \in Seq(P)
      /\ \A i \in 0..n : i < n => i + 1 \in 1..n /\ name[i + 1] \in P /\ p(i + 1) = Append(p(i), name[i + 1])
  BY OneMore
<1>. HIDE DEF p, n
<1>2. 0 \in T
  <2>1. text \o p(0) = text /\ 0 \in 0..n
    BY <1>1, ConcatEmptySeq
  <2>2. R(0)
    BY <1>1, <2>1
  <2>. QED
    BY <2>1, <2>2
<1>3. ASSUME NEW i \in 0..n, i \in T, i < n PROVE i + 1 \in T
  <2>. DEFINE c == name[i + 1]
  <2>1. /\ i + 1 \in 0..n /\ i + 1 \in 1..n /\ c \in P /\ p(i) \in Seq(P) /\ p(i + 1) = Append(p(i), c)
    BY <1>1, <1>3, SMTT(40)
  <2>2. c \notin {FIELD_SEP, KV_SEP}
    BY <2>1 DEF n
  <2>3. R(i)
    BY <1>3
  <2>. HIDE DEF c
  <2>4. ReadPiece(Reader(fields, p(i), <<>>, TRUE), c) = Reader(fields, Append(p(i), c), <<>>, TRUE)
    <3>1. ASSUME NEW k
          PROVE  ReadPiece(Reader(fields, k, <<>>, TRUE), c) = Reader(fields, Append(k, c), <<>>, TRUE)
      BY <2>2, OtherRead
    <3>. QED
      BY <3>1
  <2>5. text \o Append(p(i), c) = Append(text \o p(i), c) /\ text \o p(i) \in Seq(P)
    BY <2>1, ConcatOneMore
  <2>6. Reads(Append(text \o p(i), c), ReadPiece(Reader(fields, p(i), <<>>, TRUE), c))
    BY <2>1, <2>3, <2>5, MoreRead
  <2>7. R(i + 1)
    BY <2>1, <2>4, <2>5, <2>6
  <2>. HIDE DEF R
  <2>. QED
    BY <2>1, <2>7
<1>4. n \in T
  <2>. HIDE DEF T
  <2>1. 0..n \subseteq T
    BY <1>1, <1>2, <1>3, SetInductionFromZero
  <2>. QED
    BY <1>1, <2>1
<1>5. R(n)
  <2>. HIDE DEF R
  <2>. QED
    BY <1>4
<1>. QED
  BY <1>1, <1>5

\* What is left of a text without c, one element after the other.
Keeps(w, P, text, c) ==
  /\ w \in [0..Len(text) -> Seq(P)] /\ w[0] = <<>> /\ w[Len(text)] = Without(text, c)
  /\ \A i \in 1..Len(text) : w[i] = IF text[i] = c THEN w[i - 1] ELSE Append(w[i - 1], text[i])

LEMMA WithoutIsKept ==
  ASSUME NEW P, NEW text \in Seq(P), NEW c
  PROVE  \E w : Keeps(w, P, text, c)
<1>. DEFINE n == Len(text)
            S == Seq(P)
            next == [x \in S \X (1..n) |-> IF text[x[2]] = c THEN x[1] ELSE Append(x[1], text[x[2]])]
            Obeys(f) == f = [i \in 0..n |-> IF i = 0 THEN <<>>
                               ELSE IF text[i] = c THEN f[i - 1] ELSE Append(f[i - 1], text[i])]
            kept == CHOOSE f : Obeys(f)
<1>1. n \in Nat /\ <<>> \in S /\ \A i \in 1..n : text[i] \in P
  BY EmptySeq, ElementOfSeq
<1>2. next \in [S \X (1..n) -> S]
  <2>1. ASSUME NEW x \in S \X (1..n)
        PROVE  (IF text[x[2]] = c THEN x[1] ELSE Append(x[1], text[x[2]])) \in S
    BY <1>1, AppendProperties
  <2>. QED
    BY <2>1
<1>3. PICK w : RecursionFromZero(w, S, n, <<>>, next)
  <2>. HIDE DEF S, n, next
  <2>. QED
    BY <1>1, <1>2, RecursionFromZeroExists
<1>4. w \in [0..n -> S] /\ w[0] = <<>> /\ \A i \in 1..n : w[i] = next[<<w[i - 1], i>>]
  BY <1>3 DEF RecursionFromZero
<1>5. ASSUME NEW i \in 1..n PROVE w[i] = IF text[i] = c THEN w[i - 1] ELSE Append(w[i - 1], text[i])
  <2>1. i - 1 \in 0..n /\ w[i - 1] \in S
    <3>1. i - 1 \in 0..n
      BY <1>1
    <3>. HIDE DEF S, n
    <3>. QED
      BY <1>4, <3>1
  <2>2. w[i] = next[<<w[i - 1], i>>]
    BY <1>4
  <2>. HIDE DEF S, n
  <2>. QED
    BY <2>1, <2>2
<1>6. Obeys(w)
  <2>1. ASSUME NEW i \in 0..n
        PROVE  w[i] = IF i = 0 THEN <<>> ELSE IF text[i] = c THEN w[i - 1] ELSE Append(w[i - 1], text[i])
    <3>1. CASE i = 0
      BY <1>4, <3>1
    <3>2. CASE i # 0
      <4>1. i \in 1..n
        BY <1>1, <3>2
      <4>. QED
        BY <1>5, <3>2, <4>1
    <3>. QED
      BY <3>1, <3>2
  <2>. HIDE DEF n
  <2>. QED
    BY <1>4, <2>1
<1>7. Obeys(kept)
  <2>. HIDE DEF Obeys
  <2>. QED
    BY <1>6
<1>8. /\ kept = [i \in 0..n |-> kept[i]] /\ kept[0] = <<>>
      /\ \A i \in 1..n : kept[i] = IF text[i] = c THEN kept[i - 1] ELSE Append(kept[i - 1], text[i])
  <2>1. 0 \in 0..n /\ \A i \in 1..n : i \in 0..n /\ i # 0
    BY <1>1
  <2>. HIDE DEF n, kept
  <2>. QED
    BY <1>7, <2>1
<1>9. RecursionFromZero(kept, S, n, <<>>, next)
  <2>1. ASSUME NEW i \in 1..n, kept[i - 1] \in S PROVE kept[i] = next[<<kept[i - 1], i>>]
    <3>. HIDE DEF kept, n, S
    <3>. QED
      BY <1>8, <2>1
  <2>. HIDE DEF kept, n, S, next
  <2>2. Follows(kept, S, n, <<>>, next)
    BY <1>8, <2>1 DEF Follows
  <2>. QED
    BY <1>1, <1>2, <2>2, RecursionIsUnique
<1>10. kept \in [0..n -> S]
  BY <1>9 DEF RecursionFromZero
<1>11. kept[n] = Without(text, c)
  BY DEF Without
<1>. HIDE DEF kept
<1>. QED
  BY <1>8, <1>10, <1>11 DEF Keeps

\* A value, without FIELD_SEP, is read without its KV_SEPs.
LEMMA ValueRead ==
  ASSUME NEW P, NEW text \in Seq(P), NEW value \in Seq(P), NEW fields, NEW k,
         \A i \in 1..Len(value) : value[i] # FIELD_SEP,
         Reads(text, Reader(fields, k, <<>>, FALSE))
  PROVE  Reads(text \o value, Reader(fields, k, Without(value, KV_SEP), FALSE))
<1>1. PICK w : Keeps(w, P, value, KV_SEP)
  BY WithoutIsKept
<1>. DEFINE n == Len(value)
            p(i) == SubSeq(value, 1, i)
            R(i) == Reads(text \o p(i), Reader(fields, k, w[i], FALSE))
            T == {i \in 0..n : R(i)}
<1>2. /\ n \in Nat /\ p(0) = <<>> /\ p(n) = value
      /\ \A i \in 0..n : p(i) \in Seq(P)
      /\ \A i \in 0..n : i < n => i + 1 \in 1..n /\ value[i + 1] \in P /\ p(i + 1) = Append(p(i), value[i + 1])
  BY OneMore
<1>3. /\ w[0] = <<>> /\ w[n] = Without(value, KV_SEP)
      /\ \A i \in 1..n : w[i] = IF value[i] = KV_SEP THEN w[i - 1] ELSE Append(w[i - 1], value[i])
  BY <1>1 DEF Keeps
<1>4. \A i \in 1..n : value[i] # FIELD_SEP
  OBVIOUS
<1>. HIDE DEF p, n
<1>5. 0 \in T
  <2>1. text \o p(0) = text /\ 0 \in 0..n
    BY <1>2, ConcatEmptySeq
  <2>2. R(0)
    BY <1>3, <2>1
  <2>. QED
    BY <2>1, <2>2
<1>6. ASSUME NEW i \in 0..n, i \in T, i < n PROVE i + 1 \in T
  <2>. DEFINE c == value[i + 1]
  <2>1. /\ i + 1 \in 0..n /\ i + 1 \in 1..n /\ c \in P /\ p(i) \in Seq(P) /\ p(i + 1) = Append(p(i), c)
        /\ (i + 1) - 1 = i
    BY <1>2, <1>6, SMTT(40)
  <2>2. c # FIELD_SEP /\ w[i + 1] = IF c = KV_SEP THEN w[i] ELSE Append(w[i], c)
    BY <1>3, <1>4, <2>1
  <2>3. R(i)
    BY <1>6
  <2>. HIDE DEF c
  <2>4. ReadPiece(Reader(fields, k, w[i], FALSE), c) = Reader(fields, k, w[i + 1], FALSE)
    <3>1. CASE c = KV_SEP
      <4>1. ReadPiece(Reader(fields, k, w[i], FALSE), KV_SEP) = Reader(fields, k, w[i], FALSE)
        BY SeparatorRead
      <4>. QED
        BY <2>2, <3>1, <4>1
    <3>2. CASE c # KV_SEP
      <4>1. c \notin {FIELD_SEP, KV_SEP}
        BY <2>2, <3>2
      <4>2. ReadPiece(Reader(fields, k, w[i], FALSE), c) = Reader(fields, k, Append(w[i], c), FALSE)
        <5>1. ASSUME NEW v
              PROVE  ReadPiece(Reader(fields, k, v, FALSE), c) = Reader(fields, k, Append(v, c), FALSE)
          BY <4>1, OtherRead
        <5>. QED
          BY <5>1
      <4>. QED
        BY <2>2, <3>2, <4>2
    <3>. QED
      BY <3>1, <3>2
  <2>5. text \o Append(p(i), c) = Append(text \o p(i), c) /\ text \o p(i) \in Seq(P)
    BY <2>1, ConcatOneMore
  <2>6. Reads(Append(text \o p(i), c), ReadPiece(Reader(fields, k, w[i], FALSE), c))
    BY <2>1, <2>3, <2>5, MoreRead
  <2>7. R(i + 1)
    BY <2>1, <2>4, <2>5, <2>6
  <2>. HIDE DEF R
  <2>. QED
    BY <2>1, <2>7
<1>7. n \in T
  <2>. HIDE DEF T
  <2>1. 0..n \subseteq T
    BY <1>2, <1>5, <1>6, SetInductionFromZero
  <2>. QED
    BY <1>2, <2>1
<1>8. R(n)
  <2>. HIDE DEF R
  <2>. QED
    BY <1>7
<1>. QED
  BY <1>2, <1>3, <1>8

\* A field that can be told apart in a text.
Plain(f) == FIELD_SEP \notin ToSet(f[1] \o f[2]) /\ KV_SEP \notin ToSet(f[1])

Pair(f) == f[1] \o <<KV_SEP>> \o f[2]

LEMMA PairRead ==
  ASSUME NEW P, KV_SEP \in P, NEW text \in Seq(P), NEW f \in Seq(P) \X Seq(P), Plain(f), NEW fields,
         Reads(text, Reader(fields, <<>>, <<>>, TRUE))
  PROVE  /\ Reads(text \o Pair(f), Reader(fields, f[1], Without(f[2], KV_SEP), FALSE))
         /\ text \o Pair(f) \in Seq(P)
<1>. DEFINE name == f[1]
            value == f[2]
<1>1. name \in Seq(P) /\ value \in Seq(P) /\ <<KV_SEP>> \in Seq(P)
  OBVIOUS
<1>2. /\ \A i \in 1..Len(name) : name[i] \notin {FIELD_SEP, KV_SEP}
      /\ \A i \in 1..Len(value) : value[i] # FIELD_SEP
  <2>1. Len(name) \in Nat /\ Len(value) \in Nat /\ DOMAIN name = 1..Len(name)
        /\ FIELD_SEP \notin ToSet(name \o value) /\ KV_SEP \notin ToSet(name)
    BY <1>1 DEF Plain
  <2>. HIDE DEF name, value
  <2>2. /\ name \o value \in Seq(P) /\ Len(name \o value) = Len(name) + Len(value)
        /\ \A i \in 1..(Len(name) + Len(value)) :
             (name \o value)[i] = IF i <= Len(name) THEN name[i] ELSE value[i - Len(name)]
    BY <1>1, ConcatProperties
  <2>3. \A i \in 1..(Len(name) + Len(value)) : (name \o value)[i] # FIELD_SEP
    <3>1. DOMAIN (name \o value) = 1..(Len(name) + Len(value))
      BY <2>2
    <3>. QED
      BY <2>1, <3>1 DEF ToSet
  <2>4. ASSUME NEW i \in 1..Len(name) PROVE name[i] \notin {FIELD_SEP, KV_SEP}
    <3>1. i \in 1..(Len(name) + Len(value)) /\ i <= Len(name)
      BY <2>1
    <3>2. (name \o value)[i] = name[i]
      BY <2>2, <3>1
    <3>3. name[i] # KV_SEP
      BY <2>1 DEF ToSet
    <3>. QED
      BY <2>3, <3>1, <3>2, <3>3
  <2>5. ASSUME NEW i \in 1..Len(value) PROVE value[i] # FIELD_SEP
    <3>1. i + Len(name) \in 1..(Len(name) + Len(value)) /\ ~(i + Len(name) <= Len(name))
          /\ (i + Len(name)) - Len(name) = i
      BY <2>1
    <3>2. (name \o value)[i + Len(name)] = value[i]
      BY <2>2, <3>1
    <3>. QED
      BY <2>3, <3>1, <3>2
  <2>. QED
    BY <2>4, <2>5
<1>. HIDE DEF name, value
<1>. DEFINE read == text \o name
            sep == Append(read, KV_SEP)
<1>3. Reads(read, Reader(fields, name, <<>>, TRUE)) /\ read \in Seq(P)
  BY <1>1, <1>2, NameRead, ConcatProperties
<1>4. Reads(sep, Reader(fields, name, <<>>, FALSE)) /\ sep \in Seq(P)
  <2>. HIDE DEF read
  <2>1. Reads(Append(read, KV_SEP), ReadPiece(Reader(fields, name, <<>>, TRUE), KV_SEP))
    BY <1>3, MoreRead
  <2>2. ReadPiece(Reader(fields, name, <<>>, TRUE), KV_SEP) = Reader(fields, name, <<>>, FALSE)
    BY SeparatorRead
  <2>3. Append(read, KV_SEP) \in Seq(P)
    BY <1>3, AppendProperties
  <2>. QED
    BY <2>1, <2>2, <2>3
<1>5. Reads(sep \o value, Reader(fields, name, Without(value, KV_SEP), FALSE)) /\ sep \o value \in Seq(P)
  <2>. HIDE DEF sep
  <2>. QED
    BY <1>1, <1>2, <1>4, ValueRead, ConcatProperties
<1>6. sep \o value = text \o Pair(f)
  <2>1. sep = read \o <<KV_SEP>>
    BY <1>3, AppendIsConcat
  <2>2. read \o <<KV_SEP>> = text \o (name \o <<KV_SEP>>)
    BY <1>1, ConcatAssociative, SMTT(40)
  <2>3. name \o <<KV_SEP>> \in Seq(P)
    BY <1>1, ConcatProperties
  <2>. DEFINE key == name \o <<KV_SEP>>
  <2>4. (text \o key) \o value = text \o (key \o value)
    <3>1. key \in Seq(P)
      BY <2>3
    <3>2. text \in Seq(P) /\ value \in Seq(P)
      BY <1>1
    <3>. HIDE DEF key
    <3>. QED
      BY <3>1, <3>2, ConcatThree, SMTT(40)
  <2>. QED
    BY <2>1, <2>2, <2>4 DEF Pair, name, value
<1>. QED
  BY <1>5, <1>6 DEF name, value

\* The text of a message, one field after the other.
Joins(j, P, m) ==
  /\ j \in [0..Len(m) -> Seq(P)] /\ j[0] = <<>> /\ j[Len(m)] = join_Fields(m)
  /\ \A i \in 1..Len(m) : j[i] = (IF i = 1 THEN <<>> ELSE Append(j[i - 1], FIELD_SEP)) \o Pair(m[i])

LEMMA MessageIsJoined ==
  ASSUME NEW P, {FIELD_SEP, KV_SEP} \subseteq P, NEW m \in Seq(Seq(P) \X Seq(P))
  PROVE  \E j : Joins(j, P, m)
<1>. DEFINE n == Len(m)
            S == Seq(P)
            after(t, i) == (IF i = 1 THEN <<>> ELSE t \o <<FIELD_SEP>>) \o Pair(m[i])
            next == [x \in S \X (1..n) |-> after(x[1], x[2])]
            Obeys(f) == f = [i \in 0..n |-> IF i = 0 THEN <<>> ELSE after(f[i - 1], i)]
            join == CHOOSE f : Obeys(f)
<1>1. n \in Nat /\ <<>> \in S
  BY EmptySeq
<1>2. ASSUME NEW t \in S, NEW i \in 1..n PROVE after(t, i) \in S
  <2>1. m[i] \in S \X S
    BY ElementOfSeq
  <2>2. m[i][1] \in S /\ m[i][2] \in S /\ <<KV_SEP>> \in S /\ <<FIELD_SEP>> \in S
    BY <2>1
  <2>. DEFINE first == IF i = 1 THEN <<>> ELSE t \o <<FIELD_SEP>>
  <2>3. first \in S
    BY <1>1, <2>2, ConcatProperties
  <2>4. Pair(m[i]) \in S
    <3>. DEFINE key == m[i][1] \o <<KV_SEP>>
    <3>1. key \in S
      BY <2>2, ConcatProperties
    <3>2. key \o m[i][2] \in S
      <4>. HIDE DEF key
      <4>. QED
        BY <2>2, <3>1, ConcatProperties
    <3>. QED
      BY <3>2 DEF Pair
  <2>5. first \o Pair(m[i]) \in S
    <3>. HIDE DEF first
    <3>. QED
      BY <2>3, <2>4, ConcatProperties
  <2>. QED
    BY <2>5
<1>. HIDE DEF S, n, after
<1>3. next \in [S \X (1..n) -> S]
  BY <1>2
<1>4. PICK j : RecursionFromZero(j, S, n, <<>>, next)
  <2>. HIDE DEF next
  <2>. QED
    BY <1>1, <1>3, RecursionFromZeroExists
<1>5. j \in [0..n -> S] /\ j[0] = <<>> /\ \A i \in 1..n : j[i] = next[<<j[i - 1], i>>]
  BY <1>4 DEF RecursionFromZero
<1>6. ASSUME NEW i \in 1..n PROVE i - 1 \in 0..n /\ j[i - 1] \in S /\ j[i] = after(j[i - 1], i)
  <2>1. i - 1 \in 0..n
    BY <1>1
  <2>2. j[i - 1] \in S /\ j[i] = next[<<j[i - 1], i>>]
    BY <1>5, <2>1
  <2>. QED
    BY <2>1, <2>2
<1>7. Obeys(j)
  <2>1. ASSUME NEW i \in 0..n PROVE j[i] = IF i = 0 THEN <<>> ELSE after(j[i - 1], i)
    <3>1. CASE i = 0
      BY <1>5, <3>1
    <3>2. CASE i # 0
      <4>1. i \in 1..n
        BY <1>1, <3>2
      <4>. QED
        BY <1>6, <3>2, <4>1
    <3>. QED
      BY <3>1, <3>2
  <2>. QED
    BY <1>5, <2>1
<1>8. Obeys(join)
  <2>. HIDE DEF Obeys
  <2>. QED
    BY <1>7
<1>9. /\ join = [i \in 0..n |-> join[i]] /\ join[0] = <<>>
      /\ \A i \in 1..n : join[i] = after(join[i - 1], i)
  <2>1. 0 \in 0..n /\ \A i \in 1..n : i \in 0..n /\ i # 0
    BY <1>1
  <2>. HIDE DEF join
  <2>. QED
    BY <1>8, <2>1
<1>10. RecursionFromZero(join, S, n, <<>>, next)
  <2>1. ASSUME NEW i \in 1..n, join[i - 1] \in S PROVE join[i] = next[<<join[i - 1], i>>]
    <3>. HIDE DEF join
    <3>. QED
      BY <1>9, <2>1
  <2>. HIDE DEF join, next
  <2>2. Follows(join, S, n, <<>>, next)
    BY <1>9, <2>1 DEF Follows
  <2>. QED
    BY <1>1, <1>3, <2>2, RecursionIsUnique
<1>11. join \in [0..n -> S]
  BY <1>10 DEF RecursionFromZero
<1>12. join[n] = join_Fields(m)
  BY DEF join_Fields, Pair, after, n
<1>13. ASSUME NEW i \in 1..n
       PROVE  join[i] = (IF i = 1 THEN <<>> ELSE Append(join[i - 1], FIELD_SEP)) \o Pair(m[i])
  <2>1. i - 1 \in 0..n
    BY <1>1
  <2>. HIDE DEF join
  <2>2. join[i - 1] \in S
    BY <1>11, <2>1
  <2>3. join[i - 1] \o <<FIELD_SEP>> = Append(join[i - 1], FIELD_SEP)
    BY <2>2, AppendIsConcat DEF S
  <2>4. join[i] = (IF i = 1 THEN <<>> ELSE join[i - 1] \o <<FIELD_SEP>>) \o Pair(m[i])
    BY <1>9 DEF after
  <2>. QED
    BY <2>3, <2>4
<1>. HIDE DEF join
<1>. QED
  BY <1>9, <1>11, <1>12, <1>13 DEF Joins, S, n

\* The message is read back, each value without its KV_SEPs.
LEMMA RoundTrip ==
  ASSUME NEW P, {FIELD_SEP, KV_SEP} \subseteq P, NEW m \in Seq(Seq(P) \X Seq(P)), m # <<>>,
         \A i \in 1..Len(m) : Plain(m[i])
  PROVE  str2fieldsMessage(join_Fields(m)) = [i \in DOMAIN m |-> <<m[i][1], Without(m[i][2], KV_SEP)>>]
<1>. DEFINE n == Len(m)
            left(i) == <<m[i][1], Without(m[i][2], KV_SEP)>>
            upto(i) == [x \in 1..i |-> left(x)]
            State(i) == Reader(upto(i - 1), m[i][1], Without(m[i][2], KV_SEP), FALSE)
<1>1. /\ n \in Nat /\ n # 0 /\ DOMAIN m = 1..n /\ KV_SEP \in P /\ FIELD_SEP \in P
      /\ \A i \in 1..n : m[i] \in Seq(P) \X Seq(P) /\ Plain(m[i])
  BY EmptySeq, ElementOfSeq
<1>2. PICK j : Joins(j, P, m)
  BY MessageIsJoined
<1>3. /\ j \in [0..n -> Seq(P)] /\ j[0] = <<>> /\ j[n] = join_Fields(m)
      /\ \A i \in 1..n : j[i] = (IF i = 1 THEN <<>> ELSE Append(j[i - 1], FIELD_SEP)) \o Pair(m[i])
  BY <1>2 DEF Joins
<1>4. ASSUME NEW i \in 0..n, i < n PROVE Append(upto(i), left(i + 1)) = upto(i + 1)
  <2>. DEFINE l == left(i + 1)
              t == Append(upto(i), l)
              S == {left(x) : x \in 1..(i + 1)}
  <2>1. i \in Nat /\ i + 1 \in Nat /\ l \in S
    <3>1. i + 1 \in 1..(i + 1)
      BY <1>1
    <3>. HIDE DEF left
    <3>. QED
      BY <1>1, <3>1
  <2>2. /\ upto(i) \in Seq(S) /\ Len(upto(i)) = i
        /\ upto(i + 1) \in Seq(S) /\ Len(upto(i + 1)) = i + 1
    <3>. HIDE DEF left
    <3>1. upto(i) \in [1..i -> S] /\ upto(i + 1) \in [1..(i + 1) -> S]
      BY <2>1
    <3>. HIDE DEF upto, S
    <3>. QED
      BY <2>1, <3>1, FunctionIsSeq
  <2>3. \A x \in 1..i : upto(i)[x] = left(x)
    OBVIOUS
  <2>4. \A x \in 1..(i + 1) : upto(i + 1)[x] = left(x)
    OBVIOUS
  <2>. HIDE DEF upto, left, S
  <2>5. /\ t \in Seq(S) /\ Len(t) = i + 1 /\ t[i + 1] = l
        /\ \A x \in 1..i : t[x] = upto(i)[x]
    <3>1. PICK u : u = upto(i)
      OBVIOUS
    <3>2. u \in Seq(S) /\ Len(u) = i
      BY <2>2, <3>1
    <3>. HIDE DEF l
    <3>3. /\ Append(u, l) \in Seq(S) /\ Len(Append(u, l)) = i + 1 /\ Append(u, l)[i + 1] = l
          /\ \A x \in 1..i : Append(u, l)[x] = u[x]
      <4>1. u \in Seq(S) /\ l \in S
        BY <2>1, <3>2
      <4>. HIDE DEF S
      <4>2. /\ Append(u, l) \in Seq(S) /\ Len(Append(u, l)) = Len(u) + 1
            /\ Append(u, l)[Len(u) + 1] = l
            /\ \A x \in 1..Len(u) : Append(u, l)[x] = u[x]
        BY <4>1, AppendProperties
      <4>. QED
        BY <3>2, <4>2
    <3>. QED
      BY <3>1, <3>3
  <2>6. \A x \in 1..(i + 1) : t[x] = upto(i + 1)[x]
    <3>1. ASSUME NEW x \in 1..(i + 1) PROVE t[x] = left(x)
      <4>1. CASE x = i + 1
        BY <2>5, <4>1
      <4>2. CASE x # i + 1
        <5>1. x \in 1..i
          BY <2>1, <4>2
        <5>. QED
          BY <2>3, <2>5, <5>1
      <4>. QED
        BY <4>1, <4>2
    <3>. QED
      BY <2>4, <3>1
  <2>. HIDE DEF t
  <2>7. t = upto(i + 1)
    BY <2>2, <2>5, <2>6, SeqEqual
  <2>. QED
    BY <2>7 DEF t
<1>. DEFINE R(i) == Reads(j[i], State(i)) /\ j[i] \in Seq(P)
            T == {i \in 1..n : R(i)}
<1>5. ASSUME NEW i \in 1..n, NEW text \in Seq(P), NEW fields,
             Reads(text, Reader(fields, <<>>, <<>>, TRUE)), fields = upto(i - 1), j[i] = text \o Pair(m[i])
      PROVE  R(i)
  <2>. DEFINE f == m[i]
  <2>1. f \in Seq(P) \X Seq(P) /\ Plain(f)
    BY <1>1
  <2>. HIDE DEF f
  <2>2. /\ Reads(text \o Pair(f), Reader(fields, f[1], Without(f[2], KV_SEP), FALSE))
        /\ text \o Pair(f) \in Seq(P)
    BY <1>1, <1>5, <2>1, PairRead
  <2>. QED
    BY <1>5, <2>2 DEF f
<1>. HIDE DEF left, n
<1>6. 1 \in T
  <2>1. 1 \in 1..n /\ 1 - 1 = 0
    BY <1>1
  <2>2. upto(0) = <<>>
    OBVIOUS
  <2>3. <<>> \in Seq(P) /\ Reads(<<>>, Reader(<<>>, <<>>, <<>>, TRUE))
    BY EmptySeq, NothingRead
  <2>4. j[1] = <<>> \o Pair(m[1])
    BY <1>3, <2>1
  <2>5. R(1)
    <3>. HIDE DEF R, upto
    <3>. QED
      BY <1>5, <2>1, <2>2, <2>3, <2>4
  <2>. HIDE DEF R
  <2>. QED
    BY <2>1, <2>5
<1>7. ASSUME NEW i \in 1..n, i \in T, i < n PROVE i + 1 \in T
  <2>1. i + 1 \in 1..n /\ i + 1 # 1 /\ (i + 1) - 1 = i /\ i - 1 \in 0..n /\ i - 1 < n /\ (i - 1) + 1 = i
    BY <1>1, <1>7
  <2>2. R(i)
    BY <1>7
  <2>. DEFINE s == State(i)
              text == Append(j[i], FIELD_SEP)
  <2>3. ReadPiece(s, FIELD_SEP) = Reader(Append(upto(i - 1), left(i)), <<>>, <<>>, TRUE)
    <3>1. ASSUME NEW fields, NEW k, NEW v
          PROVE  ReadPiece(Reader(fields, k, v, FALSE), FIELD_SEP)
                   = Reader(Append(fields, <<k, v>>), <<>>, <<>>, TRUE)
      BY SeparatorRead
    <3>. HIDE DEF upto
    <3>. QED
      BY <3>1 DEF left
  <2>. HIDE DEF upto
  <2>4. Append(upto(i - 1), left(i)) = upto(i)
    BY <1>4, <2>1
  <2>5. Reads(text, ReadPiece(s, FIELD_SEP)) /\ text \in Seq(P)
    <3>. HIDE DEF s
    <3>1. Reads(j[i], s) /\ j[i] \in Seq(P)
      BY <2>2 DEF s
    <3>. QED
      BY <1>1, <3>1, MoreRead, AppendProperties
  <2>6. Reads(text, Reader(upto(i), <<>>, <<>>, TRUE))
    BY <2>3, <2>4, <2>5
  <2>7. j[i + 1] = text \o Pair(m[i + 1])
    BY <1>3, <2>1
  <2>8. upto(i) = upto((i + 1) - 1)
    BY <2>1
  <2>. HIDE DEF R, text
  <2>9. R(i + 1)
    BY <1>5, <2>1, <2>5, <2>6, <2>7, <2>8
  <2>. QED
    BY <2>1, <2>9
<1>8. n \in T
  <2>. HIDE DEF T
  <2>1. 1..n \subseteq T
    BY <1>1, <1>6, <1>7, SetInduction
  <2>. QED
    BY <1>1, <2>1
<1>9. R(n)
  <2>. HIDE DEF R
  <2>. QED
    BY <1>8
<1>. DEFINE s == State(n)
<1>10. s.fields = upto(n - 1) /\ <<s.k, s.v>> = left(n)
  BY DEF Reader, left
<1>11. str2fieldsMessage(j[n]) = Append(s.fields, <<s.k, s.v>>)
  <2>1. Reads(j[n], s) /\ j[n] \in Seq(P)
    BY <1>9
  <2>. HIDE DEF s
  <2>. QED
    BY <2>1, MessageRead
<1>12. Append(upto(n - 1), left(n)) = upto(n)
  <2>1. n - 1 \in 0..n /\ n - 1 < n /\ (n - 1) + 1 = n
    BY <1>1
  <2>. HIDE DEF upto
  <2>. QED
    BY <1>4, <2>1
<1>13. str2fieldsMessage(join_Fields(m)) = upto(n)
  <2>. HIDE DEF s, upto
  <2>. QED
    BY <1>3, <1>10, <1>11, <1>12
<1>14. upto(n) = [i \in DOMAIN m |-> <<m[i][1], Without(m[i][2], KV_SEP)>>]
  BY <1>1 DEF left
<1>. QED
  BY <1>13, <1>14

\* A message is never without fields: its first is the key.
FilledInv == \A h \in Handlers : \A i \in 1..Len(call[h].values) : call[h].values[i] # <<>>

LEMMA FirstIsField ==
  ASSUME NEW S, NEW key \in Seq(S), NEW fs \in Seq(S)
  PROVE  key \o fs \in Seq(S) /\ (Len(key) = 1 => key \o fs # <<>>)
<1>1. key \o fs \in Seq(S) /\ Len(key \o fs) = Len(key) + Len(fs)
  BY ConcatProperties
<1>2. Len(fs) \in Nat
  OBVIOUS
<1>3. ASSUME Len(key) = 1, key \o fs = <<>> PROVE FALSE
  <2>1. Len(key \o fs) = 0
    BY <1>3
  <2>. DEFINE l == Len(key \o fs)
  <2>2. l = 0 /\ l = Len(key) + Len(fs)
    BY <1>1, <2>1
  <2>. HIDE DEF l
  <2>. QED
    BY <1>2, <1>3, <2>2
<1>. QED
  BY <1>1, <1>3

LEMMA NextFilledInv == TypeInv /\ FilledInv /\ [Next]_vars => FilledInv'
<1>. SUFFICES ASSUME TypeInv, FilledInv, [Next]_vars PROVE FilledInv'
  OBVIOUS
<1>0. call \in [Handlers -> CallStates]
  BY DEF TypeInv, CallInv
<1>1. ASSUME NEW h \in Handlers, call'[h].values \in {call[h].values, <<>>}
      PROVE  \A i \in 1..Len(call'[h].values) : call'[h].values[i] # <<>>
  BY <1>1, EmptySeq DEF FilledInv
<1>2. ASSUME \A h \in Handlers : call'[h].values \in {call[h].values, <<>>} PROVE FilledInv'
  BY <1>1, <1>2 DEF FilledInv
<1>3. ASSUME NEW g \in Handlers, Start(g) \/ Return(g) PROVE FilledInv'
  <2>1. PICK c \in {Idle, [Idle EXCEPT !.pc = "send", !.keys = Asked[g]]} :
          call' = [call EXCEPT ![g] = c]
    BY <1>3 DEF Start, Return
  <2>2. c.values = <<>>
    <3>1. [Idle EXCEPT !.pc = "send", !.keys = Asked[g]].values = <<>>
      BY IdleType DEF Idle
    <3>. QED
      BY <2>1, <3>1, IdleType
  <2>3. \A h \in Handlers : call'[h].values \in {call[h].values, <<>>}
    BY <1>0, <2>1, <2>2
  <2>. QED
    BY <1>2, <2>3
<1>4. ASSUME NEW g \in Handlers, Send(g) \/ Recv(g) PROVE FilledInv'
  <2>1. PICK pc \in {"recv", "read"} : call' = [call EXCEPT ![g].pc = pc]
    BY <1>4 DEF Send, Recv
  <2>2. \A h \in Handlers : call'[h].values = call[h].values
    BY <1>0, <2>1 DEF CallStates
  <2>. QED
    BY <1>2, <2>2
<1>5. ASSUME NEW g \in Handlers, Read(g) PROVE FilledInv'
  <2>1. PICK fs \in Seq(Field) : call' = [call EXCEPT ![g].pc = "free", ![g].fs = fs]
    BY <1>5, ReadType
  <2>2. \A h \in Handlers : call'[h].values = call[h].values
    BY <1>0, <2>1 DEF CallStates
  <2>. QED
    BY <1>2, <2>2
<1>6. ASSUME NEW g \in Handlers, Free(g) PROVE FilledInv'
  <2>1. call[g].pc = "free" /\ GoOn(g)
    BY <1>6 DEF Free
  <2>. DEFINE c == call[g]
              message == <<<<<<"key">>, Key(c)>>>> \o c.fs
              values == Append(c.values, message)
  <2>2. c \in CallStates /\ Key(c) \in Texts
    BY <1>0, <2>1, KeyType DEF TypeInv, InCall
  <2>3. message \in Seq(Field) /\ message # <<>>
    <3>1. <<<<<<"key">>, Key(c)>>>> \in Seq(Field) /\ c.fs \in Seq(Field)
      BY <2>2, TextTypes, FieldTypes DEF CallStates
    <3>2. Len(<<<<<<"key">>, Key(c)>>>>) = 1
      OBVIOUS
    <3>. QED
      BY <3>1, <3>2, FirstIsField
  <2>4. call'[g].values \in {c.values, values} /\ \A h \in Handlers \ {g} : call'[h] = call[h]
    <3>. HIDE DEF message
    <3>1. call' = [call EXCEPT ![g] = IF c.fs = <<>> THEN [c EXCEPT !.pc = "send", !.cmd = "GET"]
                     ELSE [c EXCEPT !.pc = IF Len(values) = Len(c.keys) THEN "done" ELSE "send",
                                    !.cmd = "HGETALL", !.fs = <<>>, !.values = values]]
      BY <2>1 DEF GoOn, message
    <3>. HIDE DEF values
    <3>. QED
      BY <1>0, <2>2, <3>1 DEF CallStates
  <2>5. \A i \in 1..Len(call'[g].values) : call'[g].values[i] # <<>>
    <3>1. CASE call'[g].values = c.values
      BY <1>1, <3>1
    <3>2. CASE call'[g].values = values
      <4>1. c.values \in Seq(Seq(Field)) /\ \A i \in 1..Len(c.values) : c.values[i] # <<>>
        BY <2>2 DEF CallStates, FilledInv
      <4>. HIDE DEF message, c
      <4>2. /\ Len(values) = Len(c.values) + 1 /\ values[Len(c.values) + 1] = message
            /\ Len(c.values) \in Nat /\ \A i \in 1..Len(c.values) : values[i] = c.values[i]
        BY <2>3, <4>1, AppendProperties
      <4>. HIDE DEF values
      <4>3. ASSUME NEW i \in 1..Len(values) PROVE values[i] # <<>>
        <5>1. CASE i = Len(c.values) + 1
          BY <2>3, <4>2, <5>1
        <5>2. CASE i # Len(c.values) + 1
          <6>1. i \in 1..Len(c.values)
            BY <4>2, <5>2
          <6>. QED
            BY <4>1, <4>2, <6>1
        <5>. QED
          BY <5>1, <5>2
      <4>. QED
        BY <3>2, <4>3
    <3>. QED
      BY <2>4, <3>1, <3>2
  <2>. QED
    BY <2>4, <2>5 DEF FilledInv
<1>7. ASSUME Restart PROVE FilledInv'
  BY <1>2, <1>7, IdleType DEF Restart
<1>8. ASSUME UNCHANGED call PROVE FilledInv'
  BY <1>2, <1>8
<1>9. ASSUME LinkLost \/ UNCHANGED vars \/ \E k \in Keys : Write(k) PROVE FilledInv'
  BY <1>8, <1>9 DEF LinkLost, vars, Write
<1>. QED
  BY <1>3, <1>4, <1>5, <1>6, <1>7, <1>9 DEF Next, Step, NullReply, Crash

\* What the client makes of the text of a message (str2fieldsMessage of
\* join_Fields) is the message hGetAll built, but for ":" in its values.
THEOREM MessagesArrive == Spec => []FieldsArrive
<1>1. Init => FilledInv
  BY IdleType, EmptySeq DEF Init, FilledInv
<1>2. Spec => []FilledInv
  BY <1>1, TypeInvHolds, NextFilledInv, PTL DEF Spec
<1>3. TypeInv /\ FilledInv => FieldsArrive
  <2>. SUFFICES ASSUME TypeInv, FilledInv, NEW h \in Handlers, NEW m \in ToSet(call[h].values),
                       \A f \in ToSet(m) : Plain(f)
                PROVE  str2fieldsMessage(join_Fields(m))
                         = [i \in DOMAIN m |-> <<m[i][1], Without(m[i][2], KV_SEP)>>]
    BY DEF FieldsArrive, Plain
  <2>. DEFINE pieces == UNION {ToSet(t) : t \in Texts}
              P == pieces \cup {FIELD_SEP, KV_SEP}
  <2>1. m \in Seq(Field) /\ m # <<>>
    <3>1. call[h].values \in Seq(Seq(Field))
      BY DEF TypeInv, TypeOK
    <3>2. PICK i \in DOMAIN call[h].values : m = call[h].values[i]
      BY DEF ToSet
    <3>3. i \in 1..Len(call[h].values)
      BY <3>1, <3>2
    <3>. QED
      BY <3>1, <3>2, <3>3, ElementOfSeq DEF FilledInv
  <2>2. ASSUME NEW t \in Texts PROVE t \in Seq(P)
    <3>1. t \in Seq(ToSet(t)) /\ ToSet(t) \subseteq P
      BY TextAssumption
    <3>2. \A i \in 1..Len(t) : t[i] \in P
      BY <3>1, ElementOfSeq
    <3>. HIDE DEF P
    <3>. QED
      BY <3>1, <3>2
  <2>3. {FIELD_SEP, KV_SEP} \subseteq P
    <3>. HIDE DEF pieces
    <3>. QED
      OBVIOUS
  <2>. HIDE DEF P
  <2>4. Field \subseteq Seq(P) \X Seq(P)
    BY <2>2 DEF Field
  <2>5. m \in Seq(Seq(P) \X Seq(P))
    <3>. DEFINE Q == Seq(P) \X Seq(P)
    <3>1. \A i \in 1..Len(m) : m[i] \in Q
      BY <2>1, <2>4, ElementOfSeq
    <3>. HIDE DEF Q
    <3>2. m \in Seq(Q)
      BY <2>1, <3>1
    <3>. QED
      BY <3>2 DEF Q
  <2>6. \A i \in 1..Len(m) : Plain(m[i])
    <3>1. DOMAIN m = 1..Len(m)
      BY <2>1
    <3>. QED
      BY <3>1 DEF ToSet
  <2>. QED
    BY <2>1, <2>3, <2>5, <2>6, RoundTrip
<1>. QED
  BY <1>2, <1>3, TypeInvHolds, PTL
=============================================================================
