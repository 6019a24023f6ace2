------------------------------ MODULE RedisCli ------------------------------
(***************************************************************************)
(* common/cli/RedisCli.hpp as OTServerService::setRandomMsgs uses it: the  *)
(* handler threads of the server call hGetAll on one RedisCli, and so      *)
(* share its redis context and its reply member; other clients write to    *)
(* redis meanwhile, redis may go away and the server may crash.            *)
(*                                                                         *)
(* The context answers commands in the order they were sent.  Two handlers *)
(* inside redisCommand at once race on its buffers without a lock: a       *)
(* command may be sent, be lost or be sent twice, an answer goes to        *)
(* whoever reads next, a reply that another handler freed may still be     *)
(* read as it was or as garbage, and the server may crash.                 *)
(***************************************************************************)
EXTENDS FieldsMessage, Naturals, FiniteSets

CONSTANTS
  Handlers,    \* handler threads of the server
  Keys,        \* the keys of the data, texts
  Types,       \* the types redis may hold under each key, [Keys -> SUBSET RedisTypes]
  Strings,     \* the texts redis may hold under a key
  Hashes,      \* the field sequences redis may hold under a key
  Asked,       \* the keys each handler asks for, [Handlers -> sequences of keys]
  ErrorText,   \* the text of redis' WRONGTYPE error
  Garbage,     \* a text read from freed memory
  NoText,      \* a null str
  MaxReplies,  \* bound: a command is sent twice only below this many replies
  MaxWrites    \* bound: the other clients write to redis this often

VARIABLES
  db,       \* what redis holds under each key
  link,     \* redis is reachable on the server's connection
  replies,  \* answers on their way to the server
  reply,    \* pRedisReply: the reply it points to
  freed,    \* whether that reply was freed
  call,     \* where each handler is in hGetAll
  writes,   \* how often the other clients wrote
  seen,     \* ghost: what the handler's key held since it came to it, until a race
  raced,    \* ghost: two handlers were inside redisCommand at once
  leaked    \* ghost: a reply was overwritten that was not freed

vars == <<db, link, replies, reply, freed, call, writes, seen, raced, leaked>>

Texts == Keys \cup Strings \cup {<<"key">>, <<"value">>, <<>>, ErrorText, Garbage}
         \cup UNION {ToSet(f) : f \in UNION {ToSet(fields) : fields \in Hashes}}

RedisTypes == {"hash", "string", "list", "none"}
ASSUME TextAssumption == \A t \in Texts : t \in Seq(ToSet(t))
ASSUME TypesAssumption == Types \in [Keys -> SUBSET RedisTypes]

\* Redis keeps no hash without fields, and a handler asks for some key.
ASSUME DataAssumption ==
  /\ Hashes \subseteq Seq(Texts \X Texts) \ {<<>>}
  /\ Asked \in [Handlers -> Seq(Keys) \ {<<>>}]
  /\ NoText \notin Texts
  /\ MaxWrites \in Nat

Entries == [type : {"hash"}, fields : Hashes] \cup [type : {"string"}, text : Strings]
           \cup [type : {"list", "none"}]

Reply == [str : Texts \cup {NoText}, fields : Hashes \cup {<<>>}]
Nil   == [str |-> NoText, fields |-> <<>>]
Wrong == [str |-> ErrorText, fields |-> <<>>]

\* How redis answers a command on an entry.
Answer(cmd, entry) ==
  CASE entry.type = "none"                      -> Nil
    [] cmd = "HGETALL" /\ entry.type = "hash"   -> [Nil EXCEPT !.fields = entry.fields]
    [] cmd = "GET"     /\ entry.type = "string" -> [Nil EXCEPT !.str = entry.text]
    [] OTHER                                    -> Wrong

\* Handlers between a redisCommand and the free of its reply.
Busy == {h \in Handlers : call[h].pc \in {"recv", "read", "free"}}

Idle   == [pc |-> "idle", cmd |-> "HGETALL", keys |-> <<>>, fs |-> <<>>, values |-> <<>>]
Key(c) == c.keys[Len(c.values) + 1]

Init ==
  /\ db \in [Keys -> Entries] /\ \A k \in Keys : db[k].type \in Types[k]
  /\ link = TRUE /\ replies = <<>>
  /\ reply = Nil /\ freed = TRUE
  /\ call = [h \in Handlers |-> Idle] /\ seen = [h \in Handlers |-> {}]
  /\ writes = 0 /\ raced = FALSE /\ leaked = FALSE

-----------------------------------------------------------------------------
(* hGetAll *)

Start(h) ==
  /\ call[h].pc = "idle"
  /\ call' = [call EXCEPT ![h] = [Idle EXCEPT !.pc = "send", !.keys = Asked[h]]]
  /\ seen' = [seen EXCEPT ![h] = IF raced THEN {} ELSE {db[Asked[h][1]]}]
  /\ UNCHANGED <<db, writes, link, replies, reply, freed, raced, leaked>>

\* Variant: the command for all the keys, cmd, is sent as well.
SendTwice(h) ==
  LET answer == Answer(call[h].cmd, db[Key(call[h])])
  IN /\ call[h].pc = "send" /\ link
     /\ Len(replies) + 2 <= MaxReplies
     /\ replies' = replies \o <<answer, answer>>
     /\ call' = [call EXCEPT ![h].pc = "recv"]
     /\ UNCHANGED <<db, writes, link, reply, freed, seen, raced, leaked>>

\* redisCommand, up to the write of the command.
Send(h) ==
  LET answer == Answer(call[h].cmd, db[Key(call[h])])
      racing == Busy \ {h} # {}
  IN /\ call[h].pc = "send" /\ link
     /\ \/ replies' = Append(replies, answer)
        \/ racing /\ UNCHANGED replies
        \/ racing /\ Len(replies) + 2 <= MaxReplies /\ replies' = replies \o <<answer, answer>>
     /\ call' = [call EXCEPT ![h].pc = "recv"]
     /\ raced' = (raced \/ racing)
     /\ seen' = IF raced' THEN [g \in Handlers |-> {}] ELSE seen
     /\ UNCHANGED <<db, writes, link, reply, freed, leaked>>

\* redisCommand returns the next reply.
Recv(h) ==
  /\ call[h].pc = "recv" /\ replies # <<>>
  /\ reply' = Head(replies) /\ replies' = Tail(replies) /\ freed' = FALSE
  /\ leaked' = (leaked \/ ~freed)
  /\ call' = [call EXCEPT ![h].pc = "read"]
  /\ UNCHANGED <<db, writes, link, seen, raced>>

\* Variant: the str of a reply is not checked for null.
ReadUnchecked(h) ==
  /\ call[h].pc = "read"
  /\ \E r \in {reply} \cup (IF freed THEN {[Nil EXCEPT !.str = Garbage]} ELSE {}) :
       call' = [call EXCEPT ![h].pc = "free",
                  ![h].fs = IF call[h].cmd = "GET" THEN <<<<<<"value">>, r.str>>>> ELSE r.fields]
  /\ UNCHANGED <<db, writes, link, replies, reply, freed, seen, raced, leaked>>

\* The fields of an HGETALL's reply, or the text of a GET's as a field.
Read(h) ==
  /\ call[h].pc = "read"
  /\ \E r \in {reply} \cup (IF freed THEN {[Nil EXCEPT !.str = Garbage]} ELSE {}) :
       LET text == IF r.str # NoText THEN r.str ELSE <<>>
       IN call' = [call EXCEPT ![h].pc = "free",
                     ![h].fs = IF call[h].cmd = "GET" THEN <<<<<<"value">>, text>>>> ELSE r.fields]
  /\ UNCHANGED <<db, writes, link, replies, reply, freed, seen, raced, leaked>>

\* Variant: a key without fields is a message without fields.
GoOnWithoutGet(h) ==
  LET c == call[h]
      values == Append(c.values, <<<<<<"key">>, Key(c)>>>> \o c.fs)
      next == [c EXCEPT !.pc = IF Len(values) = Len(c.keys) THEN "done" ELSE "send",
                        !.fs = <<>>, !.values = values]
  IN /\ call' = [call EXCEPT ![h] = next]
     /\ seen' = [seen EXCEPT ![h] = IF raced \/ next.pc = "done" THEN {} ELSE {db[Key(next)]}]

\* The handler's next step: a GET if there were no fields, else the message
\* is built and the next key is taken up.
GoOn(h) ==
  LET c == call[h]
      values == Append(c.values, <<<<<<"key">>, Key(c)>>>> \o c.fs)
      next == IF c.fs = <<>> THEN [c EXCEPT !.pc = "send", !.cmd = "GET"]
              ELSE [c EXCEPT !.pc = IF Len(values) = Len(c.keys) THEN "done" ELSE "send",
                             !.cmd = "HGETALL", !.fs = <<>>, !.values = values]
  IN /\ call' = [call EXCEPT ![h] = next]
     /\ seen' = [seen EXCEPT ![h] = CASE raced \/ next.pc = "done" -> {}
                                      [] next.cmd = "GET"          -> @
                                      [] OTHER                     -> {db[Key(next)]}]

\* Variant: the reply is freed only if it had fields.
FreeFields(h) ==
  /\ call[h].pc = "free"
  /\ freed' = (freed \/ call[h].fs # <<>>)
  /\ GoOn(h)
  /\ UNCHANGED <<db, writes, link, replies, reply, raced, leaked>>

\* freeReplyObject frees whatever pRedisReply points to by now.
Free(h) ==
  /\ call[h].pc = "free"
  /\ freed' = TRUE
  /\ GoOn(h)
  /\ UNCHANGED <<db, writes, link, replies, reply, raced, leaked>>

Return(h) ==
  /\ call[h].pc = "done"
  /\ call' = [call EXCEPT ![h] = Idle]
  /\ UNCHANGED <<db, writes, link, replies, reply, freed, seen, raced, leaked>>

\* The process dies and its container restarts it.
Restart ==
  /\ link' = TRUE /\ replies' = <<>>
  /\ reply' = Nil /\ freed' = TRUE
  /\ call' = [h \in Handlers |-> Idle] /\ seen' = [h \in Handlers |-> {}]
  /\ raced' = FALSE /\ leaked' = FALSE
  /\ UNCHANGED <<db, writes>>

\* Variant: a null reply is asked for again.
NullReplyAgain(h) ==
  /\ call[h].pc \in {"send", "recv"} /\ ~link
  /\ call' = [call EXCEPT ![h].pc = IF @ = "send" THEN "recv" ELSE "send"]
  /\ UNCHANGED <<db, writes, link, replies, reply, freed, seen, raced, leaked>>

\* Without redis redisCommand returns null, which hGetAll dereferences.
NullReply(h) == call[h].pc \in {"send", "recv"} /\ ~link /\ Restart

-----------------------------------------------------------------------------
(* The environment *)

Write(k) ==
  \E entry \in {e \in Entries : e.type \in Types[k]} \ {db[k]} :
    /\ writes < MaxWrites /\ writes' = writes + 1
    /\ db' = [db EXCEPT ![k] = entry]
    /\ seen' = [h \in Handlers |->
                  IF seen[h] # {} /\ Key(call[h]) = k THEN seen[h] \cup {entry} ELSE seen[h]]
    /\ UNCHANGED <<link, replies, reply, freed, call, raced, leaked>>

LinkLost ==
  /\ link
  /\ link' = FALSE /\ replies' = <<>>
  /\ UNCHANGED <<db, writes, reply, freed, call, seen, raced, leaked>>

Crash == Restart

Step(h) == Send(h) \/ Recv(h) \/ Read(h) \/ Free(h) \/ Return(h) \/ NullReply(h)

Next ==
  \/ \E h \in Handlers : Start(h) \/ Step(h)
  \/ \E k \in Keys : Write(k)
  \/ LinkLost \/ Crash

Spec == Init /\ [][Next]_vars /\ \A h \in Handlers : WF_vars(Step(h))

-----------------------------------------------------------------------------
(* Properties *)

Field == Texts \X Texts

TypeOK ==
  /\ db \in [Keys -> Entries] /\ link \in BOOLEAN
  /\ replies \in Seq(Reply) /\ reply \in Reply /\ freed \in BOOLEAN
  /\ \A h \in Handlers :
       /\ call[h].pc \in {"idle", "send", "recv", "read", "free", "done"}
       /\ call[h].cmd \in {"HGETALL", "GET"}
       /\ call[h].keys \in {Asked[h], <<>>}
       /\ call[h].fs \in Seq(Field) /\ call[h].values \in Seq(Seq(Field))
  /\ seen \in [Handlers -> SUBSET Entries]
  /\ writes \in 0..MaxWrites /\ raced \in BOOLEAN /\ leaked \in BOOLEAN

\* What a message may say of a key that held these entries meanwhile: an
\* error text only of a list, or of a key that became a hash after HGETALL.
Held(fields, entries) ==
  \/ \E e \in entries : e.type = "hash" /\ fields = e.fields
  \/ \E e \in entries : e.type = "string" /\ fields = <<<<<<"value">>, e.text>>>>
  \/ \E e \in entries : e.type = "none" /\ fields = <<<<<<"value">>, <<>>>>>>
  \/ /\ fields = <<<<<<"value">>, ErrorText>>>>
     /\ \/ \E e \in entries : e.type = "list"
        \/ Cardinality(entries) > 1 /\ \E e \in entries : e.type = "hash"

\* Unless handlers raced, the message hGetAll builds for a key is that key's
\* and says what redis held under it at some moment of the two commands.
MessagesAreHeld ==
  [][\A h \in Handlers :
       ~raced /\ Len(call'[h].values) > Len(call[h].values) =>
         LET m == Last(call'[h].values)
         IN m[1] = <<<<"key">>, Key(call[h])>> /\ Held(Tail(m), seen[h])]_vars

\* Unless handlers raced, exactly the handlers that wait have an answer on its
\* way: no answer is left over for the next command of another call.
InStep ==
  ~raced /\ link =>
    Len(replies) = Cardinality({h \in Handlers : call[h].pc = "recv"}) /\ Len(replies) <= 1

\* Unless handlers raced, every reply is freed once it was read, before the
\* member is assigned again.
RepliesFreed == ~raced => ~leaked /\ (freed \/ \E h \in Handlers : call[h].pc \in {"read", "free"})

\* A call ends, with redis or without it, or the server dies: only a handler
\* that raced may wait for an answer that never comes.
CallEnds == \A h \in Handlers : call[h].pc # "idle" ~> call[h].pc = "idle" \/ raced

\* A text without one of its separators.
Without(text, c) ==
  LET kept[i \in 0..Len(text)] ==
        IF i = 0 THEN <<>> ELSE IF text[i] = c THEN kept[i - 1] ELSE Append(kept[i - 1], text[i])
  IN kept[Len(text)]

\* What the client reads from the text of a message is the message, whatever
\* its values, but for ":" in a value, as long as no field holds "," and no
\* name ":".
FieldsArrive ==
  \A h \in Handlers : \A m \in ToSet(call[h].values) :
    (\A f \in ToSet(m) : FIELD_SEP \notin ToSet(f[1] \o f[2]) /\ KV_SEP \notin ToSet(f[1])) =>
      str2fieldsMessage(join_Fields(m)) = [i \in DOMAIN m |-> <<m[i][1], Without(m[i][2], KV_SEP)>>]
=============================================================================
