------------------------------ MODULE OTCipher ------------------------------
(***************************************************************************)
(* One k-out-of-n transfer, byte by byte: KOutOfNForOTReceiver::encrypt,   *)
(* KOutOfNForOTSender::decrypt and BaseOTReceiver::get_messages, each loop *)
(* one iteration per step.                                                 *)
(***************************************************************************)
EXTENDS BitOp

CONSTANTS
  Messages,     \* mbs: the sender's messages, in the order of the keys
  Randoms,      \* what gen_random_str may return as a random message
  Keys,         \* what gen_random_str may return as the receiver's key y
  Ciphertexts,  \* what rsa_pub_encrypt may return for y
  Junk,         \* random text: what stands for y when a ciphertext does not
                \* decrypt, and for a message that was not chosen
  ReqLimitNum   \* "reqLimitNum"

n == Len(Messages)

ASSUME CipherAssumption ==
  /\ Messages \in Seq(Str)
  /\ Randoms \subseteq Str /\ Keys \subseteq Str /\ Ciphertexts \subseteq Str
  /\ Junk \in Str /\ ReqLimitNum \in Nat

\* Random messages are key_size / 8 - 11 characters below 128, a ciphertext is
\* one block of key_size / 8 bytes, and a message holds no zero byte: it was a
\* C string.  Only its last byte matters.
ASSUME SizesAssumption ==
  /\ \A r, s \in Randoms : Len(r) = Len(s)
  /\ \A r \in Randoms, e \in Ciphertexts : Len(r) < Len(e)
  /\ \E top \in Bits : \A r \in Randoms : \A j \in DOMAIN r : top \notin r[j]
  /\ \A j \in DOMAIN Messages :
       Messages[j] # <<>> => Messages[j][Len(Messages[j])] # {}

VARIABLES
  secureMode,
  choices,    \* the receiver's choices, in ascending order
  y,          \* ybs[0], the key the chosen messages come back under
  encrypted,  \* rsa_pub_encrypt(y)
  rs,         \* rbs, the random messages of the sender
  ops,        \* encrypted_y_ops
  op1, op2,   \* the two ops the sender folds them into
  ys,         \* decrypted_y_ops
  out,        \* decrypted_ms, the messages the receiver takes out
  pc, i       \* where the transfer stands, and the index of its loop

inputs == <<secureMode, choices, y, encrypted, rs>>
vars   == <<inputs, ops, op1, op2, ys, out, pc, i>>

Chosen == {choices[j] : j \in DOMAIN choices}

AscendingChoices ==
  {s \in UNION {[1..k -> 1..n] : k \in 0..n} : \A a, b \in DOMAIN s : a < b => s[a] < s[b]}

TypeOK ==
  /\ secureMode \in BOOLEAN /\ choices \in AscendingChoices
  /\ y \in Keys /\ encrypted \in Ciphertexts /\ rs \in [1..n -> Randoms]
  /\ ops \in Seq(Str) /\ op1 \in Str /\ op2 \in Str
  /\ ys \in Seq(Str) /\ out \in Seq(Str)
  /\ pc \in {"encrypt", "check", "fold", "decrypt", "takeChosen", "takeAll", "done", "OTError"}
  /\ i \in 1..(n + 1)

\* The non-secure mode reads the first choice of what may be no choices.
Init ==
  /\ secureMode \in BOOLEAN
  /\ choices \in AscendingChoices
  /\ ~secureMode => choices # <<>>
  /\ y \in Keys /\ encrypted \in Ciphertexts /\ rs \in [1..n -> Randoms]
  /\ ops = <<>> /\ op1 = <<>> /\ op2 = <<>> /\ ys = <<>> /\ out = <<>>
  /\ pc = "encrypt" /\ i = 1

\* rsa_pri_decrypt of one block: y back from the very ciphertext of y, random
\* text from anything else, and nothing from nothing.
rsa_pri_decrypt(x) ==
  IF x = encrypted THEN y ELSE IF x = <<>> THEN <<>> ELSE Junk

-----------------------------------------------------------------------------
(* The receiver encrypts *)

EncryptChoice ==
  /\ pc = "encrypt" /\ secureMode
  /\ i <= Len(choices)
  /\ ops' = ops \o << str_or(encrypted, rs[choices[i]]),
                      str_not_or_not(encrypted, rs[choices[i]]) >>
  /\ i' = i + 1
  /\ UNCHANGED <<inputs, op1, op2, ys, out, pc>>

EncryptEnd ==
  /\ pc = "encrypt" /\ secureMode
  /\ i > Len(choices)
  /\ pc' = "check"
  /\ UNCHANGED <<inputs, ops, op1, op2, ys, out, i>>

\* The two ops of the non-secure mode.
CoAndOp    == str_or(encrypted, str_co_and(rs, choices, FALSE))
CoAndNotOp == str_bit_bin_op(str_not(encrypted), str_co_and(rs, choices, TRUE),
                             c_or, TRUE, TRUE, char_255, char_self)

EncryptAll ==
  /\ pc = "encrypt" /\ ~secureMode
  /\ ops' = <<CoAndOp, CoAndNotOp>>  \* and, third, the number of choices
  /\ pc' = "check"
  /\ UNCHANGED <<inputs, op1, op2, ys, out, i>>

-----------------------------------------------------------------------------
(* The sender decrypts *)

\* The guard of decrypt but for its atoi(ops[2]), which in secure mode reads
\* what is no number and may reject as well.
TooFewOrMany == \/ Len(ops) < 2
                \/ secureMode /\ Len(ops) > 2 * ReqLimitNum
                \/ ~secureMode /\ Len(choices) > ReqLimitNum

Reject ==
  /\ pc = "check"
  /\ TooFewOrMany \/ secureMode
  /\ pc' = "OTError"
  /\ UNCHANGED <<inputs, ops, op1, op2, ys, out, i>>

\* Variant: the next loop counts from zero.
AdmitFromZero ==
  /\ pc = "check"
  /\ ~TooFewOrMany
  /\ op1' = ops[1] /\ op2' = ops[2]
  /\ pc' = "fold" /\ i' = 0
  /\ UNCHANGED <<inputs, ops, ys, out>>

Admit ==
  /\ pc = "check"
  /\ ~TooFewOrMany
  /\ op1' = ops[1] /\ op2' = ops[2]
  /\ pc' = "fold" /\ i' = 1
  /\ UNCHANGED <<inputs, ops, ys, out>>

\* Variant: the fold stops one choice early.
FoldOpsShort ==
  /\ pc = "fold"
  /\ IF secureMode /\ i + 1 < Len(ops) \div 2
       THEN /\ op1' = str_and(op1, ops[2 * i + 1])
            /\ op2' = str_and(op2, ops[2 * i + 2])
            /\ i' = i + 1
            /\ UNCHANGED pc
       ELSE pc' = "decrypt" /\ i' = 1 /\ UNCHANGED <<op1, op2>>
  /\ UNCHANGED <<inputs, ops, ys, out>>

FoldOps ==
  /\ pc = "fold"
  /\ IF secureMode /\ i < Len(ops) \div 2
       THEN /\ op1' = str_and(op1, ops[2 * i + 1])
            /\ op2' = str_and(op2, ops[2 * i + 2])
            /\ i' = i + 1
            /\ UNCHANGED pc
       ELSE pc' = "decrypt" /\ i' = 1 /\ UNCHANGED <<op1, op2>>
  /\ UNCHANGED <<inputs, ops, ys, out>>

\* What the sender takes for the receiver's ciphertext under its j-th message.
encrypted_y(j) ==
  LET t1 == str_and_not(op1, rs[j])
      t2 == str_and(op2, rs[j])
  IN str_xor(str_or(t1, t2), rs[j])

DecryptMessage ==
  /\ pc = "decrypt"
  /\ IF i <= n
       THEN /\ ys' = Append(ys, str_xor(rsa_pri_decrypt(encrypted_y(i)), Messages[i]))
            /\ i' = i + 1
            /\ UNCHANGED pc
       ELSE pc' \in {"takeChosen", "takeAll"} /\ i' = 1 /\ UNCHANGED ys
  /\ UNCHANGED <<inputs, ops, op1, op2, out>>

-----------------------------------------------------------------------------
(* The receiver takes the messages *)

\* /getMessagesOfChosen: the chosen messages only.
TakeChosen ==
  /\ pc = "takeChosen"
  /\ IF i <= Len(choices)
       THEN /\ out' = Append(out, str_xor(ys[choices[i]], y))
            /\ i' = i + 1
            /\ UNCHANGED pc
       ELSE pc' = "done" /\ UNCHANGED <<out, i>>
  /\ UNCHANGED <<inputs, ops, op1, op2, ys>>

\* /getMessages: as many as there are keys, random text where none is chosen.
TakeAll ==
  /\ pc = "takeAll"
  /\ IF i <= Len(ys)
       THEN /\ out' = Append(out, IF i \in Chosen THEN str_xor(ys[i], y) ELSE Junk)
            /\ i' = i + 1
            /\ UNCHANGED pc
       ELSE pc' = "done" /\ UNCHANGED <<out, i>>
  /\ UNCHANGED <<inputs, ops, op1, op2, ys>>

Next ==
  \/ EncryptChoice \/ EncryptEnd \/ EncryptAll
  \/ Reject \/ Admit \/ FoldOps \/ DecryptMessage
  \/ TakeChosen \/ TakeAll

Spec == Init /\ [][Next]_vars

-----------------------------------------------------------------------------
(* Properties *)

\* Every chosen message arrives, at its own index or in the order of the
\* choices (OTClientService.hpp:117, "4. otReceiver obtain the chosen message").
ChosenArrive ==
  pc = "done" =>
    \/ Len(out) = n /\ \A c \in Chosen : out[c] = Messages[c]
    \/ out = [j \in DOMAIN choices |-> Messages[choices[j]]]

\* str_and drops the last byte of the ciphertext when it is zero and two or
\* more ops are folded.
TailSurvives == \/ encrypted[Len(encrypted)] # {}
                \/ ~secureMode
                \/ Len(choices) < 2

\* Every chosen message arrives, in either mode and whatever its length
\* against the key's, as long as the ciphertext keeps its last byte.
ChosenArriveIfTailSurvives == TailSurvives => ChosenArrive

\* The per-choice ops of the secure mode fold into the ops that the other
\* mode sends at once: nothing is lost by sending them one by one.
ModesAgree ==
  LET width == Len(rs[1])
  IN pc = "decrypt" /\ secureMode /\ TailSurvives =>
       /\ op1 = CoAndOp
       /\ SubSeq(op2, 1, width) = SubSeq(CoAndNotOp, 1, width)
=============================================================================
