--------------------------- MODULE OTCipher_proofs ---------------------------
(***************************************************************************)
(* Proofs about KeyStore, for every set of clients and any number of       *)
(* crashes: the key pair is kept, and fits what the clients cached; and    *)
(* about BitOp and OTCipher, which encrypts with that pair, for any number *)
(* of messages and choices and strings of any length: the chosen messages  *)
(* arrive.                                                                 *)
(***************************************************************************)
EXTENDS KeyStore, OTCipher, DataInduction, TLAPS, SequenceTheorems

-----------------------------------------------------------------------------
(* The key pair *)

\* The server is making a pair.
Writing == {"openPub", "closePub", "openPri", "closePri"}

\* The private key's file is the last that is made.  A call that writes does so
\* while it is absent, unless the files failed to open; then what they hold is
\* older than the pair that replaces it.
FileInv ==
  /\ pri # Absent => pub # Absent
  /\ server \in {"openPub", "closePub", "openPri"} /\ ~unread => pri = Absent
  /\ server \in {"openPub", "closePub", "openPri"} => pri < pair
  /\ server \in {"openPri", "closePri"} => pub # Absent
  /\ server = "openPri" => pub \in {Broken, pair}
  /\ server = "closePub" => pub = Broken
  /\ server = "closePri" => pri = Broken
  /\ pri <= pair
  /\ unread /\ server \in Writing => cut

\* Without a cut the private key's file is whole or absent, whatever its
\* reader, and all that is served or cached is the pair on disk.
PairInv ==
  ~cut =>
    /\ pri # Absent /\ server # "closePri" => pri \in Pairs /\ pub = pri
    /\ server \in Writing => call = 1 /\ pair \in Pairs /\ served = [pub |-> pair, pri |-> pair]
    /\ server \in {"openPri", "closePri"} => pub = pair
    /\ server # "down" /\ call = 2 => pri \in Pairs /\ served = [pub |-> pri, pri |-> pri]
    /\ server = "serving" => call = 2
    /\ \A c \in Clients : cached[c] # Absent => pri \in Pairs /\ cached[c] = pri

KeyInv == KeyTypeOK /\ FileInv /\ PairInv

\* The first pair is still to be made.
LEMMA InitKeyInv == KeyInit => KeyInv
<1> SUFFICES ASSUME KeyInit PROVE KeyInv
  OBVIOUS
<1> USE KeyAssumption DEF KeyInit, KeyBytes, Pairs, Broken, Absent
<1>1. KeyTypeOK
  <2>1. served \in [pub: KeyBytes, pri: KeyBytes] /\ cached \in [Clients -> KeyBytes \cup {Absent}]
    BY DEF NoKeys
  <2>2. unread \in BOOLEAN /\ cut \in BOOLEAN
    OBVIOUS
  <2>3. QED
    BY <2>1, <2>2 DEF KeyTypeOK
<1>2. FileInv
  BY DEF FileInv, Writing
<1>3. PairInv
  BY DEF PairInv, Writing
<1>4. QED
  BY <1>1, <1>2, <1>3 DEF KeyInv

\* Every step keeps the types.
LEMMA NextKeyTypeOK == KeyTypeOK /\ [KeyNext]_keyVars => KeyTypeOK'
<1> SUFFICES ASSUME KeyTypeOK, [KeyNext]_keyVars PROVE KeyTypeOK'
  OBVIOUS
<1> USE KeyAssumption DEF KeyTypeOK, KeyBytes, Pairs, Broken, Absent
<1>1. unread' \in BOOLEAN /\ cut' \in BOOLEAN
  <2>1. CASE Generate
    BY <2>1 DEF Generate, BothExist
  <2>2. CASE ReadFiles \/ ReadFails \/ GenerateFails \/ OpenFails
    BY <2>2 DEF ReadFiles, ReadFails, GenerateFails, OpenFails
  <2>3. CASE OpenPub \/ ClosePub \/ OpenPri \/ ClosePri
    BY <2>3 DEF OpenPub, ClosePub, OpenPri, ClosePri
  <2>4. CASE ServerCrash \/ ServerRestart
    BY <2>4 DEF ServerCrash, ServerRestart
  <2>5. ASSUME NEW c \in Clients, CacheKey(c) \/ ClientCrash(c)
        PROVE  unread' \in BOOLEAN /\ cut' \in BOOLEAN
    BY <2>5 DEF CacheKey, ClientCrash
  <2>6. CASE UNCHANGED keyVars
    BY <2>6 DEF keyVars
  <2>q. QED
    BY <2>1, <2>2, <2>3, <2>4, <2>5, <2>6 DEF KeyNext
<1>2. CASE ReadFiles \/ ReadFails
  BY <1>1, <1>2 DEF ReadFiles, ReadFails, BothExist, Hold, Return
<1>3. CASE Generate
  BY <1>1, <1>3 DEF Generate, MakePair, Hold
<1>4. CASE GenerateFails \/ OpenFails \/ ClosePri
  BY <1>1, <1>4 DEF GenerateFails, OpenFails, ClosePri, Return
<1>5. CASE OpenPub \/ ClosePub \/ OpenPri
  BY <1>1, <1>5 DEF OpenPub, ClosePub, OpenPri
<1>6. CASE ServerCrash \/ ServerRestart
  BY <1>1, <1>6 DEF ServerCrash, ServerRestart, NoKeys
<1>7. ASSUME NEW c \in Clients, CacheKey(c) \/ ClientCrash(c) PROVE KeyTypeOK'
  BY <1>1, <1>7 DEF CacheKey, ClientCrash
<1>8. CASE UNCHANGED keyVars
  BY <1>8 DEF keyVars
<1>q. QED
  BY <1>2, <1>3, <1>4, <1>5, <1>6, <1>7, <1>8 DEF KeyNext

\* Every step keeps the order in which the files are made.
LEMMA NextFileInv == KeyInv /\ [KeyNext]_keyVars => FileInv'
<1> SUFFICES ASSUME KeyTypeOK, FileInv, [KeyNext]_keyVars PROVE FileInv'
  BY DEF KeyInv
<1> USE DEF KeyTypeOK, FileInv, Writing, KeyBytes, Pairs, Broken, Absent
<1>1. CASE ReadFiles \/ ReadFails
  BY <1>1 DEF ReadFiles, ReadFails, BothExist, Return
<1>2. CASE Generate
  <2>1. unread' => cut'
    BY <1>2 DEF Generate
  <2>2. ~unread' => pub = Absent \/ pri = Absent
    BY <1>2 DEF Generate, BothExist
  <2>3. server' = "openPub" /\ pair' = pair + 1 /\ pub' = pub /\ pri' = pri
    BY <1>2 DEF Generate, MakePair
  <2>4. QED
    BY <2>1, <2>2, <2>3
<1>3. CASE GenerateFails \/ OpenFails
  BY <1>3 DEF GenerateFails, OpenFails, Return
<1>4. CASE OpenPub \/ ClosePub \/ OpenPri
  BY <1>4 DEF OpenPub, ClosePub, OpenPri
<1>5. CASE ClosePri
  BY <1>5 DEF ClosePri, Return
<1>6. CASE ServerCrash \/ ServerRestart
  BY <1>6 DEF ServerCrash, ServerRestart
<1>7. ASSUME NEW c \in Clients, CacheKey(c) \/ ClientCrash(c) PROVE FileInv'
  BY <1>7 DEF CacheKey, ClientCrash
<1>8. CASE UNCHANGED keyVars
  BY <1>8 DEF keyVars
<1>q. QED
  BY <1>1, <1>2, <1>3, <1>4, <1>5, <1>6, <1>7, <1>8 DEF KeyNext

\* Every step keeps what is served and cached equal to the pair on disk.
LEMMA NextPairInv == KeyInv /\ [KeyNext]_keyVars => PairInv'
<1> SUFFICES ASSUME KeyTypeOK, FileInv, PairInv, [KeyNext]_keyVars PROVE PairInv'
  BY DEF KeyInv
<1> USE DEF KeyTypeOK, FileInv, PairInv, Writing, KeyBytes, Pairs, Broken, Absent
<1>1. CASE ReadFiles \/ ReadFails
  BY <1>1 DEF ReadFiles, ReadFails, BothExist, Hold, Return
<1>2. CASE Generate
  <2>1. CASE cut \/ BothExist
    <3>1. cut'
      BY <1>2, <2>1 DEF Generate
    <3>2. QED
      BY <3>1
  <2>2. CASE ~cut /\ ~BothExist
    <3>1. pri = Absent /\ server = "open" /\ call = 1
      BY <1>2, <2>2 DEF Generate, BothExist
    <3>2. /\ server' = "openPub" /\ pair' = pair + 1 /\ served' = [pub |-> pair', pri |-> pair']
          /\ call' = call /\ pub' = pub /\ pri' = pri /\ cached' = cached
      BY <1>2, <3>1 DEF Generate, MakePair, Hold
    <3>3. QED
      BY <2>2, <3>1, <3>2
  <2>3. QED
    BY <2>1, <2>2
<1>3. CASE GenerateFails \/ OpenFails
  <2>1. CASE cut' = TRUE
    BY <2>1
  <2>2. CASE ~(cut' = TRUE)
    <3>1. /\ server' = "down" /\ call' = call /\ cut' = cut /\ pair' = pair /\ pub' = pub
          /\ pri' = pri /\ served' = served /\ cached' = cached
      BY <1>3, <2>2 DEF GenerateFails, OpenFails
    <3>2. server = "open"
      BY <1>3, <2>2 DEF GenerateFails, OpenFails
    <3>3. QED
      BY <3>1, <3>2
  <2>3. QED
    BY <2>1, <2>2
<1>4. CASE OpenPub
  BY <1>4 DEF OpenPub
<1>5. CASE ClosePub
  BY <1>5 DEF ClosePub
<1>6. CASE OpenPri
  BY <1>6 DEF OpenPri
<1>7. CASE ClosePri
  BY <1>7 DEF ClosePri, Return
<1>8. CASE ServerCrash
  BY <1>8 DEF ServerCrash
<1>9. CASE ServerRestart
  BY <1>9 DEF ServerRestart
<1>10. ASSUME NEW c \in Clients, CacheKey(c) PROVE PairInv'
  BY <1>10 DEF CacheKey
<1>11. ASSUME NEW c \in Clients, ClientCrash(c) PROVE PairInv'
  BY <1>11 DEF ClientCrash
<1>12. CASE UNCHANGED keyVars
  BY <1>12 DEF keyVars
<1>q. QED
  BY <1>1, <1>2, <1>3, <1>4, <1>5, <1>6, <1>7, <1>8, <1>9, <1>10, <1>11, <1>12 DEF KeyNext

\* The inductive invariant holds in every reachable state.
LEMMA KeyInvariant == KeySpec => []KeyInv
<1>1. KeyInv /\ [KeyNext]_keyVars => KeyInv'
  BY NextKeyTypeOK, NextFileInv, NextPairInv DEF KeyInv
<1>2. QED
  BY InitKeyInv, <1>1, PTL DEF KeySpec

\* Every reachable state of the key store is well typed: nothing but a key or
\* broken bytes is ever served, whatever is found on disk.
THEOREM KeyTypes == KeySpec => []KeyTypeOK
  BY KeyInvariant, PTL DEF KeyInv

\* A whole pair on disk is only written by a call of gen_rsa_keypair that failed
\* to open its files for reading, however many starts, crashes and failures of
\* any file come before and after.
THEOREM PairStaysOnDisk == KeySpec => PairIsKept
<1>. DEFINE Kept == pub' = pub /\ pri' = pri
            Replaced == unread /\ server = "openPub"
<1>1. KeyInv /\ [KeyNext]_keyVars => [(pub \in Pairs /\ pri = pub) => (Kept \/ Replaced)]_keyVars
  <2> SUFFICES ASSUME KeyTypeOK, FileInv, [KeyNext]_keyVars, pub \in Pairs, pri = pub
               PROVE  Kept \/ Replaced
    BY DEF KeyInv
  <2> USE DEF KeyTypeOK, FileInv, Pairs, Broken, Absent
  <2>1. CASE ReadFiles \/ ReadFails \/ Generate \/ GenerateFails \/ OpenFails
    BY <2>1 DEF ReadFiles, ReadFails, Generate, MakePair, GenerateFails, OpenFails
  <2>2. CASE OpenPub
    \* The private key's file is there: the call failed to open it.
    BY <2>2 DEF OpenPub
  <2>3. CASE ClosePub \/ OpenPri \/ ClosePri
    \* One of the two files is empty or of the pair before the last.
    BY <2>3 DEF ClosePub, OpenPri, ClosePri
  <2>4. CASE ServerCrash \/ ServerRestart
    BY <2>4 DEF ServerCrash, ServerRestart
  <2>5. ASSUME NEW c \in Clients, CacheKey(c) \/ ClientCrash(c) PROVE Kept
    BY <2>5 DEF CacheKey, ClientCrash
  <2>6. CASE UNCHANGED keyVars
    BY <2>6 DEF keyVars
  <2>q. QED
    BY <2>1, <2>2, <2>3, <2>4, <2>5, <2>6 DEF KeyNext
<1>2. QED
  BY KeyInvariant, <1>1, PTL DEF KeySpec, PairIsKept

\* What the clients encrypt with is the key the server decrypts with, for any
\* number of clients and crashes, unless a file or OpenSSL failed or the server
\* died with the private key's file open.
THEOREM ClientsAlwaysFit == KeySpec => []ClientsFit
<1>1. KeyInv => ClientsFit
  BY DEF KeyInv, KeyTypeOK, PairInv, ClientsFit, Pairs, Absent
<1>2. QED
  BY KeyInvariant, <1>1, PTL

-----------------------------------------------------------------------------
(* Byte strings *)

\* The strings of the same length with the same bytes are one.
LEMMA SameString ==
  ASSUME NEW s \in Str, NEW t \in Str, Len(s) = Len(t), \A x \in 1..Len(s) : s[x] = t[x]
  PROVE  s = t
BY SeqEqual DEF Str

\* A string given byte by byte.
LEMMA GivenBytes ==
  ASSUME NEW m \in Nat, NEW s, s = [x \in 1..m |-> s[x]], \A x \in 1..m : s[x] \in Byte
  PROVE  s \in Str /\ Len(s) = m
<1>1. s \in [1..m -> Byte]
  OBVIOUS
<1>. QED
  BY <1>1 DEF Str

\* What is left of a string without its trailing zeros.
LEMMA DropTrailingZerosIs ==
  ASSUME NEW s \in Str, NEW d, d = DropTrailingZeros(s)
  PROVE  /\ d \in Str /\ Len(d) \in 0..Len(s)
         /\ \A x \in 1..Len(d) : d[x] = s[x]
         /\ \A x \in (Len(d) + 1)..Len(s) : s[x] = {}
         /\ Len(d) > 0 => s[Len(d)] # {}
<1>. DEFINE T == {0} \cup {x \in DOMAIN s : s[x] # {}}
            U == {x \in Nat : \A z \in T : z <= x}
            top == Max(T)
<1>1. s \in Seq(Byte) /\ Len(s) \in Nat /\ DOMAIN s = 1..Len(s) /\ T \subseteq 0..Len(s)
  BY DEF Str
<1>2. \E x \in T : \A z \in T : z <= x
  <2>1. Len(s) \in U
    BY <1>1
  <2>2. PICK x \in U : \A z \in U : x <= z
    BY <2>1, LeastNat
  <2>3. CASE x = 0
    BY <2>2, <2>3
  <2>4. CASE x # 0
    <3>1. x - 1 \in Nat /\ x - 1 \notin U
      BY <2>2, <2>4
    <3>2. PICK z \in T : z > x - 1
      BY <1>1, <3>1
    <3>3. z \in Nat /\ z <= x
      BY <1>1, <2>2, <3>2
    <3>4. z = x
      BY <3>1, <3>2, <3>3
    <3>5. \A v \in T : v <= x
      BY <2>2
    <3>. QED
      BY <3>4, <3>5
  <2>. QED
    BY <2>3, <2>4
<1>3. top \in T /\ \A z \in T : z <= top
  BY <1>2 DEF Max
<1>. DEFINE e == SubSeq(s, 1, top)
<1>. HIDE DEF top
<1>4. top \in 0..Len(s) /\ top \in Nat
  BY <1>1, <1>3
<1>5. e \in Seq(Byte) /\ Len(e) = top /\ \A x \in 1..top : e[x] = s[x]
  <2>1. \A x \in 1..top : s[x] \in Byte
    BY <1>1, <1>4, ElementOfSeq
  <2>2. /\ e \in Seq(Byte) /\ Len(e) = IF 1 <= top THEN top - 1 + 1 ELSE 0
        /\ \A x \in 1..(top - 1 + 1) : e[x] = s[1 + x - 1]
    BY <1>4, <2>1, SubSeqProperties
  <2>. QED
    BY <1>4, <2>2
<1>6. \A x \in (top + 1)..Len(s) : s[x] = {}
  BY <1>1, <1>3, <1>4
<1>7. top > 0 => s[top] # {}
  BY <1>3
<1>. QED
  <2>1. d = e
    BY DEF DropTrailingZeros, top
  <2>. QED
    BY <1>4, <1>5, <1>6, <1>7, <2>1 DEF Str

\* The operations on bytes.
Combiners == [Byte \X Byte -> Byte]
Fillers   == [Byte -> Byte]

LEMMA ByteOps ==
  /\ c_and \in Combiners /\ \A p, q \in Byte : c_and[<<p, q>>] = p \cap q
  /\ c_or \in Combiners /\ \A p, q \in Byte : c_or[<<p, q>>] = p \cup q
  /\ c_xor \in Combiners /\ \A p, q \in Byte : c_xor[<<p, q>>] = (p \ q) \cup (q \ p)
  /\ c_and_not \in Combiners /\ \A p, q \in Byte : c_and_not[<<p, q>>] = p \ q
  /\ c_not_or_not \in Combiners /\ \A p, q \in Byte : c_not_or_not[<<p, q>>] = (Bits \ p) \cup (Bits \ q)
  /\ char_self \in Fillers /\ \A p \in Byte : char_self[p] = p
  /\ char_255 \in Fillers /\ \A p \in Byte : char_255[p] = Bits
  /\ char_not \in Fillers /\ \A p \in Byte : char_not[p] = Bits \ p
<1>1. \A p, q \in Byte : /\ p \cap q \in Byte /\ p \cup q \in Byte /\ (p \ q) \cup (q \ p) \in Byte
                         /\ p \ q \in Byte /\ (Bits \ p) \cup (Bits \ q) \in Byte /\ Bits \ p \in Byte
                         /\ Bits \in Byte
  BY DEF Byte
<1>. HIDE DEF Byte
<1>2. c_and \in Combiners /\ \A p, q \in Byte : c_and[<<p, q>>] = p \cap q
  BY <1>1 DEF c_and, Combiners
<1>3. c_or \in Combiners /\ \A p, q \in Byte : c_or[<<p, q>>] = p \cup q
  BY <1>1 DEF c_or, Combiners
<1>4. c_xor \in Combiners /\ \A p, q \in Byte : c_xor[<<p, q>>] = (p \ q) \cup (q \ p)
  BY <1>1 DEF c_xor, Combiners
<1>5. c_and_not \in Combiners /\ \A p, q \in Byte : c_and_not[<<p, q>>] = p \ q
  BY <1>1 DEF c_and_not, Combiners
<1>6. c_not_or_not \in Combiners /\ \A p, q \in Byte : c_not_or_not[<<p, q>>] = (Bits \ p) \cup (Bits \ q)
  BY <1>1 DEF c_not_or_not, Combiners
<1>7. char_self \in Fillers /\ \A p \in Byte : char_self[p] = p
  BY DEF char_self, Fillers
<1>8. char_255 \in Fillers /\ \A p \in Byte : char_255[p] = Bits
  BY <1>1 DEF char_255, Fillers
<1>9. char_not \in Fillers /\ \A p \in Byte : char_not[p] = Bits \ p
  BY <1>1 DEF char_not, Fillers
<1>. QED
  BY <1>2, <1>3, <1>4, <1>5, <1>6, <1>7, <1>8, <1>9

LEMMA StrBytes ==
  ASSUME NEW s \in Str
  PROVE  /\ s \in Seq(Byte) /\ Len(s) \in Nat /\ DOMAIN s = 1..Len(s)
         /\ \A x \in 1..Len(s) : s[x] \in Byte
BY ElementOfSeq DEF Str

-----------------------------------------------------------------------------
(* What the operations of BitOp do to each byte of a string *)

\* The byte of s at x, with nothing but zeros after its end.
At(s, x) == IF x \in 1..Len(s) THEN s[x] ELSE {}

Position == Nat \ {0}

\* The last byte of s is not zero.
EndsInNoZero(s) == Len(s) > 0 => At(s, Len(s)) # {}

LEMMA ByteAt ==
  ASSUME NEW s \in Str, NEW x \in Position
  PROVE  /\ At(s, x) \in Byte
         /\ x <= Len(s) => At(s, x) = s[x]
         /\ ~(x <= Len(s)) => At(s, x) = {}
<1>1. {} \in Byte
  BY DEF Byte
<1>. QED
  BY <1>1, StrBytes DEF At, Position

LEMMA LenIsNat == \A s \in Str : Len(s) \in Nat
BY StrBytes

\* A byte that is not zero is one of the string's own.
LEMMA Within ==
  ASSUME NEW s \in Str, NEW x \in Position, At(s, x) # {}
  PROVE  x <= Len(s)
BY StrBytes DEF At, Position

\* Two strings with the same bytes, neither ending in a zero, are one string.
LEMMA SameBytes ==
  ASSUME NEW s \in Str, NEW t \in Str, \A x \in Position : At(s, x) = At(t, x),
         \/ Len(s) = Len(t)
         \/ EndsInNoZero(s) /\ EndsInNoZero(t)
  PROVE  s = t
<1>1. Len(s) \in Nat /\ Len(t) \in Nat
  BY StrBytes
<1>2. Len(s) <= Len(t)
  <2>1. CASE Len(s) = Len(t)
    BY <1>1, <2>1
  <2>2. CASE Len(s) > 0 /\ EndsInNoZero(s)
    <3>1. Len(s) \in Position /\ At(t, Len(s)) # {}
      BY <1>1, <2>2 DEF EndsInNoZero, Position
    <3>. QED
      BY <3>1, Within
  <2>. QED
    BY <1>1, <2>1, <2>2
<1>3. Len(t) <= Len(s)
  <2>1. CASE Len(s) = Len(t)
    BY <1>1, <2>1
  <2>2. CASE Len(t) > 0 /\ EndsInNoZero(t)
    <3>1. Len(t) \in Position /\ At(s, Len(t)) # {}
      BY <1>1, <2>2 DEF EndsInNoZero, Position
    <3>. QED
      BY <3>1, Within
  <2>. QED
    BY <1>1, <2>1, <2>2
<1>4. ASSUME NEW x \in 1..Len(s) PROVE s[x] = t[x]
  <2>1. x \in Position /\ x \in 1..Len(t)
    BY <1>1, <1>2, <1>3 DEF Position
  <2>. QED
    BY <2>1 DEF At
<1>. QED
  BY <1>1, <1>2, <1>3, <1>4, SameString

\* Every byte of what str_bit_bin_op makes of two strings, and its length.
IsOpOf(r, a, b, f, ra, rb, ta, tb) ==
  /\ r \in Str
  /\ Len(a) > Len(b) => Len(r) = IF ra THEN Len(a) ELSE Len(b)
  /\ Len(a) < Len(b) => Len(r) = IF rb THEN Len(b) ELSE Len(a)
  /\ Len(a) = Len(b) => Len(r) <= Len(a) /\ EndsInNoZero(r)
  /\ \A x \in Position :
       At(r, x) = IF x <= Len(a) /\ x <= Len(b) THEN f[<<At(a, x), At(b, x)>>]
                  ELSE IF x <= Len(a) /\ ra THEN ta[At(a, x)]
                  ELSE IF x <= Len(b) /\ rb THEN tb[At(b, x)]
                  ELSE {}

\* The first string is the longer one.
LEMMA FirstLonger ==
  ASSUME NEW a \in Str, NEW b \in Str, Len(a) > Len(b), NEW f \in Combiners,
         NEW ra \in BOOLEAN, NEW rb \in BOOLEAN, NEW ta \in Fillers, NEW tb \in Fillers
  PROVE  IsOpOf(str_bit_bin_op(a, b, f, ra, rb, ta, tb), a, b, f, ra, rb, ta, tb)
<1>0. PICK r : r = str_bit_bin_op(a, b, f, ra, rb, ta, tb)
  OBVIOUS
<1>. DEFINE w == Len(b)
            common == [x \in 1..w |-> f[<<a[x], b[x]>>]]
            tail == [x \in 1..(Len(a) - w) |-> ta[a[w + x]]]
            rest == IF ra THEN tail ELSE <<>>
<1>1. /\ w \in Nat /\ Len(a) \in Nat /\ \A x \in 1..Len(a) : a[x] \in Byte
      /\ \A x \in 1..w : b[x] \in Byte
  BY StrBytes
<1>2. Min({Len(a), Len(b)}) = w
  <2>1. \E x \in {Len(a), Len(b)} : \A z \in {Len(a), Len(b)} : x <= z
    BY <1>1
  <2>2. /\ Min({Len(a), Len(b)}) \in {Len(a), Len(b)}
        /\ \A z \in {Len(a), Len(b)} : Min({Len(a), Len(b)}) <= z
    BY <2>1 DEF Min
  <2>. QED
    BY <1>1, <2>2
<1>3. common \in Str /\ Len(common) = w
  <2>1. \A x \in 1..w : f[<<a[x], b[x]>>] \in Byte
    <3>1. \A x \in 1..w : a[x] \in Byte /\ b[x] \in Byte
      BY <1>1
    <3>. QED
      BY <3>1 DEF Combiners
  <2>2. common = [x \in 1..w |-> common[x]] /\ \A x \in 1..w : common[x] \in Byte
    BY <2>1
  <2>. HIDE DEF common
  <2>. QED
    BY <1>1, <2>2, GivenBytes
<1>4. tail \in Str /\ Len(tail) = Len(a) - w
  <2>1. \A x \in 1..(Len(a) - w) : w + x \in 1..Len(a)
    BY <1>1
  <2>2. \A x \in 1..(Len(a) - w) : ta[a[w + x]] \in Byte
    BY <1>1, <2>1 DEF Fillers
  <2>3. Len(a) - w \in Nat
    BY <1>1
  <2>. QED
    BY <2>2, <2>3, GivenBytes, SMTT(40)
<1>5. rest \in Str /\ Len(rest) = (IF ra THEN Len(a) - w ELSE 0)
  BY <1>4, EmptySeq DEF Str
<1>6. (IF rb THEN [x \in 1..(Len(b) - w) |-> tb[b[w + x]]] ELSE <<>>) = <<>>
  <2>1. 1..(Len(b) - w) = {}
    BY <1>1
  <2>. QED
    BY <2>1
<1>7. str_bit_bin_op(a, b, f, ra, rb, ta, tb) = (common \o rest) \o <<>>
  <2>1. str_bit_bin_op(a, b, f, ra, rb, ta, tb) =
          (IF Len(a) = Len(b) THEN DropTrailingZeros(common) ELSE common) \o rest
            \o (IF rb THEN [x \in 1..(Len(b) - w) |-> tb[b[w + x]]] ELSE <<>>)
    BY <1>2, Zenon DEF str_bit_bin_op
  <2>2. Len(a) # Len(b)
    BY <1>1
  <2>. HIDE DEF common, rest
  <2>. QED
    BY <1>6, <2>1, <2>2
<1>. HIDE DEF rest, common
<1>8. /\ common \o rest \in Seq(Byte) /\ Len(common \o rest) = w + Len(rest)
      /\ \A x \in 1..(w + Len(rest)) :
           (common \o rest)[x] = IF x <= w THEN common[x] ELSE rest[x - w]
      /\ (common \o rest) \o <<>> = common \o rest
  <2>1. common \in Seq(Byte) /\ rest \in Seq(Byte)
    BY <1>3, <1>5 DEF Str
  <2>2. /\ common \o rest \in Seq(Byte) /\ Len(common \o rest) = Len(common) + Len(rest)
        /\ \A x \in 1..(Len(common) + Len(rest)) :
             (common \o rest)[x] = IF x <= Len(common) THEN common[x] ELSE rest[x - Len(common)]
    BY <2>1, ConcatProperties
  <2>. QED
    BY <1>3, <2>2, ConcatEmptySeq
<1>9. \A x \in 1..w : (common \o rest)[x] = f[<<a[x], b[x]>>]
  BY <1>1, <1>5, <1>8 DEF common
<1>10. ASSUME ra, NEW x \in (w + 1)..Len(a) PROVE (common \o rest)[x] = ta[a[x]]
  <2>1. x - w \in 1..(Len(a) - w) /\ w + (x - w) = x /\ x \in 1..(w + Len(rest)) /\ ~(x <= w)
    BY <1>1, <1>5, <1>10
  <2>2. rest[x - w] = ta[a[x]]
    BY <1>10, <2>1 DEF rest
  <2>. QED
    BY <1>8, <2>1, <2>2
<1>11. /\ r \in Str /\ Len(r) = (IF ra THEN Len(a) ELSE Len(b))
       /\ \A x \in 1..Len(b) : r[x] = f[<<a[x], b[x]>>]
       /\ ra => \A x \in (Len(b) + 1)..Len(a) : r[x] = ta[a[x]]
  <2>1. r \in Str
    BY <1>0, <1>7, <1>8 DEF Str
  <2>2. Len(r) = (IF ra THEN Len(a) ELSE Len(b))
    BY <1>0, <1>1, <1>5, <1>7, <1>8
  <2>. QED
    BY <1>0, <1>7, <1>9, <1>10, <2>1, <2>2
<1>12. IsOpOf(r, a, b, f, ra, rb, ta, tb)
  BY <1>1, <1>11 DEF IsOpOf, At, Position
<1>. QED
  BY <1>0, <1>12

\* The second string is the longer one.
LEMMA FirstShorter ==
  ASSUME NEW a \in Str, NEW b \in Str, Len(a) < Len(b), NEW f \in Combiners,
         NEW ra \in BOOLEAN, NEW rb \in BOOLEAN, NEW ta \in Fillers, NEW tb \in Fillers
  PROVE  IsOpOf(str_bit_bin_op(a, b, f, ra, rb, ta, tb), a, b, f, ra, rb, ta, tb)
<1>0. PICK r : r = str_bit_bin_op(a, b, f, ra, rb, ta, tb)
  OBVIOUS
<1>. DEFINE w == Len(a)
            common == [x \in 1..w |-> f[<<a[x], b[x]>>]]
            tail == [x \in 1..(Len(b) - w) |-> tb[b[w + x]]]
            rest == IF rb THEN tail ELSE <<>>
<1>1. /\ w \in Nat /\ Len(b) \in Nat /\ \A x \in 1..Len(b) : b[x] \in Byte
      /\ \A x \in 1..w : a[x] \in Byte
  BY StrBytes
<1>2. Min({Len(a), Len(b)}) = w
  <2>1. \E x \in {Len(a), Len(b)} : \A z \in {Len(a), Len(b)} : x <= z
    BY <1>1
  <2>2. /\ Min({Len(a), Len(b)}) \in {Len(a), Len(b)}
        /\ \A z \in {Len(a), Len(b)} : Min({Len(a), Len(b)}) <= z
    BY <2>1 DEF Min
  <2>. QED
    BY <1>1, <2>2
<1>3. common \in Str /\ Len(common) = w
  <2>1. \A x \in 1..w : f[<<a[x], b[x]>>] \in Byte
    <3>1. \A x \in 1..w : a[x] \in Byte /\ b[x] \in Byte
      BY <1>1
    <3>. QED
      BY <3>1 DEF Combiners
  <2>2. common = [x \in 1..w |-> common[x]] /\ \A x \in 1..w : common[x] \in Byte
    BY <2>1
  <2>. HIDE DEF common
  <2>. QED
    BY <1>1, <2>2, GivenBytes
<1>4. tail \in Str /\ Len(tail) = Len(b) - w
  <2>1. \A x \in 1..(Len(b) - w) : w + x \in 1..Len(b)
    BY <1>1
  <2>2. \A x \in 1..(Len(b) - w) : tb[b[w + x]] \in Byte
    BY <1>1, <2>1 DEF Fillers
  <2>3. Len(b) - w \in Nat
    BY <1>1
  <2>. QED
    BY <2>2, <2>3, GivenBytes
<1>5. rest \in Str /\ Len(rest) = (IF rb THEN Len(b) - w ELSE 0)
  BY <1>4, EmptySeq DEF Str
<1>6. (IF ra THEN [x \in 1..(Len(a) - w) |-> ta[a[w + x]]] ELSE <<>>) = <<>>
  <2>1. 1..(Len(a) - w) = {}
    BY <1>1
  <2>. QED
    BY <2>1
<1>7. str_bit_bin_op(a, b, f, ra, rb, ta, tb) = common \o rest
  <2>1. str_bit_bin_op(a, b, f, ra, rb, ta, tb) =
          (IF Len(a) = Len(b) THEN DropTrailingZeros(common) ELSE common)
            \o (IF ra THEN [x \in 1..(Len(a) - w) |-> ta[a[w + x]]] ELSE <<>>) \o rest
    BY <1>2, Zenon DEF str_bit_bin_op
  <2>2. Len(a) # Len(b)
    BY <1>1
  <2>3. common \o <<>> = common
    BY <1>3, ConcatEmptySeq DEF Str
  <2>. HIDE DEF common, rest
  <2>. QED
    BY <1>6, <2>1, <2>2, <2>3
<1>. HIDE DEF rest, common
<1>8. /\ common \o rest \in Seq(Byte) /\ Len(common \o rest) = w + Len(rest)
      /\ \A x \in 1..(w + Len(rest)) :
           (common \o rest)[x] = IF x <= w THEN common[x] ELSE rest[x - w]
  <2>1. common \in Seq(Byte) /\ rest \in Seq(Byte)
    BY <1>3, <1>5 DEF Str
  <2>2. /\ common \o rest \in Seq(Byte) /\ Len(common \o rest) = Len(common) + Len(rest)
        /\ \A x \in 1..(Len(common) + Len(rest)) :
             (common \o rest)[x] = IF x <= Len(common) THEN common[x] ELSE rest[x - Len(common)]
    BY <2>1, ConcatProperties
  <2>. QED
    BY <1>3, <2>2
<1>9. \A x \in 1..w : (common \o rest)[x] = f[<<a[x], b[x]>>]
  BY <1>1, <1>5, <1>8 DEF common
<1>10. ASSUME rb, NEW x \in (w + 1)..Len(b) PROVE (common \o rest)[x] = tb[b[x]]
  <2>1. x - w \in 1..(Len(b) - w) /\ w + (x - w) = x /\ x \in 1..(w + Len(rest)) /\ ~(x <= w)
    BY <1>1, <1>5, <1>10
  <2>2. rest[x - w] = tb[b[x]]
    BY <1>10, <2>1 DEF rest
  <2>. QED
    BY <1>8, <2>1, <2>2
<1>11. /\ r \in Str /\ Len(r) = (IF rb THEN Len(b) ELSE Len(a))
       /\ \A x \in 1..Len(a) : r[x] = f[<<a[x], b[x]>>]
       /\ rb => \A x \in (Len(a) + 1)..Len(b) : r[x] = tb[b[x]]
  <2>1. r \in Str
    BY <1>0, <1>7, <1>8 DEF Str
  <2>2. Len(r) = (IF rb THEN Len(b) ELSE Len(a))
    BY <1>0, <1>1, <1>5, <1>7, <1>8
  <2>. QED
    BY <1>0, <1>7, <1>9, <1>10, <2>1, <2>2
<1>12. IsOpOf(r, a, b, f, ra, rb, ta, tb)
  BY <1>1, <1>11 DEF IsOpOf, At, Position
<1>. QED
  BY <1>0, <1>12

\* Strings of one length: the trailing zeros of what they combine to are dropped.
LEMMA SameLength ==
  ASSUME NEW a \in Str, NEW b \in Str, Len(a) = Len(b), NEW f \in Combiners,
         NEW ra \in BOOLEAN, NEW rb \in BOOLEAN, NEW ta \in Fillers, NEW tb \in Fillers
  PROVE  IsOpOf(str_bit_bin_op(a, b, f, ra, rb, ta, tb), a, b, f, ra, rb, ta, tb)
<1>0. PICK r : r = str_bit_bin_op(a, b, f, ra, rb, ta, tb)
  OBVIOUS
<1>. DEFINE w == Len(a)
            common == [x \in 1..w |-> f[<<a[x], b[x]>>]]
<1>1. /\ w \in Nat /\ \A x \in 1..w : a[x] \in Byte /\ b[x] \in Byte
  BY StrBytes
<1>2. Min({Len(a), Len(b)}) = w
  <2>1. \E x \in {Len(a), Len(b)} : \A z \in {Len(a), Len(b)} : x <= z
    BY <1>1
  <2>2. Min({Len(a), Len(b)}) \in {Len(a), Len(b)}
    BY <2>1 DEF Min
  <2>. QED
    BY <1>1, <2>2
<1>3. common \in Str /\ Len(common) = w
  <2>1. \A x \in 1..w : f[<<a[x], b[x]>>] \in Byte
    BY <1>1 DEF Combiners
  <2>2. common = [x \in 1..w |-> common[x]] /\ \A x \in 1..w : common[x] \in Byte
    BY <2>1
  <2>. HIDE DEF common
  <2>. QED
    BY <1>1, <2>2, GivenBytes
<1>4. /\ (IF ra THEN [x \in 1..(Len(a) - w) |-> ta[a[w + x]]] ELSE <<>>) = <<>>
      /\ (IF rb THEN [x \in 1..(Len(b) - w) |-> tb[b[w + x]]] ELSE <<>>) = <<>>
  <2>1. 1..(Len(a) - w) = {} /\ 1..(Len(b) - w) = {}
    BY <1>1
  <2>. QED
    BY <2>1
<1>5. str_bit_bin_op(a, b, f, ra, rb, ta, tb) = DropTrailingZeros(common)
  <2>1. str_bit_bin_op(a, b, f, ra, rb, ta, tb) =
          (IF Len(a) = Len(b) THEN DropTrailingZeros(common) ELSE common)
            \o (IF ra THEN [x \in 1..(Len(a) - w) |-> ta[a[w + x]]] ELSE <<>>)
            \o (IF rb THEN [x \in 1..(Len(b) - w) |-> tb[b[w + x]]] ELSE <<>>)
    BY <1>2, Zenon DEF str_bit_bin_op
  <2>. HIDE DEF common
  <2>2. DropTrailingZeros(common) \in Seq(Byte)
    BY <1>3, DropTrailingZerosIs DEF Str
  <2>3. DropTrailingZeros(common) \o <<>> = DropTrailingZeros(common)
    BY <2>2, ConcatEmptySeq
  <2>. QED
    BY <1>4, <2>1, <2>3
<1>. DEFINE d == DropTrailingZeros(common)
<1>6. /\ d \in Str /\ Len(d) \in 0..w
      /\ \A x \in 1..Len(d) : d[x] = common[x]
      /\ \A x \in (Len(d) + 1)..w : common[x] = {}
      /\ Len(d) > 0 => common[Len(d)] # {}
  <2>. HIDE DEF common
  <2>. QED
    BY <1>3, DropTrailingZerosIs
<1>7. \A x \in 1..w : common[x] = f[<<a[x], b[x]>>]
  OBVIOUS
<1>. HIDE DEF common, d
<1>8. \A x \in 1..Len(d) : x \in 1..w
  BY <1>1, <1>6
<1>9. Len(d) > 0 => Len(d) \in 1..w
  BY <1>6
<1>10. \A x \in (Len(d) + 1)..w : x \in 1..w
  BY <1>1, <1>6
<1>11. /\ r \in Str /\ Len(r) \in 0..Len(a)
       /\ \A x \in 1..Len(r) : r[x] = f[<<a[x], b[x]>>]
       /\ \A x \in (Len(r) + 1)..Len(a) : f[<<a[x], b[x]>>] = {}
       /\ Len(r) > 0 => f[<<a[Len(r)], b[Len(r)]>>] # {}
  BY <1>0, <1>5, <1>6, <1>7, <1>8, <1>9, <1>10 DEF d
<1>12. ASSUME NEW x \in Position
       PROVE  At(r, x) = IF x <= Len(a) THEN f[<<a[x], b[x]>>] ELSE {}
  <2>1. CASE x \in 1..Len(r)
    BY <1>1, <1>11, <2>1 DEF At
  <2>2. CASE x \in (Len(r) + 1)..Len(a)
    BY <1>1, <1>11, <2>2 DEF At
  <2>3. CASE x > Len(a)
    BY <1>1, <1>11, <2>3 DEF At, Position
  <2>. QED
    BY <1>1, <1>11, <2>1, <2>2, <2>3 DEF Position
<1>13. EndsInNoZero(r)
  BY <1>1, <1>11 DEF At, EndsInNoZero
<1>14. IsOpOf(r, a, b, f, ra, rb, ta, tb)
  <2>1. \A x \in Position : x <= Len(a) => At(a, x) = a[x] /\ At(b, x) = b[x]
    BY ByteAt
  <2>2. ASSUME NEW x \in Position
        PROVE  At(r, x) = IF x <= Len(a) /\ x <= Len(b) THEN f[<<At(a, x), At(b, x)>>]
                          ELSE IF x <= Len(a) /\ ra THEN ta[At(a, x)]
                          ELSE IF x <= Len(b) /\ rb THEN tb[At(b, x)]
                          ELSE {}
    BY <1>12, <2>1
  <2>3. ~(Len(a) > Len(b)) /\ ~(Len(a) < Len(b)) /\ Len(r) <= Len(a)
    BY <1>1, <1>11
  <2>. QED
    BY <1>11, <1>13, <2>2, <2>3 DEF IsOpOf
<1>. QED
  BY <1>0, <1>14

\* All three cases.
LEMMA OpBytes ==
  ASSUME NEW a \in Str, NEW b \in Str, NEW f \in Combiners,
         NEW ra \in BOOLEAN, NEW rb \in BOOLEAN, NEW ta \in Fillers, NEW tb \in Fillers
  PROVE  IsOpOf(str_bit_bin_op(a, b, f, ra, rb, ta, tb), a, b, f, ra, rb, ta, tb)
BY LenIsNat, FirstLonger, FirstShorter, SameLength

\* The exclusive or: nothing is lost, whatever the lengths.
LEMMA XorBytes ==
  ASSUME NEW a \in Str, NEW b \in Str, NEW r, r = str_xor(a, b)
  PROVE  /\ r \in Str
         /\ Len(a) > Len(b) => Len(r) = Len(a)
         /\ Len(a) < Len(b) => Len(r) = Len(b)
         /\ Len(a) = Len(b) => Len(r) <= Len(a) /\ EndsInNoZero(r)
         /\ \A x \in Position : At(r, x) = (At(a, x) \ At(b, x)) \cup (At(b, x) \ At(a, x))
<1>1. /\ c_xor \in Combiners /\ \A p, q \in Byte : c_xor[<<p, q>>] = (p \ q) \cup (q \ p)
      /\ char_self \in Fillers /\ \A p \in Byte : char_self[p] = p
  BY ByteOps
<1>2. IsOpOf(r, a, b, c_xor, TRUE, TRUE, char_self, char_self)
  BY <1>1, OpBytes DEF str_xor
<1>3. ASSUME NEW x \in Position
      PROVE  At(r, x) = (At(a, x) \ At(b, x)) \cup (At(b, x) \ At(a, x))
  <2>1. /\ At(a, x) \in Byte /\ (~(x <= Len(a)) => At(a, x) = {})
        /\ At(b, x) \in Byte /\ (~(x <= Len(b)) => At(b, x) = {})
    BY ByteAt
  <2>2. At(r, x) = IF x <= Len(a) /\ x <= Len(b) THEN c_xor[<<At(a, x), At(b, x)>>]
                   ELSE IF x <= Len(a) /\ TRUE THEN char_self[At(a, x)]
                   ELSE IF x <= Len(b) /\ TRUE THEN char_self[At(b, x)]
                   ELSE {}
    BY <1>2 DEF IsOpOf
  <2>. QED
    BY <1>1, <2>1, <2>2
<1>. QED
  BY <1>2, <1>3, LenIsNat DEF IsOpOf

\* The or.
LEMMA OrBytes ==
  ASSUME NEW a \in Str, NEW b \in Str, NEW r, r = str_or(a, b)
  PROVE  /\ r \in Str
         /\ Len(a) > Len(b) => Len(r) = Len(a)
         /\ \A x \in Position : At(r, x) = At(a, x) \cup At(b, x)
<1>1. /\ c_or \in Combiners /\ \A p, q \in Byte : c_or[<<p, q>>] = p \cup q
      /\ char_self \in Fillers /\ \A p \in Byte : char_self[p] = p
  BY ByteOps
<1>2. IsOpOf(r, a, b, c_or, TRUE, TRUE, char_self, char_self)
  BY <1>1, OpBytes DEF str_or
<1>3. ASSUME NEW x \in Position
      PROVE  At(r, x) = At(a, x) \cup At(b, x)
  <2>1. /\ At(a, x) \in Byte /\ (~(x <= Len(a)) => At(a, x) = {})
        /\ At(b, x) \in Byte /\ (~(x <= Len(b)) => At(b, x) = {})
    BY ByteAt
  <2>2. At(r, x) = IF x <= Len(a) /\ x <= Len(b) THEN c_or[<<At(a, x), At(b, x)>>]
                   ELSE IF x <= Len(a) /\ TRUE THEN char_self[At(a, x)]
                   ELSE IF x <= Len(b) /\ TRUE THEN char_self[At(b, x)]
                   ELSE {}
    BY <1>2 DEF IsOpOf
  <2>. QED
    BY <1>1, <2>1, <2>2
<1>. QED
  BY <1>2, <1>3, LenIsNat DEF IsOpOf

\* The and: never longer than the shorter of the two.
LEMMA AndBytes ==
  ASSUME NEW a \in Str, NEW b \in Str, NEW r, r = str_and(a, b)
  PROVE  /\ r \in Str
         /\ Len(r) <= Len(a) /\ Len(r) <= Len(b)
         /\ \A x \in Position : At(r, x) = At(a, x) \cap At(b, x)
<1>1. /\ c_and \in Combiners /\ \A p, q \in Byte : c_and[<<p, q>>] = p \cap q
      /\ char_self \in Fillers /\ \A p \in Byte : char_self[p] = p
  BY ByteOps
<1>2. IsOpOf(r, a, b, c_and, FALSE, FALSE, char_self, char_self)
  BY <1>1, OpBytes DEF str_and
<1>3. ASSUME NEW x \in Position
      PROVE  At(r, x) = At(a, x) \cap At(b, x)
  <2>1. /\ At(a, x) \in Byte /\ (~(x <= Len(a)) => At(a, x) = {})
        /\ At(b, x) \in Byte /\ (~(x <= Len(b)) => At(b, x) = {})
    BY ByteAt
  <2>2. At(r, x) = IF x <= Len(a) /\ x <= Len(b) THEN c_and[<<At(a, x), At(b, x)>>]
                   ELSE IF x <= Len(a) /\ FALSE THEN char_self[At(a, x)]
                   ELSE IF x <= Len(b) /\ FALSE THEN char_self[At(b, x)]
                   ELSE {}
    BY <1>2 DEF IsOpOf
  <2>. QED
    BY <1>1, <2>1, <2>2
<1>. QED
  BY <1>2, <1>3, LenIsNat DEF IsOpOf

\* The and with a complement.
LEMMA AndNotBytes ==
  ASSUME NEW a \in Str, NEW b \in Str, NEW r, r = str_and_not(a, b)
  PROVE  /\ r \in Str
         /\ Len(a) > Len(b) => Len(r) = Len(a)
         /\ Len(r) <= Len(a) \/ Len(r) <= Len(b)
         /\ \A x \in Position : At(r, x) = At(a, x) \ At(b, x)
<1>1. /\ c_and_not \in Combiners /\ \A p, q \in Byte : c_and_not[<<p, q>>] = p \ q
      /\ char_self \in Fillers /\ \A p \in Byte : char_self[p] = p
  BY ByteOps
<1>2. IsOpOf(r, a, b, c_and_not, TRUE, FALSE, char_self, char_self)
  BY <1>1, OpBytes DEF str_and_not
<1>3. ASSUME NEW x \in Position
      PROVE  At(r, x) = At(a, x) \ At(b, x)
  <2>1. /\ At(a, x) \in Byte /\ (~(x <= Len(a)) => At(a, x) = {})
        /\ At(b, x) \in Byte /\ (~(x <= Len(b)) => At(b, x) = {})
    BY ByteAt
  <2>2. At(r, x) = IF x <= Len(a) /\ x <= Len(b) THEN c_and_not[<<At(a, x), At(b, x)>>]
                   ELSE IF x <= Len(a) /\ TRUE THEN char_self[At(a, x)]
                   ELSE IF x <= Len(b) /\ FALSE THEN char_self[At(b, x)]
                   ELSE {}
    BY <1>2 DEF IsOpOf
  <2>. QED
    BY <1>1, <2>1, <2>2
<1>. QED
  BY <1>2, <1>3, LenIsNat DEF IsOpOf

\* The or of two complements, the rest of the longer operand filled with ones.
LEMMA NotOrNotBytes ==
  ASSUME NEW a \in Str, NEW b \in Str, Len(a) > Len(b), NEW r, r = str_not_or_not(a, b)
  PROVE  /\ r \in Str /\ Len(r) = Len(a)
         /\ \A x \in Position :
              At(r, x) = IF x <= Len(a) THEN (Bits \ At(a, x)) \cup (Bits \ At(b, x)) ELSE {}
<1>1. /\ c_not_or_not \in Combiners
      /\ \A p, q \in Byte : c_not_or_not[<<p, q>>] = (Bits \ p) \cup (Bits \ q)
      /\ char_255 \in Fillers /\ \A p \in Byte : char_255[p] = Bits
  BY ByteOps
<1>2. IsOpOf(r, a, b, c_not_or_not, TRUE, TRUE, char_255, char_255)
  BY <1>1, OpBytes DEF str_not_or_not
<1>3. ASSUME NEW x \in Position
      PROVE  At(r, x) = IF x <= Len(a) THEN (Bits \ At(a, x)) \cup (Bits \ At(b, x)) ELSE {}
  <2>1. /\ At(a, x) \in Byte /\ (~(x <= Len(a)) => At(a, x) = {})
        /\ At(b, x) \in Byte /\ (~(x <= Len(b)) => At(b, x) = {})
    BY ByteAt
  <2>2. At(r, x) = IF x <= Len(a) /\ x <= Len(b) THEN c_not_or_not[<<At(a, x), At(b, x)>>]
                   ELSE IF x <= Len(a) /\ TRUE THEN char_255[At(a, x)]
                   ELSE IF x <= Len(b) /\ TRUE THEN char_255[At(b, x)]
                   ELSE {}
    BY <1>2 DEF IsOpOf
  <2>3. x <= Len(b) => x <= Len(a)
    BY LenIsNat DEF Position
  <2>4. Bits = (Bits \ At(a, x)) \cup (Bits \ {})
    OBVIOUS
  <2>. QED
    BY <1>1, <2>1, <2>2, <2>3, <2>4
<1>. QED
  BY <1>2, <1>3, LenIsNat DEF IsOpOf

\* The complement: the zeros that were ones at the end of the string are dropped.
LEMMA NotBytes ==
  ASSUME NEW a \in Str, NEW r, r = str_not(a)
  PROVE  /\ r \in Str /\ Len(r) <= Len(a)
         /\ \A x \in Position : x <= Len(a) => At(r, x) = Bits \ At(a, x)
<1>. DEFINE c == [x \in 1..Len(a) |-> char_not[a[x]]]
<1>1. /\ Len(a) \in Nat /\ DOMAIN a = 1..Len(a) /\ \A x \in 1..Len(a) : a[x] \in Byte
  BY StrBytes
<1>2. char_not \in Fillers /\ \A p \in Byte : char_not[p] = Bits \ p
  BY ByteOps
<1>3. c \in Str /\ Len(c) = Len(a)
  <2>1. \A x \in 1..Len(a) : char_not[a[x]] \in Byte
    BY <1>1, <1>2 DEF Fillers
  <2>2. c = [x \in 1..Len(a) |-> c[x]] /\ \A x \in 1..Len(a) : c[x] \in Byte
    BY <2>1
  <2>. HIDE DEF c
  <2>. QED
    BY <1>1, <2>2, GivenBytes
<1>4. \A x \in 1..Len(a) : c[x] = Bits \ a[x]
  BY <1>1, <1>2
<1>5. r = DropTrailingZeros(c)
  BY <1>1 DEF str_not
<1>. HIDE DEF c
<1>6. /\ r \in Str /\ Len(r) \in 0..Len(a)
      /\ \A x \in 1..Len(r) : r[x] = c[x]
      /\ \A x \in (Len(r) + 1)..Len(a) : c[x] = {}
  BY <1>3, <1>5, DropTrailingZerosIs
<1>7. ASSUME NEW x \in Position, x <= Len(a) PROVE At(r, x) = Bits \ At(a, x)
  <2>1. x \in 1..Len(a) /\ At(a, x) = a[x]
    BY <1>1, <1>7 DEF At, Position
  <2>2. CASE x \in 1..Len(r)
    BY <1>4, <1>6, <2>1, <2>2 DEF At
  <2>3. CASE x \in (Len(r) + 1)..Len(a)
    BY <1>4, <1>6, <2>1, <2>3 DEF At
  <2>. QED
    BY <1>1, <1>6, <2>1, <2>2, <2>3
<1>. QED
  BY <1>1, <1>6, <1>7

\* Xor with s takes back xor with s, but for the zeros that m ends in.
LEMMA XorTwice ==
  ASSUME NEW s \in Str, NEW m \in Str, EndsInNoZero(m)
  PROVE  str_xor(str_xor(s, m), s) = m
<1>1. PICK d : d = str_xor(s, m)
  OBVIOUS
<1>2. PICK r : r = str_xor(d, s)
  OBVIOUS
<1>3. /\ d \in Str
      /\ Len(s) > Len(m) => Len(d) = Len(s)
      /\ Len(s) < Len(m) => Len(d) = Len(m)
      /\ Len(s) = Len(m) => Len(d) <= Len(s)
      /\ \A x \in Position : At(d, x) = (At(s, x) \ At(m, x)) \cup (At(m, x) \ At(s, x))
  BY <1>1, XorBytes
<1>4. /\ r \in Str
      /\ Len(d) > Len(s) => Len(r) = Len(d)
      /\ Len(d) < Len(s) => Len(r) = Len(s)
      /\ Len(d) = Len(s) => EndsInNoZero(r)
      /\ \A x \in Position : At(r, x) = (At(d, x) \ At(s, x)) \cup (At(s, x) \ At(d, x))
  <2>1. d \in Str
    BY <1>3
  <2>. QED
    BY <1>2, <2>1, XorBytes
<1>5. ASSUME NEW x \in Position PROVE At(r, x) = At(m, x)
  BY <1>3, <1>4
<1>6. Len(r) = Len(m) \/ EndsInNoZero(r)
  BY <1>3, <1>4, LenIsNat
<1>. QED
  BY <1>1, <1>2, <1>4, <1>5, <1>6, SameBytes

-----------------------------------------------------------------------------
(* The loop of str_co_and *)

\* The bits at x that the first k chosen strings all have, and that none has.
Common(vs, cs, k, x) == {b \in Bits : \A j \in 1..k : b \in At(vs[cs[j]], x)}
Neither(vs, cs, k, x) == {b \in Bits : \A j \in 1..k : b \notin At(vs[cs[j]], x)}

\* What one more chosen string leaves of them.
LEMMA OneMore ==
  ASSUME NEW vs, NEW cs, NEW k \in Nat, NEW x
  PROVE  /\ Common(vs, cs, k + 1, x) = Common(vs, cs, k, x) \cap At(vs[cs[k + 1]], x)
         /\ Neither(vs, cs, k + 1, x) = Neither(vs, cs, k, x) \ At(vs[cs[k + 1]], x)
<1>1. 1..(k + 1) = (1..k) \cup {k + 1}
  OBVIOUS
<1>. QED
  BY <1>1 DEF Common, Neither

LEMMA FirstOne ==
  ASSUME NEW vs, NEW cs, NEW x, At(vs[cs[1]], x) \in Byte
  PROVE  /\ Common(vs, cs, 1, x) = At(vs[cs[1]], x)
         /\ Neither(vs, cs, 1, x) = Bits \ At(vs[cs[1]], x)
<1>1. 1..1 = {1} /\ At(vs[cs[1]], x) \subseteq Bits
  BY DEF Byte
<1>. QED
  BY <1>1 DEF Common, Neither

\* One turn of the loop.
Turn(vs, cs, is_not, z, j) ==
  IF is_not THEN str_and_not(z, vs[cs[j]]) ELSE str_and(z, vs[cs[j]])

First(vs, cs, is_not) == IF is_not THEN str_not(vs[cs[1]]) ELSE vs[cs[1]]

LEMMA CoAndLoop ==
  ASSUME NEW vs, NEW cs \in Seq(Nat), cs # <<>>, \A j \in 1..Len(cs) : vs[cs[j]] \in Str,
         NEW is_not \in BOOLEAN
  PROVE  \E g \in [1..Len(cs) -> Str] :
           /\ g[1] = First(vs, cs, is_not)
           /\ \A j \in 1..Len(cs) : j # 1 => g[j] = Turn(vs, cs, is_not, g[j - 1], j)
           /\ str_co_and(vs, cs, is_not) = g[Len(cs)]
<1>. DEFINE m == Len(cs)
            Body(g) == [j \in 1..m |-> IF j = 1 THEN First(vs, cs, is_not)
                                       ELSE Turn(vs, cs, is_not, g[j - 1], j)]
            first == First(vs, cs, is_not)
            next == [p \in Str \X (1..m) |-> Turn(vs, cs, is_not, p[1], p[2])]
            res == CHOOSE g : g = Body(g)
<1>1. m \in Nat /\ 1 \in 1..m
  BY EmptySeq
<1>2. first \in Str
  BY <1>1, NotBytes DEF First
<1>3. \A z \in Str, j \in 1..m : Turn(vs, cs, is_not, z, j) \in Str
  BY AndBytes, AndNotBytes DEF Turn
<1>4. next \in [Str \X (1..m) -> Str]
  <2>1. \A p \in Str \X (1..m) : p[1] \in Str /\ p[2] \in 1..m
    OBVIOUS
  <2>. QED
    BY <1>3, <2>1
<1>5. \A z \in Str, j \in 1..m : next[<<z, j>>] = Turn(vs, cs, is_not, z, j)
  OBVIOUS
<1>. HIDE DEF first, next, m
<1>6. PICK g \in [1..m -> Str] : \A j \in 1..m :
        g[j] = IF j = 1 THEN first ELSE next[<<g[j - 1], j>>]
  <2>1. \E g : Recursion(g, Str, m, first, next)
    BY <1>1, <1>2, <1>4, RecursionExists
  <2>. QED
    BY <2>1 DEF Recursion
<1>7. ASSUME NEW j \in 1..m, j # 1 PROVE g[j - 1] \in Str
  <2>1. j - 1 \in 1..m
    BY <1>1, <1>7
  <2>. QED
    BY <2>1
<1>8. \A j \in 1..m : g[j] = IF j = 1 THEN First(vs, cs, is_not)
                             ELSE Turn(vs, cs, is_not, g[j - 1], j)
  BY <1>5, <1>6, <1>7 DEF first
<1>9. g = Body(g)
  BY <1>8
<1>10. res = Body(res)
  <2>. HIDE DEF Body
  <2>. QED
    BY <1>9
<1>11. str_co_and(vs, cs, is_not) = res[m]
  BY Zenon DEF str_co_and, First, Turn, m
<1>. HIDE DEF res
<1>12. \A j \in 1..m : res[j] = g[j]
  <2>. DEFINE T == {j \in 1..m : res[j] = g[j]}
  <2>1. \A j \in 1..m : res[j] = IF j = 1 THEN First(vs, cs, is_not)
                                 ELSE Turn(vs, cs, is_not, res[j - 1], j)
    BY <1>10
  <2>2. 1 \in T
    BY <1>1, <1>8, <2>1
  <2>3. ASSUME NEW j \in 1..m, j \in T, j < m PROVE j + 1 \in T
    <3>1. j + 1 \in 1..m /\ j + 1 # 1 /\ (j + 1) - 1 = j
      BY <1>1, <2>3
    <3>2. res[j + 1] = Turn(vs, cs, is_not, res[j], j + 1)
      BY <2>1, <3>1
    <3>3. g[j + 1] = Turn(vs, cs, is_not, g[j], j + 1)
      BY <1>8, <3>1
    <3>. QED
      BY <2>3, <3>1, <3>2, <3>3
  <2>. HIDE DEF T
  <2>4. 1..m \subseteq T
    BY <1>1, <2>2, <2>3, SetInduction
  <2>. QED
    BY <2>4 DEF T
<1>13. /\ g[1] = First(vs, cs, is_not)
       /\ \A j \in 1..m : j # 1 => g[j] = Turn(vs, cs, is_not, g[j - 1], j)
       /\ str_co_and(vs, cs, is_not) = g[m]
  BY <1>1, <1>8, <1>11, <1>12
<1>. QED
  BY <1>13, Zenon DEF m

\* What it leaves of strings of one length.
Gathered(vs, cs, is_not, k, x) ==
  IF is_not THEN Neither(vs, cs, k, x) ELSE Common(vs, cs, k, x)

IsGathered(r, vs, cs, is_not, w) ==
  /\ r \in Str /\ Len(r) <= w
  /\ \A x \in Position : x <= w => At(r, x) = Gathered(vs, cs, is_not, Len(cs), x)

OneLength(vs, cs, w) == \A j \in 1..Len(cs) : vs[cs[j]] \in Str /\ Len(vs[cs[j]]) = w

LEMMA CoAndBytes ==
  ASSUME NEW vs, NEW cs \in Seq(Nat), cs # <<>>, NEW w \in Nat, OneLength(vs, cs, w),
         NEW is_not \in BOOLEAN
  PROVE  IsGathered(str_co_and(vs, cs, is_not), vs, cs, is_not, w)
<1>0. PICK r : r = str_co_and(vs, cs, is_not)
  OBVIOUS
<1>a. \A j \in 1..Len(cs) : vs[cs[j]] \in Str /\ Len(vs[cs[j]]) = w
  BY DEF OneLength
<1>1. Len(cs) \in Nat /\ 1 \in 1..Len(cs) /\ Len(cs) \in 1..Len(cs)
  BY EmptySeq
<1>2. PICK g \in [1..Len(cs) -> Str] :
        /\ g[1] = First(vs, cs, is_not)
        /\ \A j \in 1..Len(cs) : j # 1 => g[j] = Turn(vs, cs, is_not, g[j - 1], j)
        /\ r = g[Len(cs)]
  BY <1>0, <1>a, CoAndLoop
<1>. DEFINE Good(j) == /\ Len(g[j]) <= w
                       /\ \A x \in Position : x <= w => At(g[j], x) = Gathered(vs, cs, is_not, j, x)
            T == {j \in 1..Len(cs) : Good(j)}
<1>3. 1 \in T
  <2>1. vs[cs[1]] \in Str /\ Len(vs[cs[1]]) = w
    BY <1>a, <1>1
  <2>2. ASSUME NEW x \in Position, x <= w PROVE At(g[1], x) = Gathered(vs, cs, is_not, 1, x)
    <3>1. At(vs[cs[1]], x) \in Byte
      BY <2>1, ByteAt
    <3>2. /\ Common(vs, cs, 1, x) = At(vs[cs[1]], x)
          /\ Neither(vs, cs, 1, x) = Bits \ At(vs[cs[1]], x)
      BY <3>1, FirstOne
    <3>3. At(str_not(vs[cs[1]]), x) = Bits \ At(vs[cs[1]], x)
      BY <2>1, <2>2, NotBytes
    <3>. QED
      BY <1>2, <3>2, <3>3 DEF First, Gathered
  <2>3. Len(g[1]) <= w
    BY <1>2, <2>1, NotBytes DEF First
  <2>. QED
    BY <1>1, <2>2, <2>3
<1>4. ASSUME NEW j \in 1..Len(cs), j \in T, j < Len(cs) PROVE j + 1 \in T
  <2>1. j + 1 \in 1..Len(cs) /\ j + 1 # 1 /\ (j + 1) - 1 = j /\ j \in Nat
    BY <1>1, <1>4
  <2>2. g[j + 1] = Turn(vs, cs, is_not, g[j], j + 1)
    BY <1>2, <2>1
  <2>3. vs[cs[j + 1]] \in Str /\ Len(vs[cs[j + 1]]) = w /\ g[j] \in Str /\ Len(g[j]) \in Nat
    BY <1>a, <2>1, LenIsNat
  <2>4. Good(j)
    BY <1>4
  <2>5. 1..(j + 1) = (1..j) \cup {j + 1}
    BY <2>1
  <2>6. CASE is_not
    <3>1. g[j + 1] = str_and_not(g[j], vs[cs[j + 1]])
      BY <2>2, <2>6 DEF Turn
    <3>2. /\ Len(g[j + 1]) <= Len(g[j]) \/ Len(g[j + 1]) <= w
          /\ \A x \in Position : At(g[j + 1], x) = At(g[j], x) \ At(vs[cs[j + 1]], x)
      BY <2>3, <3>1, AndNotBytes
    <3>3. Len(g[j + 1]) <= w
      BY <2>3, <2>4, <3>2, <2>1, LenIsNat
    <3>4. ASSUME NEW x \in Position, x <= w
          PROVE  At(g[j + 1], x) = Gathered(vs, cs, is_not, j + 1, x)
      <4>1. Neither(vs, cs, j + 1, x) = Neither(vs, cs, j, x) \ At(vs[cs[j + 1]], x)
        BY <2>5 DEF Neither
      <4>2. At(g[j], x) = Neither(vs, cs, j, x)
        BY <2>4, <2>6, <3>4 DEF Gathered
      <4>. QED
        BY <2>6, <3>2, <4>1, <4>2 DEF Gathered
    <3>. QED
      BY <2>1, <3>3, <3>4
  <2>7. CASE ~is_not
    <3>1. g[j + 1] = str_and(g[j], vs[cs[j + 1]])
      BY <2>2, <2>7 DEF Turn
    <3>2. /\ Len(g[j + 1]) <= w
          /\ \A x \in Position : At(g[j + 1], x) = At(g[j], x) \cap At(vs[cs[j + 1]], x)
      BY <2>3, <3>1, AndBytes
    <3>4. ASSUME NEW x \in Position, x <= w
          PROVE  At(g[j + 1], x) = Gathered(vs, cs, is_not, j + 1, x)
      <4>1. Common(vs, cs, j + 1, x) = Common(vs, cs, j, x) \cap At(vs[cs[j + 1]], x)
        BY <2>5 DEF Common
      <4>2. At(g[j], x) = Common(vs, cs, j, x)
        BY <2>4, <2>7, <3>4 DEF Gathered
      <4>. QED
        BY <2>7, <3>2, <4>1, <4>2 DEF Gathered
    <3>. QED
      BY <2>1, <3>2, <3>4
  <2>. QED
    BY <2>6, <2>7
<1>5. Good(Len(cs))
  <2>. HIDE DEF T
  <2>1. 1..Len(cs) \subseteq T
    BY <1>1, <1>3, <1>4, SetInduction
  <2>. QED
    BY <1>1, <2>1 DEF T
<1>6. r \in Str /\ Good(Len(cs))
  BY <1>1, <1>2, <1>5
<1>. QED
  BY <1>0, <1>2, <1>6 DEF IsGathered

-----------------------------------------------------------------------------
(* The invariant *)

width == Len(rs[1])

\* The two ops of the first k choices: what the ciphertext has or all their
\* random messages have, and what it has not or none of them has.
FirstOp(op, k) ==
  /\ op \in Str /\ Len(op) = Len(encrypted)
  /\ \A x \in Position : At(op, x) = At(encrypted, x) \cup Common(rs, choices, k, x)

SecondOp(op, k) ==
  /\ op \in Str /\ Len(op) = Len(encrypted)
  /\ \A x \in Position : x <= Len(encrypted) =>
       At(op, x) = (Bits \ At(encrypted, x)) \cup Neither(rs, choices, k, x)

\* As much of the second op as a random message can reach.
SecondOpUpTo(op, k, w) ==
  /\ op \in Str /\ Len(op) >= w
  /\ \A x \in Position : x <= w =>
       At(op, x) = (Bits \ At(encrypted, x)) \cup Neither(rs, choices, k, x)

Encrypting == pc \in {"encrypt", "check", "OTError"}
Taking     == pc \in {"takeChosen", "takeAll", "done"}

\* How far each loop has come.
Progress ==
  /\ ~secureMode => choices # <<>>
  /\ pc = "encrypt" => /\ secureMode => Len(ops) = 2 * (i - 1) /\ i <= Len(choices) + 1
                       /\ ~secureMode => ops = <<>>
  /\ pc # "encrypt" => /\ secureMode => Len(ops) = 2 * Len(choices)
                       /\ ~secureMode => ops = <<CoAndOp, CoAndNotOp>>
  /\ ~Encrypting => choices # <<>>
  /\ pc = "fold" => i <= Len(choices)
  /\ Encrypting \/ pc = "fold" => ys = <<>>
  /\ pc = "decrypt" => Len(ys) = i - 1
  /\ Taking => Len(ys) = n
  /\ ~Taking => out = <<>>
  /\ pc = "takeChosen" => Len(out) = i - 1 /\ i <= Len(choices) + 1
  /\ pc = "takeAll" => Len(out) = i - 1

\* The ops of the secure mode: two of each choice.
OpsOfChoices ==
  secureMode => \A j \in 1..Len(choices) : 2 * j <= Len(ops) =>
    /\ ops[2 * j - 1] = str_or(encrypted, rs[choices[j]])
    /\ ops[2 * j] = str_not_or_not(encrypted, rs[choices[j]])

\* What the sender has folded them into.
Folded ==
  ~Encrypting =>
    /\ ~secureMode => op1 = CoAndOp /\ op2 = CoAndNotOp
    /\ secureMode /\ TailSurvives =>
         LET k == IF pc = "fold" THEN i ELSE Len(choices)
         IN FirstOp(op1, k) /\ SecondOp(op2, k)

\* The messages on their way back, under the key of the receiver.
Returned ==
  TailSurvives => \A j \in Chosen : j <= Len(ys) => ys[j] = str_xor(y, Messages[j])

Taken ==
  TailSurvives =>
    /\ pc = "takeChosen" => \A j \in 1..Len(out) : out[j] = Messages[choices[j]]
    /\ pc = "takeAll" => \A j \in Chosen : j <= Len(out) => out[j] = Messages[j]
    /\ ChosenArrive

CipherInv == TypeOK /\ Progress /\ OpsOfChoices /\ Folded /\ Returned /\ Taken

-----------------------------------------------------------------------------
(* The ops and the ciphertext *)

LEMMA ChoicesAre ==
  ASSUME TypeOK
  PROVE  /\ n \in Nat /\ Messages \in Seq(Str)
         /\ choices \in Seq(1..n) /\ choices \in Seq(Nat) /\ Len(choices) \in 0..n
         /\ \A j \in 1..Len(choices) : choices[j] \in 1..n
         /\ Chosen = {choices[j] : j \in 1..Len(choices)}
<1>1. n \in Nat /\ Messages \in Seq(Str)
  BY CipherAssumption DEF n
<1>2. PICK k \in 0..n : choices \in [1..k -> 1..n]
  BY DEF TypeOK, AscendingChoices
<1>3. choices \in Seq(1..n) /\ Len(choices) = k /\ DOMAIN choices = 1..k
  BY <1>1, <1>2
<1>4. choices \in Seq(Nat)
  <2>1. \A j \in 1..k : choices[j] \in Nat
    BY <1>1, <1>2
  <2>2. choices \in [1..k -> Nat]
    BY <1>2, <2>1
  <2>. QED
    BY <1>2, <2>2
<1>. QED
  BY <1>1, <1>2, <1>3, <1>4 DEF Chosen

LEMMA SizesAre ==
  ASSUME TypeOK
  PROVE  /\ encrypted \in Str /\ y \in Str
         /\ \A j \in 1..n : rs[j] \in Str /\ Len(rs[j]) = width /\ width < Len(encrypted)
         /\ choices # <<>> => width \in Nat /\ width < Len(encrypted) /\ 1 \in 1..Len(choices)
<1>1. encrypted \in Ciphertexts /\ y \in Keys /\ rs \in [1..n -> Randoms] /\ n \in Nat
  BY ChoicesAre DEF TypeOK
<1>2. encrypted \in Str /\ y \in Str /\ \A j \in 1..n : rs[j] \in Str
  BY <1>1, CipherAssumption
<1>3. ASSUME NEW j \in 1..n PROVE Len(rs[j]) = width /\ width < Len(encrypted)
  <2>1. 1 \in 1..n
    BY <1>1
  <2>2. rs[1] \in Randoms /\ rs[j] \in Randoms
    BY <1>1, <2>1
  <2>. QED
    BY <1>1, <2>2, SizesAssumption DEF width
<1>4. ASSUME choices # <<>>
      PROVE  width \in Nat /\ width < Len(encrypted) /\ 1 \in 1..Len(choices)
  <2>1. Len(choices) > 0 /\ 1 \in 1..n /\ 1 \in 1..Len(choices)
    BY <1>1, <1>4, ChoicesAre, EmptySeq
  <2>. QED
    BY <1>2, <1>3, <2>1, LenIsNat DEF width
<1>. QED
  BY <1>2, <1>3, <1>4

\* The two ops of one choice.
LEMMA OpsOfOne ==
  ASSUME TypeOK, NEW j \in 1..n
  PROVE  /\ str_or(encrypted, rs[j]) \in Str
         /\ Len(str_or(encrypted, rs[j])) = Len(encrypted)
         /\ \A x \in Position :
              At(str_or(encrypted, rs[j]), x) = At(encrypted, x) \cup At(rs[j], x)
         /\ str_not_or_not(encrypted, rs[j]) \in Str
         /\ Len(str_not_or_not(encrypted, rs[j])) = Len(encrypted)
         /\ \A x \in Position : x <= Len(encrypted) =>
              At(str_not_or_not(encrypted, rs[j]), x)
                = (Bits \ At(encrypted, x)) \cup (Bits \ At(rs[j], x))
<1>1. encrypted \in Str /\ rs[j] \in Str /\ Len(encrypted) > Len(rs[j])
  BY SizesAre, LenIsNat
<1>2. /\ str_or(encrypted, rs[j]) \in Str
      /\ Len(str_or(encrypted, rs[j])) = Len(encrypted)
      /\ \A x \in Position :
           At(str_or(encrypted, rs[j]), x) = At(encrypted, x) \cup At(rs[j], x)
  BY <1>1, OrBytes
<1>3. /\ str_not_or_not(encrypted, rs[j]) \in Str
      /\ Len(str_not_or_not(encrypted, rs[j])) = Len(encrypted)
      /\ \A x \in Position : x <= Len(encrypted) =>
           At(str_not_or_not(encrypted, rs[j]), x)
             = (Bits \ At(encrypted, x)) \cup (Bits \ At(rs[j], x))
  BY <1>1, NotOrNotBytes
<1>. QED
  BY <1>2, <1>3

LEMMA OpsOfFirst ==
  ASSUME TypeOK, choices # <<>>
  PROVE  /\ FirstOp(str_or(encrypted, rs[choices[1]]), 1)
         /\ SecondOp(str_not_or_not(encrypted, rs[choices[1]]), 1)
<1>1. 1 \in 1..Len(choices) /\ choices[1] \in 1..n /\ rs[choices[1]] \in Str
  BY SizesAre, ChoicesAre
<1>2. ASSUME NEW x \in Position
      PROVE  /\ Common(rs, choices, 1, x) = At(rs[choices[1]], x)
             /\ Neither(rs, choices, 1, x) = Bits \ At(rs[choices[1]], x)
  <2>1. At(rs[choices[1]], x) \in Byte
    BY <1>1, ByteAt
  <2>. QED
    BY <2>1, FirstOne
<1>3. FirstOp(str_or(encrypted, rs[choices[1]]), 1)
  BY <1>1, <1>2, OpsOfOne DEF FirstOp
<1>4. SecondOp(str_not_or_not(encrypted, rs[choices[1]]), 1)
  BY <1>1, <1>2, OpsOfOne DEF SecondOp
<1>. QED
  BY <1>3, <1>4

\* The and of two ops that are as long as the ciphertext is so too when a byte
\* is left at its end.
LEMMA AndKeepsLength ==
  ASSUME NEW a \in Str, NEW b \in Str, Len(b) = Len(a), Len(a) > 0,
         At(a, Len(a)) \cap At(b, Len(a)) # {}
  PROVE  Len(str_and(a, b)) = Len(a)
<1>1. PICK r : r = str_and(a, b)
  OBVIOUS
<1>2. Len(a) \in Position
  BY LenIsNat DEF Position
<1>3. /\ r \in Str /\ Len(r) <= Len(a)
      /\ At(r, Len(a)) = At(a, Len(a)) \cap At(b, Len(a))
  BY <1>1, <1>2, AndBytes
<1>4. Len(a) <= Len(r)
  BY <1>2, <1>3, Within
<1>. QED
  BY <1>1, <1>3, <1>4, LenIsNat

LEMMA OneMoreOp ==
  ASSUME TypeOK, choices # <<>>, encrypted[Len(encrypted)] # {},
         NEW k \in 1..Len(choices), k < Len(choices), NEW a, NEW b, FirstOp(a, k), SecondOp(b, k)
  PROVE  /\ FirstOp(str_and(a, str_or(encrypted, rs[choices[k + 1]])), k + 1)
         /\ SecondOp(str_and(b, str_not_or_not(encrypted, rs[choices[k + 1]])), k + 1)
<1>. DEFINE r == rs[choices[k + 1]]
            a1 == str_or(encrypted, r)
            b1 == str_not_or_not(encrypted, r)
            e == Len(encrypted)
<1>1. k + 1 \in 1..Len(choices) /\ choices[k + 1] \in 1..n /\ k \in Nat
  BY ChoicesAre
<1>2. encrypted \in Str /\ e \in Nat /\ e > 0 /\ e \in Position /\ At(encrypted, e) # {}
  BY SizesAre, LenIsNat DEF Position, At
<1>3. At(encrypted, e) \subseteq Bits
  BY <1>2, ByteAt DEF Byte
<1>4. /\ a1 \in Str /\ Len(a1) = e
      /\ \A x \in Position : At(a1, x) = At(encrypted, x) \cup At(r, x)
      /\ b1 \in Str /\ Len(b1) = e
      /\ \A x \in Position : x <= e =>
           At(b1, x) = (Bits \ At(encrypted, x)) \cup (Bits \ At(r, x))
  BY <1>1, OpsOfOne
<1>5. At(r, e) = {} /\ rs[choices[k + 1]] \in Str
  BY <1>1, <1>2, SizesAre, LenIsNat, ByteAt
<1>6. /\ a \in Str /\ Len(a) = e
      /\ \A x \in Position : At(a, x) = At(encrypted, x) \cup Common(rs, choices, k, x)
  BY DEF FirstOp
<1>7. /\ b \in Str /\ Len(b) = e
      /\ \A x \in Position : x <= e =>
           At(b, x) = (Bits \ At(encrypted, x)) \cup Neither(rs, choices, k, x)
  BY DEF SecondOp
<1>8. \A x \in Position :
        /\ Common(rs, choices, k + 1, x) = Common(rs, choices, k, x) \cap At(r, x)
        /\ Neither(rs, choices, k + 1, x) = Neither(rs, choices, k, x) \ At(r, x)
        /\ Neither(rs, choices, k, x) \subseteq Bits
  BY <1>1, OneMore DEF Neither
<1>. HIDE DEF r, a1, b1, e
<1>9. FirstOp(str_and(a, a1), k + 1)
  <2>1. /\ str_and(a, a1) \in Str
        /\ \A x \in Position : At(str_and(a, a1), x) = At(a, x) \cap At(a1, x)
    BY <1>4, <1>6, AndBytes
  <2>2. ASSUME NEW x \in Position
        PROVE  At(str_and(a, a1), x) = At(encrypted, x) \cup Common(rs, choices, k + 1, x)
    BY <1>4, <1>6, <1>8, <2>1
  <2>3. At(a, e) \cap At(a1, e) # {}
    BY <1>2, <1>4, <1>6
  <2>4. Len(str_and(a, a1)) = e
    BY <1>2, <1>4, <1>6, <2>3, AndKeepsLength
  <2>. QED
    BY <2>1, <2>2, <2>4 DEF FirstOp, e
<1>10. SecondOp(str_and(b, b1), k + 1)
  <2>1. /\ str_and(b, b1) \in Str
        /\ \A x \in Position : At(str_and(b, b1), x) = At(b, x) \cap At(b1, x)
    BY <1>4, <1>7, AndBytes
  <2>2. ASSUME NEW x \in Position, x <= e
        PROVE  At(str_and(b, b1), x) = (Bits \ At(encrypted, x)) \cup Neither(rs, choices, k + 1, x)
    BY <1>4, <1>7, <1>8, <2>1, <2>2
  <2>3. At(b, e) \cap At(b1, e) # {}
    <3>1. Neither(rs, choices, k, e) = Bits
      <4>1. ASSUME NEW j \in 1..k PROVE At(rs[choices[j]], e) = {}
        <5>1. j \in 1..Len(choices) /\ choices[j] \in 1..n
          BY ChoicesAre
        <5>. QED
          BY <1>2, <5>1, SizesAre, LenIsNat, ByteAt DEF e
      <4>. QED
        BY <4>1 DEF Neither
    <3>2. At(b, e) = Bits /\ At(b1, e) = Bits
      <4>1. e <= e
        BY <1>2
      <4>2. At(b, e) = (Bits \ At(encrypted, e)) \cup Bits
        BY <1>2, <1>7, <3>1, <4>1
      <4>3. At(b1, e) = (Bits \ At(encrypted, e)) \cup (Bits \ {})
        BY <1>2, <1>4, <1>5, <4>1
      <4>. QED
        BY <4>2, <4>3
    <3>. QED
      BY <1>2, <1>3, <3>2
  <2>4. Len(str_and(b, b1)) = e
    BY <1>2, <1>4, <1>7, <2>3, AndKeepsLength
  <2>. QED
    BY <2>1, <2>2, <2>4 DEF SecondOp, e
<1>. QED
  BY <1>9, <1>10 DEF a1, b1, r

-----------------------------------------------------------------------------
(* The ops of the non-secure mode *)

LEMMA RandomsLeaveABit ==
  ASSUME TypeOK
  PROVE  \E top \in Bits : \A j \in 1..n, x \in Position : top \notin At(rs[j], x)
<1>1. PICK top \in Bits : \A r \in Randoms : \A j \in DOMAIN r : top \notin r[j]
  BY SizesAssumption
<1>2. ASSUME NEW j \in 1..n, NEW x \in Position PROVE top \notin At(rs[j], x)
  <2>1. rs[j] \in Randoms /\ rs[j] \in Str
    BY SizesAre DEF TypeOK
  <2>2. DOMAIN rs[j] = 1..Len(rs[j])
    BY <2>1, StrBytes
  <2>. QED
    BY <1>1, <2>1, <2>2 DEF At
<1>. QED
  BY <1>2

LEMMA CoAndOps ==
  ASSUME TypeOK, choices # <<>>
  PROVE  FirstOp(CoAndOp, Len(choices)) /\ SecondOpUpTo(CoAndNotOp, Len(choices), width)
<1>. DEFINE K == Len(choices)
            e == Len(encrypted)
            co == str_co_and(rs, choices, FALSE)
            coNot == str_co_and(rs, choices, TRUE)
            notE == str_not(encrypted)
<1>1. /\ choices \in Seq(Nat) /\ width \in Nat /\ width < e /\ e \in Nat /\ encrypted \in Str
      /\ K \in Nat /\ 1 \in 1..K
      /\ \A j \in 1..K : rs[choices[j]] \in Str /\ Len(rs[choices[j]]) = width
  BY ChoicesAre, SizesAre, LenIsNat
<1>0. ASSUME NEW is_not \in BOOLEAN, NEW c, c = str_co_and(rs, choices, is_not)
      PROVE  /\ c \in Str /\ Len(c) <= width
             /\ \A x \in Position : x <= width => At(c, x) = Gathered(rs, choices, is_not, K, x)
  <2>1. OneLength(rs, choices, width)
    BY <1>1 DEF OneLength
  <2>2. IsGathered(c, rs, choices, is_not, width)
    BY <1>0, <1>1, <2>1, CoAndBytes
  <2>. QED
    BY <2>2 DEF IsGathered
<1>2. /\ co \in Str /\ Len(co) <= width
      /\ \A x \in Position : x <= width => At(co, x) = Gathered(rs, choices, FALSE, K, x)
  BY <1>0
<1>3. /\ coNot \in Str /\ Len(coNot) <= width
      /\ \A x \in Position : x <= width => At(coNot, x) = Gathered(rs, choices, TRUE, K, x)
  BY <1>0
<1>4. /\ notE \in Str /\ Len(notE) <= e
      /\ \A x \in Position : x <= e => At(notE, x) = Bits \ At(encrypted, x)
  BY <1>1, NotBytes
<1>5. ASSUME NEW x \in Position PROVE At(co, x) = Common(rs, choices, K, x)
  <2>1. CASE x <= width
    BY <1>2, <2>1 DEF Gathered
  <2>2. CASE ~(x <= width)
    <3>1. At(co, x) = {}
      <4>. HIDE DEF co
      <4>1. ~(x <= Len(co))
        BY <1>1, <1>2, <2>2, LenIsNat DEF Position
      <4>. QED
        BY <1>2, <4>1, ByteAt
    <3>2. At(rs[choices[1]], x) = {}
      BY <1>1, <2>2, ByteAt
    <3>3. Common(rs, choices, K, x) = {}
      BY <1>1, <3>2 DEF Common
    <3>. QED
      BY <3>1, <3>3
  <2>. QED
    BY <2>1, <2>2
<1>6. FirstOp(CoAndOp, K)
  <2>. HIDE DEF co, K
  <2>1. CoAndOp = str_or(encrypted, co)
    BY DEF CoAndOp, co
  <2>2. Len(encrypted) > Len(co)
    BY <1>1, <1>2, LenIsNat
  <2>3. /\ CoAndOp \in Str /\ Len(CoAndOp) = Len(encrypted)
        /\ \A x \in Position : At(CoAndOp, x) = At(encrypted, x) \cup At(co, x)
    BY <1>1, <1>2, <2>1, <2>2, OrBytes
  <2>. QED
    BY <1>5, <2>3 DEF FirstOp
<1>7. ASSUME NEW x \in Position, x <= width PROVE At(coNot, x) = Neither(rs, choices, K, x)
  BY <1>3, <1>7 DEF Gathered
<1>8. Len(coNot) = width
  <2>. HIDE DEF coNot
  <2>0. Len(coNot) \in Nat
    BY <1>3, LenIsNat
  <2>1. SUFFICES ASSUME width > 0 PROVE width <= Len(coNot)
    BY <1>1, <1>3, <2>0
  <2>2. width \in Position /\ width <= width
    BY <1>1, <2>1 DEF Position
  <2>3. PICK top \in Bits : \A j \in 1..n, x \in Position : top \notin At(rs[j], x)
    BY RandomsLeaveABit
  <2>4. top \in Neither(rs, choices, K, width)
    BY <2>2, <2>3, ChoicesAre DEF Neither
  <2>. HIDE DEF K
  <2>5. At(coNot, width) # {}
    BY <1>7, <2>2, <2>4
  <2>. QED
    BY <1>3, <2>2, <2>5, Within
<1>9. SecondOpUpTo(CoAndNotOp, K, width)
  <2>1. /\ c_or \in Combiners /\ \A p, q \in Byte : c_or[<<p, q>>] = p \cup q
        /\ char_self \in Fillers /\ \A p \in Byte : char_self[p] = p
        /\ char_255 \in Fillers /\ \A p \in Byte : char_255[p] = Bits
    BY ByteOps
  <2>. DEFINE r == CoAndNotOp
  <2>. HIDE DEF coNot, notE, K, e
  <2>2. IsOpOf(r, notE, coNot, c_or, TRUE, TRUE, char_255, char_self)
    BY <1>3, <1>4, <2>1, OpBytes DEF CoAndNotOp, coNot, notE
  <2>. HIDE DEF r
  <2>3. ASSUME NEW x \in Position, x <= width
        PROVE  At(r, x) = (Bits \ At(encrypted, x)) \cup Neither(rs, choices, K, x)
    <3>1. x <= e /\ x <= Len(coNot)
      BY <1>1, <1>8, <2>3 DEF Position
    <3>2. /\ At(notE, x) \in Byte /\ (~(x <= Len(notE)) => At(notE, x) = {})
          /\ At(coNot, x) \in Byte
      BY <1>3, <1>4, ByteAt
    <3>3. At(r, x) = IF x <= Len(notE) /\ x <= Len(coNot) THEN c_or[<<At(notE, x), At(coNot, x)>>]
                     ELSE IF x <= Len(notE) /\ TRUE THEN char_255[At(notE, x)]
                     ELSE IF x <= Len(coNot) /\ TRUE THEN char_self[At(coNot, x)]
                     ELSE {}
      BY <2>2 DEF IsOpOf
    <3>4. At(r, x) = At(notE, x) \cup At(coNot, x)
      BY <2>1, <3>1, <3>2, <3>3
    <3>. QED
      BY <1>4, <1>7, <2>3, <3>1, <3>4
  <2>4. r \in Str
    BY <2>2 DEF IsOpOf
  <2>5. Len(r) >= width
    <3>1. SUFFICES ASSUME Len(r) < width PROVE FALSE
      BY <1>1, <2>4, LenIsNat
    <3>2. Len(notE) = width
      BY <1>1, <1>3, <1>4, <1>8, <2>2, <3>1, LenIsNat DEF IsOpOf
    <3>3. width \in Position /\ width <= width /\ At(r, width) = {}
      BY <1>1, <2>4, <3>1, LenIsNat, ByteAt, SMTT(40) DEF Position
    <3>4. PICK top \in Bits : \A j \in 1..n, x \in Position : top \notin At(rs[j], x)
      BY RandomsLeaveABit
    <3>5. top \in Neither(rs, choices, K, width)
      BY <3>3, <3>4, ChoicesAre DEF Neither, K
    <3>. QED
      BY <2>3, <3>3, <3>5
  <2>. QED
    BY <2>3, <2>4, <2>5 DEF SecondOpUpTo, r
<1>. QED
  BY <1>6, <1>9

-----------------------------------------------------------------------------
(* The sender finds the ciphertext again *)

\* Under a chosen message, the two ops give back the receiver's ciphertext: the
\* first holds its bits that the random message has not, the second the bits of
\* the random message that it has not.
LEMMA CiphertextIsBack ==
  ASSUME TypeOK, choices # <<>>, FirstOp(op1, Len(choices)),
         SecondOpUpTo(op2, Len(choices), width), NEW j \in Chosen
  PROVE  encrypted_y(j) = encrypted
<1>. DEFINE r  == rs[j]
            t1 == str_and_not(op1, r)
            t2 == str_and(op2, r)
            t  == str_or(t1, t2)
            z  == str_xor(t, r)
            K  == Len(choices)
<1>1. PICK l \in 1..Len(choices) : j = choices[l]
  BY ChoicesAre
<1>2. /\ r \in Str /\ Len(r) = width /\ width < Len(encrypted) /\ width \in Nat
      /\ encrypted \in Str /\ Len(encrypted) \in Nat
  <2>1. j \in 1..n
    BY <1>1, ChoicesAre
  <2>. QED
    BY <2>1, SizesAre, LenIsNat
<1>3. \A x \in Position : /\ Common(rs, choices, K, x) \subseteq At(r, x)
                          /\ Neither(rs, choices, K, x) \cap At(r, x) = {}
                          /\ At(r, x) \subseteq Bits
  <2>1. \A x \in Position : /\ Common(rs, choices, K, x) \subseteq At(r, x)
                            /\ Neither(rs, choices, K, x) \cap At(r, x) = {}
    BY <1>1 DEF Common, Neither
  <2>2. \A x \in Position : At(r, x) \subseteq Bits
    BY <1>2, ByteAt DEF Byte
  <2>. QED
    BY <2>1, <2>2
<1>. HIDE DEF r, t1, t2, t, z, K
<1>4. /\ op1 \in Str /\ Len(op1) = Len(encrypted)
      /\ \A x \in Position : At(op1, x) = At(encrypted, x) \cup Common(rs, choices, K, x)
  BY DEF FirstOp, K
<1>5. /\ op2 \in Str
      /\ \A x \in Position : x <= width =>
           At(op2, x) = (Bits \ At(encrypted, x)) \cup Neither(rs, choices, K, x)
  BY DEF SecondOpUpTo, K
<1>6. /\ t1 \in Str /\ Len(t1) = Len(encrypted)
      /\ \A x \in Position : At(t1, x) = At(op1, x) \ At(r, x)
  <2>1. Len(op1) > Len(r)
    BY <1>2, <1>4
  <2>. QED
    BY <1>2, <1>4, <2>1, AndNotBytes DEF t1
<1>7. /\ t2 \in Str /\ Len(t2) <= Len(r)
      /\ \A x \in Position : At(t2, x) = At(op2, x) \cap At(r, x)
  BY <1>2, <1>5, AndBytes DEF t2
<1>8. /\ t \in Str /\ Len(t) = Len(encrypted)
      /\ \A x \in Position : At(t, x) = At(t1, x) \cup At(t2, x)
  <2>1. Len(t1) > Len(t2)
    BY <1>2, <1>6, <1>7, LenIsNat
  <2>. QED
    BY <1>6, <1>7, <2>1, OrBytes DEF t
<1>9. /\ z \in Str /\ Len(z) = Len(encrypted)
      /\ \A x \in Position : At(z, x) = (At(t, x) \ At(r, x)) \cup (At(r, x) \ At(t, x))
  <2>1. Len(t) > Len(r)
    BY <1>2, <1>8
  <2>. QED
    <3>1. z = str_xor(t, r) /\ t \in Str /\ r \in Str
      BY <1>2, <1>8 DEF z
    <3>2. /\ z \in Str
          /\ Len(t) > Len(r) => Len(z) = Len(t)
          /\ \A x \in Position : At(z, x) = (At(t, x) \ At(r, x)) \cup (At(r, x) \ At(t, x))
      BY <3>1, XorBytes
    <3>. QED
      BY <1>8, <2>1, <3>2
<1>10. ASSUME NEW x \in Position PROVE At(z, x) = At(encrypted, x)
  <2>1. At(t1, x) = At(encrypted, x) \ At(r, x)
    BY <1>3, <1>4, <1>6
  <2>2. At(t2, x) = At(r, x) \ At(encrypted, x)
    <3>1. CASE x <= width
      <4>1. At(t2, x) = ((Bits \ At(encrypted, x)) \cup Neither(rs, choices, K, x)) \cap At(r, x)
        BY <1>5, <1>7, <3>1
      <4>. QED
        BY <1>3, <4>1
    <3>2. CASE ~(x <= width)
      <4>1. At(r, x) = {}
        BY <1>2, <3>2, ByteAt
      <4>. QED
        BY <1>7, <4>1
    <3>. QED
      BY <3>1, <3>2
  <2>. QED
    BY <1>8, <1>9, <2>1, <2>2
<1>11. z = encrypted
  BY <1>2, <1>9, <1>10, SameBytes
<1>. QED
  BY <1>11, Zenon DEF encrypted_y, z, t, t1, t2, r

\* And the receiver its message.
LEMMA MessageIsBack ==
  ASSUME TypeOK, NEW j \in 1..n
  PROVE  str_xor(str_xor(y, Messages[j]), y) = Messages[j]
<1>1. Messages[j] \in Str /\ j \in DOMAIN Messages
  BY ChoicesAre, ElementOfSeq DEF n
<1>2. EndsInNoZero(Messages[j])
  <2>1. SUFFICES ASSUME Len(Messages[j]) > 0 PROVE At(Messages[j], Len(Messages[j])) # {}
    BY DEF EndsInNoZero
  <2>2. Messages[j] # <<>> /\ Len(Messages[j]) \in 1..Len(Messages[j])
    BY <1>1, <2>1, LenIsNat
  <2>. QED
    BY <1>1, <2>2, SizesAssumption DEF At
<1>3. y \in Str
  BY SizesAre
<1>. QED
  BY <1>1, <1>2, <1>3, XorTwice

-----------------------------------------------------------------------------
(* The invariant holds initially *)

LEMMA InitInv == Init => CipherInv
<1>. SUFFICES ASSUME Init PROVE CipherInv
  OBVIOUS
<1>1. /\ ops = <<>> /\ op1 = <<>> /\ op2 = <<>> /\ ys = <<>> /\ out = <<>>
      /\ pc = "encrypt" /\ i = 1
  BY DEF Init
<1>2. <<>> \in Str /\ <<>> \in Seq(Str) /\ Len(<<>>) = 0
  BY EmptySeq DEF Str
<1>3. n \in Nat
  BY CipherAssumption DEF n
<1>4. TypeOK
  BY <1>1, <1>2, <1>3 DEF Init, TypeOK
<1>5. Len(choices) \in Nat
  BY <1>4, ChoicesAre
<1>6. Progress
  BY <1>1, <1>2, <1>5 DEF Init, Progress, Encrypting, Taking
<1>7. OpsOfChoices
  BY <1>1, <1>2 DEF OpsOfChoices
<1>8. Folded
  BY <1>1 DEF Folded, Encrypting
<1>9. Returned
  <2>1. \A j \in Chosen : ~(j <= Len(ys))
    BY <1>1, <1>2, <1>3, <1>4, ChoicesAre
  <2>. QED
    BY <2>1 DEF Returned
<1>10. Taken
  BY <1>1 DEF Taken, ChosenArrive
<1>. QED
  BY <1>4, <1>6, <1>7, <1>8, <1>9, <1>10 DEF CipherInv

-----------------------------------------------------------------------------
(* Every step keeps it *)

\* What no step changes but one that changes its variables.
LEMMA InputsStay ==
  ASSUME UNCHANGED inputs
  PROVE  /\ choices' = choices /\ secureMode' = secureMode /\ encrypted' = encrypted
         /\ rs' = rs /\ y' = y /\ Chosen' = Chosen /\ CoAndOp' = CoAndOp /\ CoAndNotOp' = CoAndNotOp
         /\ TailSurvives' = TailSurvives
BY DEF inputs, Chosen, CoAndOp, CoAndNotOp, TailSurvives

LEMMA EncryptChoiceInv == CipherInv /\ EncryptChoice => CipherInv'
<1>. SUFFICES ASSUME CipherInv, EncryptChoice PROVE CipherInv'
  OBVIOUS
<1>1. TypeOK /\ Progress /\ OpsOfChoices /\ Folded /\ Returned /\ Taken
  BY DEF CipherInv
<1>2. /\ pc = "encrypt" /\ pc' = "encrypt" /\ secureMode /\ i <= Len(choices) /\ i' = i + 1
      /\ ops' = ops \o << str_or(encrypted, rs[choices[i]]),
                          str_not_or_not(encrypted, rs[choices[i]]) >>
      /\ UNCHANGED <<inputs, op1, op2, ys, out, pc>>
  BY DEF EncryptChoice
<1>3. /\ choices' = choices /\ secureMode' = secureMode /\ encrypted' = encrypted
      /\ rs' = rs /\ y' = y /\ Chosen' = Chosen /\ TailSurvives' = TailSurvives
  BY <1>2, InputsStay
<1>4. n \in Nat /\ i \in 1..(n + 1) /\ Len(choices) \in 0..n /\ i \in 1..Len(choices)
      /\ choices[i] \in 1..n
  BY <1>1, <1>2, ChoicesAre DEF TypeOK
<1>. DEFINE a == str_or(encrypted, rs[choices[i]])
            b == str_not_or_not(encrypted, rs[choices[i]])
<1>5. a \in Str /\ b \in Str
  BY <1>1, <1>4, OpsOfOne
<1>. HIDE DEF a, b
<1>6. /\ ops \in Seq(Str) /\ Len(ops) = 2 * (i - 1) /\ ys = <<>> /\ out = <<>>
  BY <1>1, <1>2 DEF TypeOK, Progress, Encrypting, Taking
<1>7. /\ ops' \in Seq(Str) /\ Len(ops') = 2 * i
      /\ \A x \in 1..(2 * (i - 1)) : ops'[x] = ops[x]
      /\ ops'[2 * i - 1] = a /\ ops'[2 * i] = b
  <2>1. <<a, b>> \in Seq(Str) /\ Len(<<a, b>>) = 2 /\ <<a, b>>[1] = a /\ <<a, b>>[2] = b
    BY <1>5
  <2>2. ops' = ops \o <<a, b>>
    BY <1>2 DEF a, b
  <2>3. /\ ops \o <<a, b>> \in Seq(Str) /\ Len(ops \o <<a, b>>) = 2 * (i - 1) + 2
        /\ \A x \in 1..(2 * (i - 1) + 2) :
             (ops \o <<a, b>>)[x] = IF x <= 2 * (i - 1) THEN ops[x] ELSE <<a, b>>[x - 2 * (i - 1)]
    BY <1>6, <2>1, ConcatProperties
  <2>4. /\ 2 * (i - 1) + 2 = 2 * i /\ 2 * i - 1 \in 1..(2 * i) /\ 2 * i \in 1..(2 * i)
        /\ ~(2 * i - 1 <= 2 * (i - 1)) /\ ~(2 * i <= 2 * (i - 1))
        /\ (2 * i - 1) - 2 * (i - 1) = 1 /\ 2 * i - 2 * (i - 1) = 2
    BY <1>4
  <2>5. \A x \in 1..(2 * (i - 1)) : x \in 1..(2 * i) /\ x <= 2 * (i - 1)
    BY <1>4
  <2>6. ops'[2 * i - 1] = a /\ ops'[2 * i] = b
    BY <2>1, <2>2, <2>3, <2>4
  <2>7. \A x \in 1..(2 * (i - 1)) : ops'[x] = ops[x]
    BY <2>2, <2>3, <2>4, <2>5
  <2>. QED
    BY <2>2, <2>3, <2>4, <2>6, <2>7
<1>8. TypeOK'
  BY <1>1, <1>2, <1>3, <1>4, <1>7 DEF TypeOK
<1>9. Progress'
  BY <1>1, <1>2, <1>3, <1>4, <1>6, <1>7 DEF Progress, Encrypting, Taking
<1>10. OpsOfChoices'
  <2>1. ASSUME NEW j \in 1..Len(choices), 2 * j <= 2 * i
        PROVE  /\ ops'[2 * j - 1] = str_or(encrypted, rs[choices[j]])
               /\ ops'[2 * j] = str_not_or_not(encrypted, rs[choices[j]])
    <3>1. CASE j = i
      BY <1>7, <3>1 DEF a, b
    <3>2. CASE j # i
      <4>1. 2 * j <= Len(ops) /\ 2 * j \in 1..(2 * (i - 1)) /\ 2 * j - 1 \in 1..(2 * (i - 1))
        BY <1>4, <1>6, <2>1, <3>2
      <4>. QED
        BY <1>1, <1>2, <1>7, <4>1 DEF OpsOfChoices
    <3>. QED
      BY <3>1, <3>2
  <2>. QED
    BY <1>3, <1>7, <2>1 DEF OpsOfChoices
<1>11. Folded'
  BY <1>2 DEF Folded, Encrypting
<1>12. Returned'
  BY <1>1, <1>2, <1>3 DEF Returned
<1>13. Taken'
  BY <1>2 DEF Taken, ChosenArrive
<1>. QED
  BY <1>8, <1>9, <1>10, <1>11, <1>12, <1>13 DEF CipherInv

LEMMA EncryptEndInv == CipherInv /\ EncryptEnd => CipherInv'
<1>. SUFFICES ASSUME CipherInv, EncryptEnd PROVE CipherInv'
  OBVIOUS
<1>1. TypeOK /\ Progress /\ OpsOfChoices /\ Folded /\ Returned /\ Taken
  BY DEF CipherInv
<1>2. /\ pc = "encrypt" /\ pc' = "check" /\ secureMode /\ i > Len(choices)
      /\ UNCHANGED <<inputs, ops, op1, op2, ys, out, i>>
  BY DEF EncryptEnd
<1>3. /\ choices' = choices /\ secureMode' = secureMode /\ encrypted' = encrypted
      /\ rs' = rs /\ y' = y /\ Chosen' = Chosen /\ TailSurvives' = TailSurvives
  BY <1>2, InputsStay
<1>4. n \in Nat /\ i \in 1..(n + 1) /\ Len(choices) \in 0..n
  BY <1>1, ChoicesAre DEF TypeOK
<1>5. TypeOK'
  BY <1>1, <1>2, <1>3 DEF TypeOK
<1>6. Progress'
  BY <1>1, <1>2, <1>3, <1>4 DEF Progress, Encrypting, Taking
<1>7. OpsOfChoices'
  BY <1>1, <1>2, <1>3 DEF OpsOfChoices
<1>8. Folded'
  BY <1>2 DEF Folded, Encrypting
<1>9. Returned'
  BY <1>1, <1>2, <1>3 DEF Returned
<1>10. Taken'
  BY <1>2 DEF Taken, ChosenArrive
<1>. QED
  BY <1>5, <1>6, <1>7, <1>8, <1>9, <1>10 DEF CipherInv

LEMMA EncryptAllInv == CipherInv /\ EncryptAll => CipherInv'
<1>. SUFFICES ASSUME CipherInv, EncryptAll PROVE CipherInv'
  OBVIOUS
<1>1. TypeOK /\ Progress /\ OpsOfChoices /\ Folded /\ Returned /\ Taken
  BY DEF CipherInv
<1>2. /\ pc = "encrypt" /\ pc' = "check" /\ ~secureMode /\ ops' = <<CoAndOp, CoAndNotOp>>
      /\ UNCHANGED <<inputs, op1, op2, ys, out, i>>
  BY DEF EncryptAll
<1>3. /\ choices' = choices /\ secureMode' = secureMode /\ encrypted' = encrypted
      /\ rs' = rs /\ y' = y /\ Chosen' = Chosen /\ TailSurvives' = TailSurvives
      /\ CoAndOp' = CoAndOp /\ CoAndNotOp' = CoAndNotOp
  BY <1>2, InputsStay
<1>4. choices # <<>>
  BY <1>1, <1>2 DEF Progress
<1>5. CoAndOp \in Str /\ CoAndNotOp \in Str
  BY <1>1, <1>4, CoAndOps DEF FirstOp, SecondOpUpTo
<1>6. TypeOK'
  BY <1>1, <1>2, <1>3, <1>5 DEF TypeOK
<1>7. Progress'
  BY <1>1, <1>2, <1>3 DEF Progress, Encrypting, Taking
<1>8. OpsOfChoices'
  BY <1>2, <1>3 DEF OpsOfChoices
<1>9. Folded'
  BY <1>2 DEF Folded, Encrypting
<1>10. Returned'
  BY <1>1, <1>2, <1>3 DEF Returned
<1>11. Taken'
  BY <1>2 DEF Taken, ChosenArrive
<1>. QED
  BY <1>6, <1>7, <1>8, <1>9, <1>10, <1>11 DEF CipherInv

LEMMA RejectInv == CipherInv /\ Reject => CipherInv'
<1>. SUFFICES ASSUME CipherInv, Reject PROVE CipherInv'
  OBVIOUS
<1>1. TypeOK /\ Progress /\ OpsOfChoices /\ Folded /\ Returned /\ Taken
  BY DEF CipherInv
<1>2. /\ pc = "check" /\ pc' = "OTError"
      /\ UNCHANGED <<inputs, ops, op1, op2, ys, out, i>>
  BY DEF Reject
<1>3. /\ choices' = choices /\ secureMode' = secureMode /\ encrypted' = encrypted
      /\ rs' = rs /\ y' = y /\ Chosen' = Chosen /\ TailSurvives' = TailSurvives
      /\ CoAndOp' = CoAndOp /\ CoAndNotOp' = CoAndNotOp
  BY <1>2, InputsStay
<1>4. TypeOK'
  BY <1>1, <1>2, <1>3 DEF TypeOK
<1>5. Progress'
  BY <1>1, <1>2, <1>3 DEF Progress, Encrypting, Taking
<1>6. OpsOfChoices'
  BY <1>1, <1>2, <1>3 DEF OpsOfChoices
<1>7. Folded'
  BY <1>2 DEF Folded, Encrypting
<1>8. Returned'
  BY <1>1, <1>2, <1>3 DEF Returned
<1>9. Taken'
  BY <1>2 DEF Taken, ChosenArrive
<1>. QED
  BY <1>4, <1>5, <1>6, <1>7, <1>8, <1>9 DEF CipherInv

\* An admitted transfer has a choice, and its ops are what the fold starts from.
LEMMA AdmitInv == CipherInv /\ Admit => CipherInv'
<1>. SUFFICES ASSUME CipherInv, Admit PROVE CipherInv'
  OBVIOUS
<1>1. TypeOK /\ Progress /\ OpsOfChoices /\ Folded /\ Returned /\ Taken
  BY DEF CipherInv
<1>2. /\ pc = "check" /\ pc' = "fold" /\ i' = 1 /\ Len(ops) >= 2
      /\ op1' = ops[1] /\ op2' = ops[2]
      /\ UNCHANGED <<inputs, ops, ys, out>>
  <2>1. Len(ops) \in Nat
    BY <1>1 DEF TypeOK
  <2>. QED
    BY <2>1 DEF Admit, TooFewOrMany
<1>3. /\ choices' = choices /\ secureMode' = secureMode /\ encrypted' = encrypted
      /\ rs' = rs /\ y' = y /\ Chosen' = Chosen /\ TailSurvives' = TailSurvives
      /\ CoAndOp' = CoAndOp /\ CoAndNotOp' = CoAndNotOp
  BY <1>2, InputsStay
<1>4. n \in Nat /\ Len(choices) \in 0..n /\ choices \in Seq(Nat)
  BY <1>1, ChoicesAre
<1>5. choices # <<>> /\ Len(choices) >= 1
  <2>1. CASE secureMode
    <3>1. Len(choices) >= 1
      BY <1>1, <1>2, <1>4, <2>1 DEF Progress
    <3>. QED
      BY <1>4, <3>1
  <2>2. CASE ~secureMode
    <3>1. choices # <<>>
      BY <1>1, <2>2 DEF Progress
    <3>. QED
      BY <1>4, <3>1, EmptySeq
  <2>. QED
    BY <2>1, <2>2
<1>6. ops \in Seq(Str) /\ ops[1] \in Str /\ ops[2] \in Str
  BY <1>1, <1>2, ElementOfSeq DEF TypeOK
<1>7. TypeOK'
  BY <1>1, <1>2, <1>3, <1>4, <1>6 DEF TypeOK
<1>8. Progress'
  BY <1>1, <1>2, <1>3, <1>4, <1>5 DEF Progress, Encrypting, Taking
<1>9. OpsOfChoices'
  BY <1>1, <1>2, <1>3 DEF OpsOfChoices
<1>10. Folded'
  <2>1. CASE secureMode
    <3>1. ops[1] = str_or(encrypted, rs[choices[1]]) /\ ops[2] = str_not_or_not(encrypted, rs[choices[1]])
      BY <1>1, <1>2, <1>4, <1>5, <2>1 DEF OpsOfChoices
    <3>2. FirstOp(op1', 1) /\ SecondOp(op2', 1)
      BY <1>1, <1>2, <1>5, <3>1, OpsOfFirst
    <3>. QED
      BY <1>2, <1>3, <2>1, <3>2 DEF Folded, FirstOp, SecondOp
  <2>2. CASE ~secureMode
    <3>1. ops = <<CoAndOp, CoAndNotOp>>
      BY <1>1, <1>2, <2>2 DEF Progress
    <3>. QED
      BY <1>2, <1>3, <2>2, <3>1 DEF Folded
  <2>. QED
    BY <2>1, <2>2
<1>11. Returned'
  BY <1>1, <1>2, <1>3 DEF Returned
<1>12. Taken'
  BY <1>2 DEF Taken, ChosenArrive
<1>. QED
  BY <1>7, <1>8, <1>9, <1>10, <1>11, <1>12 DEF CipherInv

\* The fold takes the ops of the next choice in, or ends with those of all.
LEMMA FoldOpsInv == CipherInv /\ FoldOps => CipherInv'
<1>. SUFFICES ASSUME CipherInv, FoldOps PROVE CipherInv'
  OBVIOUS
<1>1. TypeOK /\ Progress /\ OpsOfChoices /\ Folded /\ Returned /\ Taken
  BY DEF CipherInv
<1>2. pc = "fold" /\ UNCHANGED <<inputs, ops, ys, out>>
  BY DEF FoldOps
<1>3. /\ choices' = choices /\ secureMode' = secureMode /\ encrypted' = encrypted
      /\ rs' = rs /\ y' = y /\ Chosen' = Chosen /\ TailSurvives' = TailSurvives
      /\ CoAndOp' = CoAndOp /\ CoAndNotOp' = CoAndNotOp
  BY <1>2, InputsStay
<1>4. /\ n \in Nat /\ Len(choices) \in 0..n /\ i \in 1..(n + 1) /\ choices # <<>>
      /\ i <= Len(choices) /\ ys = <<>> /\ out = <<>>
      /\ \A j \in 1..Len(choices) : choices[j] \in 1..n
  BY <1>1, <1>2, ChoicesAre DEF TypeOK, Progress, Encrypting, Taking
<1>5. secureMode => Len(ops) = 2 * Len(choices) /\ Len(ops) \div 2 = Len(choices)
  BY <1>1, <1>2, <1>4 DEF Progress
<1>6. ops \in Seq(Str) /\ op1 \in Str /\ op2 \in Str
  BY <1>1 DEF TypeOK
<1>7. CASE secureMode /\ i < Len(ops) \div 2
  <2>1. /\ op1' = str_and(op1, ops[2 * i + 1]) /\ op2' = str_and(op2, ops[2 * i + 2])
        /\ i' = i + 1 /\ pc' = "fold"
    BY <1>2, <1>7 DEF FoldOps
  <2>2. i < Len(choices) /\ i + 1 \in 1..Len(choices) /\ 2 * (i + 1) <= Len(ops)
        /\ 2 * (i + 1) - 1 = 2 * i + 1 /\ 2 * (i + 1) = 2 * i + 2
    BY <1>4, <1>5, <1>7
  <2>3. /\ ops[2 * i + 1] = str_or(encrypted, rs[choices[i + 1]])
        /\ ops[2 * i + 2] = str_not_or_not(encrypted, rs[choices[i + 1]])
    BY <1>1, <1>7, <2>2 DEF OpsOfChoices
  <2>4. ops[2 * i + 1] \in Str /\ ops[2 * i + 2] \in Str
    BY <1>1, <1>4, <2>2, <2>3, OpsOfOne
  <2>5. op1' \in Str /\ op2' \in Str
    BY <1>6, <2>1, <2>4, AndBytes
  <2>6. TypeOK'
    BY <1>1, <1>2, <1>3, <1>4, <2>1, <2>2, <2>5 DEF TypeOK
  <2>7. Progress'
    BY <1>1, <1>2, <1>3, <1>4, <2>1, <2>2 DEF Progress, Encrypting, Taking
  <2>8. Folded'
    <3>1. ASSUME TailSurvives PROVE FirstOp(op1', i + 1) /\ SecondOp(op2', i + 1)
      <4>1. encrypted[Len(encrypted)] # {}
        BY <1>4, <1>7, <2>2, <3>1 DEF TailSurvives
      <4>2. FirstOp(op1, i) /\ SecondOp(op2, i)
        BY <1>1, <1>2, <1>7, <3>1 DEF Folded, Encrypting
      <4>3. i \in 1..Len(choices) /\ i < Len(choices)
        BY <1>4, <2>2
      <4>. QED
        BY <1>1, <1>4, <2>1, <2>3, <4>1, <4>2, <4>3, OneMoreOp
    <3>. QED
      BY <1>3, <1>7, <2>1, <3>1 DEF Folded, FirstOp, SecondOp
  <2>9. Taken'
    BY <2>1 DEF Taken, ChosenArrive
  <2>10. OpsOfChoices' /\ Returned'
    BY <1>1, <1>2, <1>3 DEF OpsOfChoices, Returned
  <2>. QED
    BY <2>6, <2>7, <2>8, <2>9, <2>10 DEF CipherInv
<1>8. CASE ~(secureMode /\ i < Len(ops) \div 2)
  <2>1. op1' = op1 /\ op2' = op2 /\ i' = 1 /\ pc' = "decrypt"
    BY <1>2, <1>8 DEF FoldOps
  <2>2. TypeOK'
    BY <1>1, <1>2, <1>3, <1>4, <2>1 DEF TypeOK
  <2>3. Progress'
    <3>1. Len(ys) = 0
      BY <1>4
    <3>. QED
      BY <1>1, <1>2, <1>3, <1>4, <2>1, <3>1 DEF Progress, Encrypting, Taking
  <2>4. Folded'
    <3>1. secureMode => i = Len(choices)
      BY <1>4, <1>5, <1>8
    <3>. QED
      BY <1>1, <1>2, <1>3, <2>1, <3>1 DEF Folded, FirstOp, SecondOp, Encrypting
  <2>5. Taken'
    BY <2>1 DEF Taken, ChosenArrive
  <2>6. OpsOfChoices' /\ Returned'
    BY <1>1, <1>2, <1>3 DEF OpsOfChoices, Returned
  <2>. QED
    BY <2>2, <2>3, <2>4, <2>5, <2>6 DEF CipherInv
<1>. QED
  BY <1>7, <1>8

\* What the fold has left is what the sender needs, in either mode.
LEMMA FoldedOps ==
  ASSUME CipherInv, ~Encrypting, pc # "fold", TailSurvives
  PROVE  FirstOp(op1, Len(choices)) /\ SecondOpUpTo(op2, Len(choices), width)
<1>1. TypeOK /\ Progress /\ Folded /\ choices # <<>>
  BY DEF CipherInv, Progress
<1>2. CASE ~secureMode
  BY <1>1, <1>2, CoAndOps DEF Folded
<1>3. CASE secureMode
  <2>1. FirstOp(op1, Len(choices)) /\ SecondOp(op2, Len(choices))
    BY <1>1, <1>3 DEF Folded
  <2>2. width < Len(encrypted) /\ width \in Nat /\ Len(encrypted) \in Nat
    BY <1>1, SizesAre, LenIsNat
  <2>3. \A x \in Position : x <= width => x <= Len(encrypted)
    BY <2>2 DEF Position
  <2>. QED
    BY <2>1, <2>2, <2>3 DEF SecondOp, SecondOpUpTo
<1>. QED
  BY <1>2, <1>3

LEMMA DecryptMessageInv == CipherInv /\ DecryptMessage => CipherInv'
<1>. SUFFICES ASSUME CipherInv, DecryptMessage PROVE CipherInv'
  OBVIOUS
<1>1. TypeOK /\ Progress /\ OpsOfChoices /\ Folded /\ Returned /\ Taken
  BY DEF CipherInv
<1>2. pc = "decrypt" /\ UNCHANGED <<inputs, ops, op1, op2, out>>
  BY DEF DecryptMessage
<1>3. /\ choices' = choices /\ secureMode' = secureMode /\ encrypted' = encrypted
      /\ rs' = rs /\ y' = y /\ Chosen' = Chosen /\ TailSurvives' = TailSurvives
      /\ CoAndOp' = CoAndOp /\ CoAndNotOp' = CoAndNotOp
  BY <1>2, InputsStay
<1>4. /\ n \in Nat /\ Len(choices) \in 0..n /\ i \in 1..(n + 1) /\ choices # <<>>
      /\ Len(ys) = i - 1 /\ out = <<>> /\ ys \in Seq(Str)
      /\ Chosen \subseteq 1..n /\ choices \in Seq(Nat)
  BY <1>1, <1>2, ChoicesAre DEF TypeOK, Progress, Encrypting, Taking
<1>5. CASE i <= n
  <2>. DEFINE v == str_xor(rsa_pri_decrypt(encrypted_y(i)), Messages[i])
  <2>1. ys' = Append(ys, v) /\ i' = i + 1 /\ pc' = "decrypt"
    BY <1>2, <1>5 DEF DecryptMessage
  <2>2. v \in Str
    <3>1. Messages[i] \in Str
      <4>1. Messages \in Seq(Str) /\ i \in 1..Len(Messages)
        BY <1>4, <1>5, CipherAssumption DEF n
      <4>. QED
        BY <4>1, ElementOfSeq
    <3>2. rsa_pri_decrypt(encrypted_y(i)) \in Str
      BY <1>1, SizesAre, CipherAssumption, EmptySeq DEF rsa_pri_decrypt, Str
    <3>. QED
      BY <3>1, <3>2, XorBytes
  <2>3. ASSUME TailSurvives, i \in Chosen PROVE v = str_xor(y, Messages[i])
    <3>1. FirstOp(op1, Len(choices)) /\ SecondOpUpTo(op2, Len(choices), width)
      BY <1>2, <2>3, FoldedOps DEF Encrypting
    <3>2. encrypted_y(i) = encrypted
      BY <1>1, <1>4, <2>3, <3>1, CiphertextIsBack
    <3>. QED
      BY <3>2 DEF rsa_pri_decrypt
  <2>. HIDE DEF v
  <2>4. /\ ys' \in Seq(Str) /\ Len(ys') = i /\ ys'[i] = v
        /\ \A j \in 1..(i - 1) : ys'[j] = ys[j]
    BY <1>4, <2>1, <2>2, AppendProperties
  <2>5. TypeOK'
    BY <1>1, <1>2, <1>3, <1>4, <1>5, <2>1, <2>4 DEF TypeOK
  <2>6. Progress'
    BY <1>1, <1>2, <1>3, <1>4, <2>1, <2>4 DEF Progress, Encrypting, Taking
  <2>7. OpsOfChoices' /\ Folded'
    BY <1>1, <1>2, <1>3, <2>1 DEF OpsOfChoices, Folded, Encrypting, FirstOp, SecondOp
  <2>8. Returned'
    <3>1. ASSUME TailSurvives, NEW j \in Chosen, j <= i PROVE ys'[j] = str_xor(y, Messages[j])
      <4>1. j \in 1..n
        BY <1>4
      <4>2. CASE j = i
        BY <2>3, <2>4, <3>1, <4>2
      <4>3. CASE j # i
        <5>1. j \in 1..(i - 1) /\ j <= Len(ys)
          BY <1>4, <3>1, <4>1, <4>3
        <5>. QED
          BY <1>1, <2>4, <3>1, <5>1 DEF Returned
      <4>. QED
        BY <4>2, <4>3
    <3>. QED
      BY <1>3, <2>4, <3>1 DEF Returned
  <2>9. Taken'
    BY <2>1 DEF Taken, ChosenArrive
  <2>. QED
    BY <2>5, <2>6, <2>7, <2>8, <2>9 DEF CipherInv
<1>6. CASE ~(i <= n)
  <2>1. ys' = ys /\ i' = 1 /\ pc' \in {"takeChosen", "takeAll"} /\ Len(ys) = n /\ Len(out) = 0
    BY <1>2, <1>4, <1>6 DEF DecryptMessage
  <2>2. TypeOK'
    BY <1>1, <1>2, <1>3, <1>4, <2>1 DEF TypeOK
  <2>3. Progress'
    BY <1>1, <1>2, <1>3, <1>4, <2>1 DEF Progress, Encrypting, Taking
  <2>4. OpsOfChoices' /\ Folded'
    BY <1>1, <1>2, <1>3, <2>1 DEF OpsOfChoices, Folded, Encrypting, FirstOp, SecondOp
  <2>5. Returned'
    BY <1>1, <1>3, <2>1 DEF Returned
  <2>6. Taken'
    <3>1. 1..Len(out) = {} /\ \A j \in Chosen : ~(j <= Len(out))
      BY <1>4, <2>1
    <3>2. out' = out /\ pc' # "done"
      BY <1>2, <2>1
    <3>. QED
      BY <1>3, <3>1, <3>2 DEF Taken, ChosenArrive
  <2>. QED
    BY <2>2, <2>3, <2>4, <2>5, <2>6 DEF CipherInv
<1>. QED
  BY <1>4, <1>5, <1>6

\* A chosen message, once taken, is the sender's.
LEMMA TakenMessage ==
  ASSUME CipherInv, TailSurvives, Taking, NEW j \in Chosen
  PROVE  str_xor(ys[j], y) = Messages[j]
<1>1. TypeOK /\ Len(ys) = n /\ Returned
  BY DEF CipherInv, Progress
<1>2. j \in 1..n /\ n \in Nat
  BY <1>1, ChoicesAre
<1>3. ys[j] = str_xor(y, Messages[j])
  BY <1>1, <1>2 DEF Returned
<1>. QED
  BY <1>1, <1>2, <1>3, MessageIsBack

LEMMA TakeChosenInv == CipherInv /\ TakeChosen => CipherInv'
<1>. SUFFICES ASSUME CipherInv, TakeChosen PROVE CipherInv'
  OBVIOUS
<1>1. TypeOK /\ Progress /\ OpsOfChoices /\ Folded /\ Returned /\ Taken
  BY DEF CipherInv
<1>2. pc = "takeChosen" /\ UNCHANGED <<inputs, ops, op1, op2, ys>>
  BY DEF TakeChosen
<1>3. /\ choices' = choices /\ secureMode' = secureMode /\ encrypted' = encrypted
      /\ rs' = rs /\ y' = y /\ Chosen' = Chosen /\ TailSurvives' = TailSurvives
      /\ CoAndOp' = CoAndOp /\ CoAndNotOp' = CoAndNotOp
  BY <1>2, InputsStay
<1>4. /\ n \in Nat /\ Len(choices) \in 0..n /\ i \in 1..(n + 1) /\ i <= Len(choices) + 1
      /\ Len(ys) = n /\ ys \in Seq(Str) /\ out \in Seq(Str) /\ Len(out) = i - 1 /\ y \in Str
      /\ choices \in Seq(1..n) /\ choices # <<>>
  BY <1>1, <1>2, ChoicesAre, SizesAre DEF TypeOK, Progress, Encrypting, Taking
<1>5. Taking
  BY <1>2 DEF Taking
<1>6. OpsOfChoices' /\ Returned'
  BY <1>1, <1>2, <1>3 DEF OpsOfChoices, Returned
<1>7. CASE i <= Len(choices)
  <2>. DEFINE v == str_xor(ys[choices[i]], y)
  <2>1. out' = Append(out, v) /\ i' = i + 1 /\ pc' = "takeChosen"
    BY <1>2, <1>7 DEF TakeChosen
  <2>2. choices[i] \in 1..n /\ choices[i] \in Chosen
    BY <1>1, <1>4, <1>7, ChoicesAre
  <2>3. v \in Str
    <3>1. ys[choices[i]] \in Str
      BY <1>4, <2>2, ElementOfSeq
    <3>. QED
      BY <1>4, <3>1, XorBytes
  <2>4. TailSurvives => v = Messages[choices[i]]
    BY <1>5, <2>2, TakenMessage
  <2>. HIDE DEF v
  <2>5. /\ out' \in Seq(Str) /\ Len(out') = i /\ out'[i] = v
        /\ \A j \in 1..(i - 1) : out'[j] = out[j]
    BY <1>4, <2>1, <2>3, AppendProperties
  <2>6. TypeOK'
    BY <1>1, <1>2, <1>3, <1>4, <1>7, <2>1, <2>5 DEF TypeOK
  <2>7. Progress'
    BY <1>1, <1>2, <1>3, <1>4, <1>7, <2>1, <2>5 DEF Progress, Encrypting, Taking
  <2>8. Folded'
    BY <1>1, <1>2, <1>3, <2>1 DEF Folded, Encrypting, FirstOp, SecondOp
  <2>9. Taken'
    <3>1. ASSUME TailSurvives, NEW j \in 1..i PROVE out'[j] = Messages[choices[j]]
      <4>1. CASE j = i
        BY <2>4, <2>5, <3>1, <4>1
      <4>2. CASE j # i
        <5>1. j \in 1..(i - 1) /\ j \in 1..Len(out)
          BY <1>4, <4>2
        <5>. QED
          BY <1>1, <1>2, <2>5, <3>1, <5>1 DEF Taken
      <4>. QED
        BY <4>1, <4>2
    <3>. QED
      BY <1>3, <2>1, <2>5, <3>1 DEF Taken, ChosenArrive
  <2>. QED
    BY <1>6, <2>6, <2>7, <2>8, <2>9 DEF CipherInv
<1>8. CASE ~(i <= Len(choices))
  <2>1. out' = out /\ i' = i /\ pc' = "done" /\ Len(out) = Len(choices)
    BY <1>2, <1>4, <1>8 DEF TakeChosen
  <2>2. TypeOK'
    BY <1>1, <1>2, <1>3, <2>1 DEF TypeOK
  <2>3. Progress'
    BY <1>1, <1>2, <1>3, <1>4, <2>1 DEF Progress, Encrypting, Taking
  <2>4. Folded'
    BY <1>1, <1>2, <1>3, <2>1 DEF Folded, Encrypting, FirstOp, SecondOp
  <2>5. Taken'
    <3>1. ASSUME TailSurvives PROVE out = [j \in DOMAIN choices |-> Messages[choices[j]]]
      <4>1. \A j \in 1..Len(choices) : out[j] = Messages[choices[j]]
        BY <1>1, <1>2, <2>1, <3>1 DEF Taken
      <4>2. DOMAIN choices = 1..Len(choices) /\ out = [j \in 1..Len(choices) |-> out[j]]
        BY <1>4, <2>1
      <4>. QED
        BY <4>1, <4>2
    <3>. QED
      BY <1>3, <2>1, <3>1 DEF Taken, ChosenArrive
  <2>. QED
    BY <1>6, <2>2, <2>3, <2>4, <2>5 DEF CipherInv
<1>. QED
  BY <1>4, <1>7, <1>8

LEMMA TakeAllInv == CipherInv /\ TakeAll => CipherInv'
<1>. SUFFICES ASSUME CipherInv, TakeAll PROVE CipherInv'
  OBVIOUS
<1>1. TypeOK /\ Progress /\ OpsOfChoices /\ Folded /\ Returned /\ Taken
  BY DEF CipherInv
<1>2. pc = "takeAll" /\ UNCHANGED <<inputs, ops, op1, op2, ys>>
  BY DEF TakeAll
<1>3. /\ choices' = choices /\ secureMode' = secureMode /\ encrypted' = encrypted
      /\ rs' = rs /\ y' = y /\ Chosen' = Chosen /\ TailSurvives' = TailSurvives
      /\ CoAndOp' = CoAndOp /\ CoAndNotOp' = CoAndNotOp
  BY <1>2, InputsStay
<1>4. /\ n \in Nat /\ i \in 1..(n + 1) /\ Len(ys) = n /\ ys \in Seq(Str)
      /\ out \in Seq(Str) /\ Len(out) = i - 1 /\ y \in Str
      /\ Chosen \subseteq 1..n /\ choices # <<>>
  BY <1>1, <1>2, ChoicesAre, SizesAre DEF TypeOK, Progress, Encrypting, Taking
<1>5. Taking
  BY <1>2 DEF Taking
<1>6. OpsOfChoices' /\ Returned'
  BY <1>1, <1>2, <1>3 DEF OpsOfChoices, Returned
<1>7. CASE i <= Len(ys)
  <2>. DEFINE v == IF i \in Chosen THEN str_xor(ys[i], y) ELSE Junk
  <2>1. out' = Append(out, v) /\ i' = i + 1 /\ pc' = "takeAll" /\ i \in 1..n
    BY <1>2, <1>4, <1>7 DEF TakeAll
  <2>2. v \in Str
    <3>1. ys[i] \in Str
      BY <1>4, <1>7, ElementOfSeq
    <3>. QED
      BY <1>4, <3>1, XorBytes, CipherAssumption
  <2>3. TailSurvives /\ i \in Chosen => v = Messages[i]
    BY <1>5, TakenMessage
  <2>. HIDE DEF v
  <2>4. /\ out' \in Seq(Str) /\ Len(out') = i /\ out'[i] = v
        /\ \A j \in 1..(i - 1) : out'[j] = out[j]
    BY <1>4, <2>1, <2>2, AppendProperties
  <2>5. TypeOK'
    BY <1>1, <1>2, <1>3, <1>4, <2>1, <2>4 DEF TypeOK
  <2>6. Progress'
    BY <1>1, <1>2, <1>3, <1>4, <2>1, <2>4 DEF Progress, Encrypting, Taking
  <2>7. Folded'
    BY <1>1, <1>2, <1>3, <2>1 DEF Folded, Encrypting, FirstOp, SecondOp
  <2>8. Taken'
    <3>1. ASSUME TailSurvives, NEW j \in Chosen, j <= i PROVE out'[j] = Messages[j]
      <4>1. CASE j = i
        BY <2>3, <2>4, <3>1, <4>1
      <4>2. CASE j # i
        <5>1. j \in 1..(i - 1) /\ j <= Len(out)
          BY <1>4, <3>1, <4>2
        <5>. QED
          BY <1>1, <1>2, <2>4, <3>1, <5>1 DEF Taken
      <4>. QED
        BY <4>1, <4>2
    <3>. QED
      BY <1>3, <2>1, <2>4, <3>1 DEF Taken, ChosenArrive
  <2>. QED
    BY <1>6, <2>5, <2>6, <2>7, <2>8 DEF CipherInv
<1>8. CASE ~(i <= Len(ys))
  <2>1. out' = out /\ i' = i /\ pc' = "done" /\ Len(out) = n
    BY <1>2, <1>4, <1>8 DEF TakeAll
  <2>2. TypeOK'
    BY <1>1, <1>2, <1>3, <2>1 DEF TypeOK
  <2>3. Progress'
    BY <1>1, <1>2, <1>3, <1>4, <2>1 DEF Progress, Encrypting, Taking
  <2>4. Folded'
    BY <1>1, <1>2, <1>3, <2>1 DEF Folded, Encrypting, FirstOp, SecondOp
  <2>5. Taken'
    <3>1. ASSUME TailSurvives, NEW c \in Chosen PROVE out[c] = Messages[c]
      <4>1. c <= Len(out)
        BY <1>4, <2>1
      <4>. QED
        BY <1>1, <1>2, <3>1, <4>1 DEF Taken
    <3>. QED
      BY <1>3, <2>1, <3>1 DEF Taken, ChosenArrive
  <2>. QED
    BY <1>6, <2>2, <2>3, <2>4, <2>5 DEF CipherInv
<1>. QED
  BY <1>7, <1>8

LEMMA StutterInv == CipherInv /\ UNCHANGED vars => CipherInv'
<1>. SUFFICES ASSUME CipherInv, UNCHANGED vars PROVE CipherInv'
  OBVIOUS
<1>1. TypeOK /\ Progress /\ OpsOfChoices /\ Folded /\ Returned /\ Taken
  BY DEF CipherInv
<1>2. UNCHANGED <<inputs, ops, op1, op2, ys, out, pc, i>>
  BY DEF vars
<1>3. /\ choices' = choices /\ secureMode' = secureMode /\ encrypted' = encrypted
      /\ rs' = rs /\ y' = y /\ Chosen' = Chosen /\ TailSurvives' = TailSurvives
      /\ CoAndOp' = CoAndOp /\ CoAndNotOp' = CoAndNotOp
  BY <1>2, InputsStay
<1>4. TypeOK'
  BY <1>1, <1>2, <1>3 DEF TypeOK
<1>5. Progress'
  BY <1>1, <1>2, <1>3 DEF Progress, Encrypting, Taking
<1>6. OpsOfChoices' /\ Returned'
  BY <1>1, <1>2, <1>3 DEF OpsOfChoices, Returned
<1>7. Folded'
  BY <1>1, <1>2, <1>3 DEF Folded, Encrypting, FirstOp, SecondOp
<1>8. Taken'
  BY <1>1, <1>2, <1>3 DEF Taken, ChosenArrive
<1>. QED
  BY <1>4, <1>5, <1>6, <1>7, <1>8 DEF CipherInv

THEOREM CipherInvariant == Spec => []CipherInv
<1>1. Init => CipherInv
  BY InitInv
<1>2. CipherInv /\ [Next]_vars => CipherInv'
  BY EncryptChoiceInv, EncryptEndInv, EncryptAllInv, RejectInv, AdmitInv, FoldOpsInv,
     DecryptMessageInv, TakeChosenInv, TakeAllInv, StutterInv DEF Next
<1>. QED
  BY <1>1, <1>2, PTL DEF Spec

-----------------------------------------------------------------------------
(* What follows *)

\* Every variable keeps its type: no op, no key and no message is taken at an
\* index its vector does not have.
THEOREM CipherTypes == Spec => []TypeOK
<1>1. CipherInv => TypeOK
  BY DEF CipherInv
<1>. QED
  BY <1>1, CipherInvariant, PTL

\* Every chosen message arrives, in either mode, for any number of messages and
\* choices and any lengths, as long as the ciphertext keeps its last byte.
THEOREM ChosenMessagesArrive == Spec => []ChosenArriveIfTailSurvives
<1>1. CipherInv => ChosenArriveIfTailSurvives
  BY DEF CipherInv, Taken, ChosenArriveIfTailSurvives
<1>. QED
  BY <1>1, CipherInvariant, PTL

\* The ops of the choices, folded one by one, are the two that the non-secure
\* mode sends: the first to the byte, the second as far as a random message reaches.
THEOREM FoldsAgree == Spec => []ModesAgree
<1>1. ASSUME CipherInv, pc = "decrypt", secureMode, TailSurvives
      PROVE  op1 = CoAndOp /\ SubSeq(op2, 1, width) = SubSeq(CoAndNotOp, 1, width)
  <2>1. /\ TypeOK /\ choices # <<>>
        /\ FirstOp(op1, Len(choices)) /\ SecondOpUpTo(op2, Len(choices), width)
    BY <1>1, FoldedOps DEF CipherInv, Progress, Encrypting
  <2>2. FirstOp(CoAndOp, Len(choices)) /\ SecondOpUpTo(CoAndNotOp, Len(choices), width)
    BY <2>1, CoAndOps
  <2>3. op1 = CoAndOp
    <3>1. /\ op1 \in Str /\ CoAndOp \in Str /\ Len(op1) = Len(CoAndOp)
          /\ \A x \in Position : At(op1, x) = At(CoAndOp, x)
      BY <2>1, <2>2 DEF FirstOp
    <3>. QED
      BY <3>1, SameBytes
  <2>. DEFINE b == CoAndNotOp
  <2>4. /\ op2 \in Str /\ b \in Str /\ Len(op2) >= width /\ Len(b) >= width /\ width \in Nat
        /\ \A x \in Position : x <= width => At(op2, x) = At(b, x)
    BY <2>1, <2>2, SizesAre DEF SecondOpUpTo
  <2>. HIDE DEF b
  <2>5. \A x \in 1..width : op2[x] = b[x] /\ x <= Len(op2) /\ x <= Len(b)
    BY <2>4, LenIsNat DEF At, Position
  <2>6. SubSeq(op2, 1, width) = SubSeq(b, 1, width)
    BY <2>4, <2>5 DEF Str
  <2>. QED
    BY <2>3, <2>6 DEF b
<1>2. CipherInv => ModesAgree
  BY <1>1 DEF ModesAgree, width
<1>. QED
  BY <1>2, CipherInvariant, PTL
=============================================================================
