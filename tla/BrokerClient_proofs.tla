------------------------ MODULE BrokerClient_proofs ------------------------
(***************************************************************************)
(* Proofs about HttpClient and BrokerClient, for any number of calls: what *)
(* the content of a call answers, and when a broker call returns other     *)
(* messages than the chosen ones.                                          *)
(***************************************************************************)
EXTENDS BrokerClient, TLAPS, SequenceTheorems, WellFoundedInduction

USE HttpAssumption, BrokerAssumption

-----------------------------------------------------------------------------
(* Sequences that are read piece by piece *)

\* What is taken of s behind its first a elements, up to n.
LEMMA Taken ==
  ASSUME NEW S, NEW s \in Seq(S), NEW a \in Nat, NEW n \in Nat, a <= n, n <= Len(s)
  PROVE  /\ SubSeq(s, a + 1, n) \in Seq(S) /\ Len(SubSeq(s, a + 1, n)) = n - a
         /\ \A j \in 1..(n - a) : SubSeq(s, a + 1, n)[j] = s[a + j]
<1>1. \A j \in (a + 1)..n : s[j] \in S
  BY ElementOfSeq
<1>2. /\ SubSeq(s, a + 1, n) \in Seq(S)
      /\ Len(SubSeq(s, a + 1, n)) = IF a + 1 <= n THEN n - (a + 1) + 1 ELSE 0
      /\ \A j \in 1..(n - (a + 1) + 1) : SubSeq(s, a + 1, n)[j] = s[(a + 1) + j - 1]
  BY <1>1, SubSeqProperties
<1>3. n - (a + 1) + 1 = n - a /\ \A j \in 1..(n - a) : (a + 1) + j - 1 = a + j
  OBVIOUS
<1>. HIDE DEF From
<1>. QED
  BY <1>2, <1>3

\* What is left of s behind its first n elements.
LEMMA Rest ==
  ASSUME NEW S, NEW s \in Seq(S), NEW n \in Nat, n <= Len(s)
  PROVE  /\ From(s, n + 1) \in Seq(S) /\ Len(From(s, n + 1)) = Len(s) - n
         /\ \A j \in 1..(Len(s) - n) : From(s, n + 1)[j] = s[n + j]
<1>1. Len(s) \in Nat
  OBVIOUS
<1>. QED
  BY <1>1, Taken DEF From

\* Some more of what is left is taken.
LEMMA TakesMore ==
  ASSUME NEW S, NEW s \in Seq(S), NEW a \in Nat, NEW n \in Nat, a <= n, n <= Len(s),
         NEW m \in 1..Len(From(s, n + 1))
  PROVE  /\ n + m <= Len(s)
         /\ SubSeq(s, a + 1, n) \o SubSeq(From(s, n + 1), 1, m) = SubSeq(s, a + 1, n + m)
         /\ From(From(s, n + 1), m + 1) = From(s, (n + m) + 1)
<1>. DEFINE left == From(s, n + 1)
<1>1. /\ left \in Seq(S) /\ Len(left) = Len(s) - n
      /\ \A j \in 1..(Len(s) - n) : left[j] = s[n + j]
  BY Rest
<1>2. m \in 1..(Len(s) - n) /\ m \in Nat /\ m <= Len(left) /\ n + m \in Nat /\ n + m <= Len(s)
      /\ Len(s) \in Nat /\ a <= n + m
  BY <1>1
<1>. HIDE DEF left
<1>. DEFINE more == SubSeq(left, 1, m)
            taken == SubSeq(s, a + 1, n)
            all == SubSeq(s, a + 1, n + m)
<1>3. more \in Seq(S) /\ Len(more) = m /\ \A j \in 1..m : more[j] = s[n + j]
  <2>1. /\ SubSeq(left, 0 + 1, m) \in Seq(S) /\ Len(SubSeq(left, 0 + 1, m)) = m - 0
        /\ \A j \in 1..(m - 0) : SubSeq(left, 0 + 1, m)[j] = left[0 + j]
    BY <1>1, <1>2, Taken
  <2>2. \A j \in 1..m : left[j] = s[n + j]
    BY <1>1, <1>2
  <2>. QED
    BY <1>2, <2>1, <2>2
<1>4. taken \in Seq(S) /\ Len(taken) = n - a /\ \A j \in 1..(n - a) : taken[j] = s[a + j]
  BY Taken
<1>5. all \in Seq(S) /\ Len(all) = (n + m) - a /\ \A j \in 1..((n + m) - a) : all[j] = s[a + j]
  <2>. HIDE DEF all, more, taken
  <2>. QED
    BY <1>2, Taken DEF all
<1>. HIDE DEF more, taken, all
<1>6. taken \o more = all
  <2>1. /\ taken \o more \in Seq(S) /\ Len(taken \o more) = (n - a) + m
        /\ \A j \in 1..((n - a) + m) :
             (taken \o more)[j] = IF j <= n - a THEN taken[j] ELSE more[j - (n - a)]
    <3>1. /\ taken \o more \in Seq(S) /\ Len(taken \o more) = Len(taken) + Len(more)
          /\ \A j \in 1..(Len(taken) + Len(more)) :
               (taken \o more)[j] = IF j <= Len(taken) THEN taken[j] ELSE more[j - Len(taken)]
      <4>1. taken \in Seq(S) /\ more \in Seq(S)
        BY <1>3, <1>4
      <4>. QED
        BY <4>1, ConcatProperties
    <3>2. Len(taken) = n - a /\ Len(more) = m
      BY <1>3, <1>4
    <3>. QED
      BY <3>1, <3>2
  <2>2. ASSUME NEW j \in 1..((n - a) + m) PROVE (taken \o more)[j] = all[j]
    <3>1. all[j] = s[a + j]
      BY <1>2, <1>5
    <3>2. CASE j <= n - a
      BY <1>4, <2>1, <3>1, <3>2
    <3>3. CASE j > n - a
      <4>1. PICK i \in 1..m : j = (n - a) + i
        <5>1. j - (n - a) \in 1..m /\ j = (n - a) + (j - (n - a))
          BY <1>2, <3>3
        <5>. QED
          BY <5>1
      <4>2. j - (n - a) = i /\ a + j = n + i
        BY <1>2, <4>1
      <4>3. (taken \o more)[j] = more[j - (n - a)]
        BY <1>2, <2>1, <3>3
      <4>4. more[i] = s[n + i]
        BY <1>3, <4>1
      <4>. QED
        BY <3>1, <4>2, <4>3, <4>4
    <3>4. j <= n - a \/ j > n - a
      BY <1>2
    <3>. QED
      BY <3>2, <3>3, <3>4
  <2>3. Len(taken \o more) = Len(all) /\ Len(taken \o more) = (n - a) + m
    BY <1>2, <1>5, <2>1
  <2>. QED
    BY <1>5, <2>1, <2>2, <2>3, SeqEqual
<1>7. From(left, m + 1) = From(s, (n + m) + 1)
  <2>. DEFINE x == From(left, m + 1)
              y == From(s, (n + m) + 1)
  <2>1. x \in Seq(S) /\ Len(x) = Len(left) - m /\ \A j \in 1..(Len(left) - m) : x[j] = left[m + j]
    <3>1. left \in Seq(S) /\ m \in Nat /\ m <= Len(left)
      BY <1>1, <1>2
    <3>. QED
      BY <3>1, Rest
  <2>2. y \in Seq(S) /\ Len(y) = Len(s) - (n + m)
        /\ \A j \in 1..(Len(s) - (n + m)) : y[j] = s[(n + m) + j]
    BY <1>2, Rest
  <2>. HIDE DEF x, y
  <2>3. ASSUME NEW j \in 1..(Len(s) - (n + m)) PROVE x[j] = y[j]
    <3>1. m + j \in 1..(Len(s) - n) /\ n + (m + j) = (n + m) + j /\ j \in 1..(Len(left) - m)
      BY <1>1, <1>2
    <3>. QED
      BY <1>1, <2>1, <2>2, <3>1
  <2>4. Len(x) = Len(y) /\ Len(x) = Len(s) - (n + m)
    BY <1>1, <1>2, <2>1, <2>2
  <2>5. x = y
    BY <2>1, <2>2, <2>3, <2>4, SeqEqual
  <2>. QED
    BY <2>5 DEF x, y
<1>. QED
  BY <1>2, <1>6, <1>7 DEF left, more, taken, all

\* Of what was taken, the first m elements are dropped.
LEMMA DropsTaken ==
  ASSUME NEW S, NEW s \in Seq(S), NEW a \in Nat, NEW n \in Nat, NEW m \in Nat,
         a + m <= n, n <= Len(s)
  PROVE  From(SubSeq(s, a + 1, n), m + 1) = SubSeq(s, (a + m) + 1, n)
<1>. DEFINE taken == SubSeq(s, a + 1, n)
            x == From(taken, m + 1)
            y == SubSeq(s, (a + m) + 1, n)
<1>1. taken \in Seq(S) /\ Len(taken) = n - a /\ \A j \in 1..(n - a) : taken[j] = s[a + j]
  BY Taken
<1>2. y \in Seq(S) /\ Len(y) = n - (a + m) /\ \A j \in 1..(n - (a + m)) : y[j] = s[(a + m) + j]
  <2>1. a + m \in Nat
    OBVIOUS
  <2>. HIDE DEF y, taken
  <2>. QED
    BY <2>1, Taken DEF y
<1>. HIDE DEF taken, y
<1>3. x \in Seq(S) /\ Len(x) = Len(taken) - m
      /\ \A j \in 1..(Len(taken) - m) : x[j] = taken[m + j]
  <2>1. taken \in Seq(S) /\ m \in Nat /\ m <= Len(taken)
    BY <1>1
  <2>. QED
    BY <2>1, Rest
<1>. HIDE DEF x
<1>4. ASSUME NEW j \in 1..(n - (a + m)) PROVE x[j] = y[j]
  <2>1. /\ j \in 1..(Len(taken) - m) /\ m + j \in 1..(n - a) /\ a + (m + j) = (a + m) + j
    BY <1>1
  <2>. QED
    BY <1>1, <1>2, <1>3, <2>1
<1>5. Len(x) = Len(y) /\ Len(x) = n - (a + m)
  BY <1>1, <1>2, <1>3
<1>6. x = y
  BY <1>2, <1>3, <1>4, <1>5, SeqEqual
<1>. QED
  BY <1>6 DEF x, y, taken

-----------------------------------------------------------------------------
(* What a call reads *)

Sending == {"resolve", "connect", "write"}
Reading == {"statusLine", "headers", "content"}

\* The whole answer to a request.
Whole(p, kind, a) ==
  [j \in 1..7 |-> [post |-> p, kind |-> kind, answer |-> a, part |-> Parts[j]]]

LEMMA PartNames ==
  /\ DOMAIN Parts = 1..7 /\ Len(Parts) = 7
  /\ Parts[1] = "version" /\ Parts[2] = "code" /\ Parts[3] = "eol" /\ Parts[4] = "header"
  /\ Parts[5] = "blank" /\ Parts[6] = "body1" /\ Parts[7] = "body2"
BY DEF Parts

LEMMA WholeType ==
  ASSUME NEW p \in 1..MaxPosts, NEW kind \in Kinds, NEW a \in Answers \cup {"bad"}
  PROVE  /\ Whole(p, kind, a) \in Seq(Piece) /\ Len(Whole(p, kind, a)) = 7
         /\ \A j \in 1..7 : Whole(p, kind, a)[j] =
              [post |-> p, kind |-> kind, answer |-> a, part |-> Parts[j]]
<1>1. \A j \in 1..7 : Parts[j] \in Range(Parts)
  BY PartNames DEF Range
<1>. HIDE DEF Answers
<1>2. \A j \in 1..7 : [post |-> p, kind |-> kind, answer |-> a, part |-> Parts[j]] \in Piece
  BY <1>1 DEF Piece
<1>. QED
  BY <1>2 DEF Whole

\* The server answers a request with a whole answer, and a cut one with "bad".
LEMMA AnswerIsWhole ==
  ASSUME NEW r \in Request, NEW x \in Answers
  PROVE  \E a \in Answers \cup {"bad"} : Answer(r, x) = Whole(r.post, r.kind, a)
<1>. DEFINE a == IF r.cut THEN "bad" ELSE x
<1>1. Answer(r, x) = Whole(r.post, r.kind, a)
  BY PartNames DEF Answer, Whole
<1>. QED
  BY <1>1

\* The body of an answer is its last two parts.
LEMMA BodyIsEnd ==
  ASSUME NEW p \in 1..MaxPosts, NEW kind \in Kinds, NEW a \in Answers \cup {"bad"}
  PROVE  SubSeq(Whole(p, kind, a), 6, 7) = Body(p, a, kind)
<1>. DEFINE s == Whole(p, kind, a)
            tail == SubSeq(s, 5 + 1, 7)
<1>1. /\ s \in Seq(Piece) /\ Len(s) = 7
      /\ \A j \in 1..7 : s[j] = [post |-> p, kind |-> kind, answer |-> a, part |-> Parts[j]]
  BY WholeType
<1>. HIDE DEF s
<1>2. tail \in Seq(Piece) /\ Len(tail) = 7 - 5 /\ \A j \in 1..(7 - 5) : tail[j] = s[5 + j]
  <2>1. s \in Seq(Piece) /\ 5 \in Nat /\ 7 \in Nat /\ 5 <= 7 /\ 7 <= Len(s)
    BY <1>1
  <2>. QED
    BY <2>1, Taken
<1>. HIDE DEF tail
<1>3. tail = [j \in 1..2 |-> tail[j]]
  BY <1>2
<1>4. \A j \in 1..2 : tail[j] = [post |-> p, kind |-> kind, answer |-> a, part |-> Parts[5 + j]]
  BY <1>1, <1>2
<1>5. tail = Body(p, a, kind)
  BY <1>3, <1>4 DEF Body
<1>. QED
  BY <1>5 DEF tail, s

\* The types of HttpClient, and what they need: requests to send are those of
\* the calls so far, and a call in progress is not complete yet.
HttpInv ==
  /\ HttpTypeOK
  /\ \A i \in 1..Len(request_) : request_[i].post <= posts
  /\ handler \in Sending => request_ # <<>>
  /\ handler # "returned" => posts > 0 /\ posts \notin complete
  /\ posts = 0 => request_ = <<>> /\ response_ = <<>>
  /\ posts > 0 => oldest > 0

\* The kind of the request a broker call awaits the answer to.
Awaiting == pc \in {"key", "randomMsgs", "decryptedYOps"}
Own == CASE pc = "key" -> "key" [] pc = "randomMsgs" -> "values" [] OTHER -> "bytes"

OldestKind(kind) == kind \in Kinds /\ (oldest = posts /\ Awaiting => kind = Own)

\* n pieces of the answer to the oldest request are read.
ReadsAnswer(kind, a, n) ==
  LET s == Whole(oldest, kind, a) IN
  /\ OldestKind(kind) /\ a \in Answers \cup {"bad"} /\ n \in 0..7
  /\ wire = From(s, n + 1)
  /\ handler = "statusLine" => response_ = SubSeq(s, 1, n)
  /\ handler = "headers" => a \in {"ok", "refused"} /\ n >= 3 /\ response_ = SubSeq(s, 4, n)
  /\ handler = "content" => /\ a \in {"ok", "refused"} /\ n >= 5
                            /\ response_ = <<>> /\ content = SubSeq(s, 6, n)

\* A call that started with nothing unread reads the answer to the oldest request.
ReadInv == quiet =>
  /\ handler \in Sending =>
       response_ = <<>> /\ Head(request_).post = oldest /\ OldestKind(Head(request_).kind)
  /\ handler \in Reading => request_ = <<>> /\ \E kind, a, n : ReadsAnswer(kind, a, n)
  /\ handler = "returned" /\ posts \in complete =>
       /\ request_ = <<>> /\ response_ = <<>>
       /\ \E kind, a : OldestKind(kind) /\ a \in {"ok", "refused"} /\ content = Body(oldest, a, kind)

\* After calls that all read their answer to the end, a call is its own oldest.
OwnInv == posts > 0 /\ 1..(posts - 1) \subseteq complete => quiet /\ oldest = posts

CallInv == HttpInv /\ ReadInv /\ OwnInv

-----------------------------------------------------------------------------
(* Steps of HttpClient *)

\* There is a first line.
LEMMA FirstLine ==
  ASSUME response_ \in Seq(Piece), HasLine
  PROVE  /\ LineEnd \in 1..Len(response_) /\ response_[LineEnd].part \in Lines
         /\ \A j \in 1..(LineEnd - 1) : response_[j].part \notin Lines
<1>. DEFINE T == {j \in 1..Len(response_) : response_[j].part \in Lines}
            R == OpToRel(<, Nat)
<1>1. T \subseteq Nat /\ T # {} /\ DOMAIN response_ = 1..Len(response_)
  BY DEF HasLine
<1>2. IsWellFoundedOn(R, Nat)
  BY NatLessThanWellFounded
<1>3. \A x, y \in Nat : x < y => <<x, y>> \in R
  BY DEF OpToRel
<1>. HIDE DEF R, T
<1>4. PICK x \in T : \A y \in T : ~(<<y, x>> \in R)
  BY <1>1, <1>2, WFMin
<1>5. \A y \in T : ~(y < x)
  BY <1>1, <1>3, <1>4
<1>6. /\ x \in DOMAIN response_ /\ response_[x].part \in Lines
      /\ \A j \in 1..(x - 1) : response_[j].part \notin Lines
  BY <1>1, <1>5 DEF T
<1>. QED
  BY <1>1, <1>6 DEF LineEnd

\* The two kinds of guards of the steps that read.
LEMMA EarlyParts ==
  ASSUME HttpInv
  PROVE  /\ request_ \in Seq(Request) /\ wire \in Seq(Piece) /\ response_ \in Seq(Piece)
         /\ content \in Seq(Piece) /\ posts \in Nat /\ posts <= MaxPosts
         /\ posts > 0 => oldest \in 1..posts /\ oldest \in 1..MaxPosts
BY DEF HttpInv, HttpTypeOK

\* A call puts its request behind those still to be sent.
LEMMA PostStep ==
  ASSUME CallInv, NEW kind \in Kinds, Post(kind), Awaiting', kind = Own'
  PROVE  CallInv'
<1>. DEFINE r == [post |-> posts + 1, kind |-> kind, cut |-> FALSE]
<1>0. HttpInv /\ posts \in Nat /\ posts < MaxPosts /\ request_ \in Seq(Request)
  BY EarlyParts DEF CallInv, Post
<1>1. /\ handler = "returned" /\ posts' = posts + 1 /\ request_' = Append(request_, r)
      /\ handler' = "resolve" /\ wire' = <<>> /\ oldest' = Head(request_').post
      /\ quiet' = (response_ = <<>>) /\ UNCHANGED <<response_, content, complete>>
  BY DEF Post
<1>2. r \in Request /\ r.post = posts + 1 /\ r.kind = kind
  BY <1>0 DEF Request
<1>. HIDE DEF r
<1>3. /\ request_' \in Seq(Request) /\ Len(request_') = Len(request_) + 1 /\ Len(request_) \in Nat
      /\ \A i \in 1..Len(request_) : request_'[i] = request_[i]
      /\ request_'[Len(request_) + 1] = r /\ request_' # <<>>
  BY <1>0, <1>1, <1>2, AppendProperties
<1>4. /\ Head(request_') = request_'[1]
      /\ Head(request_') = IF request_ = <<>> THEN r ELSE request_[1]
      /\ request_ # <<>> => 1 \in 1..Len(request_)
  BY <1>0, <1>3, EmptySeq
<1>5. /\ Head(request_') \in Request /\ Head(request_').post <= posts + 1
      /\ Head(request_').post = posts + 1 => Head(request_') = r
  <2>1. CASE request_ = <<>>
    BY <1>0, <1>2, <1>4, <2>1
  <2>2. CASE request_ # <<>>
    <3>1. request_[1] \in Request /\ request_[1].post <= posts
      BY <1>0, <1>4, <2>2, ElementOfSeq DEF HttpInv
    <3>2. request_[1].post \in Nat
      BY <3>1 DEF Request
    <3>. QED
      BY <1>0, <1>4, <2>2, <3>1, <3>2
  <2>. QED
    BY <2>1, <2>2
<1>6. HttpInv'
  <2>1. oldest' \in 1..(posts + 1)
    BY <1>0, <1>1, <1>5 DEF Request
  <2>2. complete \subseteq 1..posts /\ content \in Seq(Piece) /\ response_ \in Seq(Piece)
    BY <1>0 DEF HttpInv, HttpTypeOK
  <2>3. \A i \in 1..Len(request_') : request_'[i].post <= posts + 1
    <3>1. ASSUME NEW i \in 1..Len(request_) PROVE request_'[i].post <= posts + 1
      <4>1. request_[i] \in Request /\ request_[i].post <= posts
        BY <1>0, ElementOfSeq DEF HttpInv
      <4>2. request_[i].post \in Nat
        BY <4>1 DEF Request
      <4>. QED
        BY <1>0, <1>3, <4>1, <4>2
    <3>2. request_'[Len(request_) + 1].post <= posts + 1
      BY <1>0, <1>2, <1>3
    <3>. QED
      BY <1>3, <3>1, <3>2
  <2>4. HttpTypeOK'
    BY <1>0, <1>1, <1>3, <2>1, <2>2, EmptySeq DEF HttpTypeOK
  <2>. QED
    BY <1>0, <1>1, <1>3, <2>1, <2>2, <2>3, <2>4 DEF HttpInv, Sending
<1>7. (OldestKind(Head(request_).kind))'
  BY <1>1, <1>2, <1>5 DEF OldestKind, Request
<1>8. ReadInv'
  <2>1. posts + 1 \notin complete
    BY <1>0 DEF HttpInv, HttpTypeOK
  <2>. QED
    BY <1>1, <1>7, <2>1 DEF ReadInv, Sending, Reading
<1>9. OwnInv'
  <2>0. posts' - 1 = posts /\ complete' = complete
    BY <1>0, <1>1
  <2>. SUFFICES ASSUME 1..posts \subseteq complete PROVE response_ = <<>> /\ request_ = <<>>
    <3>1. response_ = <<>> /\ request_ = <<>> => quiet' /\ oldest' = posts'
      BY <1>0, <1>1, <1>2, <1>4
    <3>. QED
      BY <2>0, <3>1 DEF OwnInv
  <2>1. CASE posts = 0
    BY <1>0, <2>1 DEF HttpInv
  <2>2. CASE posts # 0
    <3>1. posts \in complete /\ 1..(posts - 1) \subseteq complete /\ posts > 0
      BY <1>0, <2>2
    <3>. QED
      BY <1>1, <3>1 DEF CallInv, ReadInv, OwnInv
  <2>. QED
    BY <2>1, <2>2
<1>. QED
  BY <1>6, <1>8, <1>9 DEF CallInv

\* A step of the call in progress: it keeps to its request and to what it began with.
InCall ==
  /\ handler # "returned" /\ UNCHANGED <<posts, oldest, quiet, brokerVars>>
  /\ complete \subseteq complete' /\ complete' \subseteq complete \cup {posts}

LEMMA OwnStep ==
  ASSUME CallInv, InCall
  PROVE  OwnInv'
<1>1. HttpInv /\ posts \in Nat
  BY EarlyParts DEF CallInv
<1>2. posts \notin 1..(posts - 1)
  BY <1>1
<1>3. 1..(posts - 1) \subseteq complete' => 1..(posts - 1) \subseteq complete
  BY <1>2 DEF InCall
<1>. QED
  BY <1>3 DEF InCall, CallInv, OwnInv

\* A call that returns early says nothing of its content.
LEMMA ReturnStep ==
  ASSUME CallInv, InCall, handler' = "returned", complete' = complete
  PROVE  ReadInv'
BY DEF InCall, CallInv, HttpInv, ReadInv, Sending, Reading

\* The handlers before an answer is there.
LEMMA SendStep ==
  ASSUME CallInv, UNCHANGED brokerVars,
         handle_resolve \/ handle_connect \/ handle_write_request
  PROVE  CallInv'
<1>0. HttpInv
  BY DEF CallInv
<1>1. handler \in Sending /\ InCall /\ UNCHANGED <<posts, response_, content, complete, oldest, quiet>>
  BY DEF handle_resolve, handle_connect, handle_write_request, GiveUp, Sending, InCall, ghosts
<1>2. OwnInv'
  BY <1>1, OwnStep
<1>3. request_ \in Seq(Request) /\ request_ # <<>> /\ posts > 0 /\ posts \notin complete
  BY <1>0, <1>1, EarlyParts DEF HttpInv, Sending
<1>4. CASE UNCHANGED <<request_, wire>> /\ handler' \in Sending \cup {"returned"}
  <2>1. HttpInv'
    BY <1>0, <1>1, <1>3, <1>4 DEF HttpInv, HttpTypeOK, Sending
  <2>2. ReadInv'
    BY <1>1, <1>3, <1>4 DEF CallInv, ReadInv, Sending, Reading, OldestKind, Own, Awaiting, InCall,
                            brokerVars
  <2>. QED
    BY <1>2, <2>1, <2>2 DEF CallInv
<1>5. ASSUME handler' = "statusLine", request_' = <<>>, NEW x \in Answers,
             wire' = Answer(Head(request_), x)
      PROVE  CallInv'
  <2>. DEFINE r == Head(request_)
  <2>1. r \in Request /\ r = request_[1] /\ 1 \in 1..Len(request_)
    BY <1>3, EmptySeq
  <2>. HIDE DEF r
  <2>2. PICK a \in Answers \cup {"bad"} : wire' = Whole(r.post, r.kind, a)
    BY <1>5, <2>1, AnswerIsWhole DEF r
  <2>3. r.post \in 1..MaxPosts /\ r.kind \in Kinds
    BY <2>1 DEF Request
  <2>4. wire' \in Seq(Piece) /\ Len(wire') = 7
    BY <2>2, <2>3, WholeType
  <2>5. HttpInv'
    BY <1>0, <1>1, <1>3, <1>5, <2>4, EmptySeq DEF HttpInv, HttpTypeOK, Sending
  <2>6. PICK kind \in Kinds : kind = r.kind
    BY <2>3
  <2>7. ASSUME quiet PROVE ReadsAnswer(kind, a, 0)'
    <3>1. response_ = <<>> /\ r.post = oldest /\ OldestKind(kind)
      BY <1>1, <2>6, <2>7 DEF CallInv, ReadInv, r
    <3>2. wire' = From(wire', 0 + 1)
      BY <2>4, SubSeqFull DEF From
    <3>3. SubSeq(wire', 1, 0) = <<>>
      BY SubSeqEmpty
    <3>. QED
      BY <1>1, <1>5, <2>2, <2>6, <3>1, <3>2, <3>3
         DEF ReadsAnswer, OldestKind, Own, Awaiting, InCall, brokerVars
  <2>8. ReadInv'
    BY <1>1, <1>5, <2>7 DEF ReadInv, Sending, Reading
  <2>. QED
    BY <1>2, <2>5, <2>8 DEF CallInv
<1>6. ASSUME GiveUp, request_' \in Seq(Request),
             \A i \in 1..Len(request_') : request_'[i].post <= posts
      PROVE  CallInv'
  <2>1. HttpInv'
    BY <1>0, <1>1, <1>3, <1>6 DEF HttpInv, HttpTypeOK, Sending, GiveUp, ghosts
  <2>2. ReadInv'
    BY <1>1, <1>6, ReturnStep DEF GiveUp
  <2>. QED
    BY <1>2, <2>1, <2>2 DEF CallInv
<1>7. ASSUME NEW sent \in 0..Len(request_)
      PROVE  LET rest == From(request_, sent + 1)
             IN /\ rest \in Seq(Request) /\ \A i \in 1..Len(rest) : rest[i].post <= posts
                /\ rest # <<>> => LET cut == [rest EXCEPT ![1].cut = TRUE]
                                  IN /\ cut \in Seq(Request)
                                     /\ \A i \in 1..Len(cut) : cut[i].post <= posts
  <2>. DEFINE rest == From(request_, sent + 1)
              cut == [rest EXCEPT ![1].cut = TRUE]
  <2>1. /\ rest \in Seq(Request) /\ Len(rest) = Len(request_) - sent
        /\ \A j \in 1..(Len(request_) - sent) : rest[j] = request_[sent + j]
    BY <1>3, <1>7, Rest
  <2>. HIDE DEF rest
  <2>2. \A i \in 1..Len(rest) : rest[i].post <= posts
    BY <1>0, <1>3, <1>7, <2>1 DEF HttpInv
  <2>3. ASSUME rest # <<>> PROVE cut \in Seq(Request) /\ \A i \in 1..Len(cut) : cut[i].post <= posts
    <3>1. rest[1] \in Request /\ 1 \in 1..Len(rest)
      BY <2>1, <2>3, EmptySeq
    <3>2. [rest[1] EXCEPT !.cut = TRUE] \in Request
          /\ [rest[1] EXCEPT !.cut = TRUE].post = rest[1].post
      BY <3>1 DEF Request
    <3>3. /\ cut \in Seq(Request) /\ Len(cut) = Len(rest)
          /\ \A i \in 1..Len(rest) : cut[i] = IF i = 1 THEN [rest[1] EXCEPT !.cut = TRUE] ELSE rest[i]
      BY <2>1, <3>1, <3>2
    <3>. QED
      BY <2>2, <3>1, <3>2, <3>3
  <2>. QED
    BY <2>1, <2>2, <2>3 DEF rest
<1>8. CASE handle_write_request
  <2>1. CASE request_' = <<>> /\ (\E x \in Answers : wire' = Answer(Head(request_), x))
             /\ handler' = "statusLine"
    BY <1>5, <2>1
  <2>2. CASE GiveUp /\ \E sent \in 0..Len(request_) :
               LET rest == From(request_, sent + 1)
               IN request_' = rest \/ (rest # <<>> /\ request_' = [rest EXCEPT ![1].cut = TRUE])
    BY <1>6, <1>7, <2>2
  <2>. QED
    BY <1>8, <2>1, <2>2 DEF handle_write_request
<1>9. CASE handle_resolve \/ handle_connect
  BY <1>4, <1>9 DEF handle_resolve, handle_connect, GiveUp, Sending
<1>. QED
  BY <1>8, <1>9

\* What the invariant says of the answer that is read.
LEMMA AnswerParts ==
  ASSUME CallInv, quiet, handler \in Reading
  PROVE  /\ request_ = <<>>
         /\ \E kind, a, n : ReadsAnswer(kind, a, n)
         /\ \A kind, a, n : ReadsAnswer(kind, a, n) =>
              LET s == Whole(oldest, kind, a) IN
              /\ s \in Seq(Piece) /\ Len(s) = 7 /\ n \in Nat /\ n <= 7
              /\ \A j \in 1..7 : s[j].part = Parts[j] /\ s[j].answer = a
<1>1. request_ = <<>> /\ (\E kind, a, n : ReadsAnswer(kind, a, n)) /\ oldest \in 1..MaxPosts
  BY EarlyParts DEF CallInv, ReadInv, HttpInv, Reading
<1>2. ASSUME NEW kind, NEW a, NEW n, ReadsAnswer(kind, a, n)
      PROVE  LET s == Whole(oldest, kind, a) IN
             /\ s \in Seq(Piece) /\ Len(s) = 7 /\ n \in Nat /\ n <= 7
             /\ \A j \in 1..7 : s[j].part = Parts[j] /\ s[j].answer = a
  <2>1. kind \in Kinds /\ a \in Answers \cup {"bad"} /\ n \in 0..7
    BY <1>2 DEF ReadsAnswer, OldestKind
  <2>2. /\ Whole(oldest, kind, a) \in Seq(Piece) /\ Len(Whole(oldest, kind, a)) = 7
        /\ \A j \in 1..7 : Whole(oldest, kind, a)[j] =
             [post |-> oldest, kind |-> kind, answer |-> a, part |-> Parts[j]]
    BY <1>1, <2>1, WholeType
  <2>. QED
    BY <2>1, <2>2
<1>. QED
  BY <1>1, <1>2

\* A handler waits for more of a line, or of the headers.
LEMMA ReceiveStep ==
  ASSUME CallInv, UNCHANGED brokerVars, Receive
  PROVE  CallInv'
<1>0. HttpInv
  BY DEF CallInv
<1>1. /\ handler \in {"statusLine", "headers"}
      /\ UNCHANGED <<posts, handler, request_, content, complete, oldest, quiet>>
  BY DEF Receive, ghosts
<1>2. PICK m \in 1..Len(wire) :
        response_' = response_ \o SubSeq(wire, 1, m) /\ wire' = From(wire, m + 1)
  BY DEF Receive
<1>3. HttpInv'
  <2>1. wire \in Seq(Piece) /\ response_ \in Seq(Piece) /\ Len(wire) \in Nat /\ posts > 0
    BY <1>0, <1>1, EarlyParts DEF HttpInv
  <2>2. m \in Nat /\ m <= Len(wire)
    BY <1>2, <2>1
  <2>3. wire' \in Seq(Piece)
    BY <1>2, <2>1, <2>2, Rest
  <2>4. SubSeq(wire, 0 + 1, m) \in Seq(Piece)
    BY <2>1, <2>2, Taken
  <2>5. response_' \in Seq(Piece)
    BY <1>2, <2>1, <2>4, ConcatProperties
  <2>. QED
    BY <1>0, <1>1, <2>1, <2>3, <2>5 DEF HttpInv, HttpTypeOK
<1>4. OwnInv'
  BY <1>1, OwnStep DEF InCall
<1>5. ASSUME quiet PROVE request_ = <<>> /\ \E kind, a, n : ReadsAnswer(kind, a, n)'
  <2>1. PICK kind, a, n : ReadsAnswer(kind, a, n)
    BY <1>1, <1>5, AnswerParts DEF Reading
  <2>. DEFINE s == Whole(oldest, kind, a)
  <2>2. s \in Seq(Piece) /\ Len(s) = 7 /\ n \in Nat /\ n <= 7 /\ wire = From(s, n + 1)
    BY <1>1, <1>5, <2>1, AnswerParts DEF Reading, ReadsAnswer
  <2>. HIDE DEF s
  <2>3. s' = s
    BY <1>1 DEF s
  <2>4. CASE handler = "statusLine"
    <3>1. response_ = SubSeq(s, 0 + 1, n) /\ 0 <= n
      BY <2>1, <2>2, <2>4 DEF ReadsAnswer, s
    <3>2. /\ n + m <= 7 /\ response_' = SubSeq(s, 0 + 1, n + m) /\ wire' = From(s, (n + m) + 1)
      <4>1. s \in Seq(Piece) /\ 0 \in Nat /\ n <= Len(s) /\ m \in 1..Len(From(s, n + 1))
        BY <1>2, <2>2
      <4>2. /\ n + m <= Len(s)
            /\ SubSeq(s, 0 + 1, n) \o SubSeq(From(s, n + 1), 1, m) = SubSeq(s, 0 + 1, n + m)
            /\ From(From(s, n + 1), m + 1) = From(s, (n + m) + 1)
        BY <2>2, <3>1, <4>1, TakesMore
      <4>. QED
        BY <1>2, <2>2, <3>1, <4>2
    <3>3. n + m \in 0..7 /\ 0 + 1 = 1
      BY <1>2, <2>2, <3>2
    <3>4. ReadsAnswer(kind, a, n + m)'
      BY <1>1, <2>1, <2>3, <2>4, <3>2, <3>3
         DEF ReadsAnswer, OldestKind, Own, Awaiting, brokerVars, s
    <3>. QED
      BY <1>1, <1>5, <3>4, AnswerParts DEF Reading
  <2>5. CASE handler = "headers"
    <3>1. response_ = SubSeq(s, 3 + 1, n) /\ 3 <= n
      BY <2>1, <2>2, <2>5 DEF ReadsAnswer, s
    <3>2. /\ n + m <= 7 /\ response_' = SubSeq(s, 3 + 1, n + m) /\ wire' = From(s, (n + m) + 1)
      <4>1. s \in Seq(Piece) /\ 3 \in Nat /\ n <= Len(s) /\ m \in 1..Len(From(s, n + 1))
        BY <1>2, <2>2
      <4>2. /\ n + m <= Len(s)
            /\ SubSeq(s, 3 + 1, n) \o SubSeq(From(s, n + 1), 1, m) = SubSeq(s, 3 + 1, n + m)
            /\ From(From(s, n + 1), m + 1) = From(s, (n + m) + 1)
        BY <2>2, <3>1, <4>1, TakesMore
      <4>. QED
        BY <1>2, <2>2, <3>1, <4>2
    <3>3. n + m \in 0..7 /\ n + m >= 3 /\ 3 + 1 = 4
      BY <1>2, <2>2, <3>1, <3>2
    <3>4. ReadsAnswer(kind, a, n + m)'
      BY <1>1, <2>1, <2>3, <2>5, <3>2, <3>3
         DEF ReadsAnswer, OldestKind, Own, Awaiting, brokerVars, s
    <3>. QED
      BY <1>1, <1>5, <3>4, AnswerParts DEF Reading
  <2>. QED
    BY <1>1, <2>4, <2>5
<1>6. ReadInv'
  BY <1>1, <1>5 DEF ReadInv, Sending, Reading
<1>. QED
  BY <1>3, <1>4, <1>6 DEF CallInv

\* The status line: with nothing unread before it, the first three parts of
\* the answer, whose code is the answer's.
LEMMA StatusStep ==
  ASSUME CallInv, UNCHANGED brokerVars, handle_read_status_line
  PROVE  CallInv'
<1>0. HttpInv
  BY DEF CallInv
<1>1. /\ handler = "statusLine" /\ HasLine /\ handler' \in {"headers", "returned"}
      /\ UNCHANGED <<posts, request_, wire, content, complete, oldest, quiet>>
  BY DEF handle_read_status_line, ghosts
<1>2. response_ \in Seq(Piece) /\ Len(response_) \in Nat /\ LineEnd \in 1..Len(response_)
      /\ DOMAIN response_ = 1..Len(response_)
  BY <1>0, <1>1, EarlyParts, FirstLine
<1>3. \A j \in 0..Len(response_) : From(response_, j + 1) \in Seq(Piece)
  <2>1. ASSUME NEW j \in 0..Len(response_) PROVE From(response_, j + 1) \in Seq(Piece)
    <3>1. j \in Nat /\ j <= Len(response_)
      BY <1>2
    <3>. QED
      BY <1>2, <3>1, Rest
  <2>. QED
    BY <2>1
<1>4. response_' \in Seq(Piece)
  <2>1. CASE response_' = From(response_, LineEnd + 1)
    BY <1>2, <1>3, <2>1
  <2>2. CASE response_' \in InvalidRests
    BY <1>2, <1>3, <2>2 DEF InvalidRests
  <2>. QED
    BY <2>1, <2>2 DEF handle_read_status_line
<1>5. HttpInv'
  BY <1>0, <1>1, <1>4 DEF HttpInv, HttpTypeOK, Sending
<1>6. InCall
  BY <1>1 DEF InCall
<1>7. OwnInv'
  BY <1>6, OwnStep
<1>8. ASSUME quiet, handler' = "headers" PROVE request_ = <<>> /\ \E kind, a, n : ReadsAnswer(kind, a, n)'
  <2>1. PICK kind, a, n : ReadsAnswer(kind, a, n)
    BY <1>1, <1>8, AnswerParts DEF Reading
  <2>. DEFINE s == Whole(oldest, kind, a)
  <2>2. /\ s \in Seq(Piece) /\ Len(s) = 7 /\ n \in Nat /\ n <= 7
        /\ \A j \in 1..7 : s[j].part = Parts[j] /\ s[j].answer = a
        /\ response_ = SubSeq(s, 1, n)
    <3>1. /\ s \in Seq(Piece) /\ Len(s) = 7 /\ n \in Nat /\ n <= 7
          /\ \A j \in 1..7 : s[j].part = Parts[j] /\ s[j].answer = a
      BY <1>1, <1>8, <2>1, AnswerParts DEF Reading
    <3>2. response_ = SubSeq(s, 1, n)
      BY <1>1, <2>1 DEF ReadsAnswer
    <3>. QED
      BY <3>1, <3>2
  <2>. HIDE DEF s
  <2>3. Len(response_) = n /\ \A j \in 1..n : response_[j] = s[j]
    <3>1. /\ Len(SubSeq(s, 0 + 1, n)) = n - 0
          /\ \A j \in 1..(n - 0) : SubSeq(s, 0 + 1, n)[j] = s[0 + j]
      <4>1. 0 \in Nat /\ 0 <= n /\ n <= Len(s)
        BY <2>2
      <4>. QED
        BY <2>2, <4>1, Taken
    <3>2. n - 0 = n /\ 0 + 1 = 1 /\ \A j \in 1..n : 0 + j = j
      BY <2>2
    <3>. QED
      BY <2>2, <3>1, <3>2
  <2>4. \A j \in 1..n : response_[j].part = Parts[j] /\ response_[j].answer = a
    BY <2>2, <2>3
  <2>5. n >= 3 /\ LineEnd = 3
    <3>1. /\ LineEnd \in 1..n /\ response_[LineEnd].part \in Lines
          /\ \A j \in 1..(LineEnd - 1) : response_[j].part \notin Lines
      BY <1>1, <1>2, <2>3, FirstLine
    <3>2. LineEnd # 1 /\ LineEnd # 2
      BY <2>4, <3>1, PartNames DEF Lines
    <3>3. LineEnd >= 3
      BY <2>2, <3>1, <3>2
    <3>4. 3 \in 1..n /\ response_[3].part \in Lines
      BY <2>2, <2>4, <3>1, <3>3, PartNames DEF Lines
    <3>. QED
      BY <2>2, <3>1, <3>3, <3>4
  <2>6. /\ ReadsAsStatus /\ response_' = From(response_, 3 + 1)
        /\ StatusAnswer \in {"ok", "refused"}
    <3>1. response_[1].part = "version" /\ response_[2].part = "code"
      BY <2>2, <2>4, <2>5, PartNames
    <3>2. ReadsAsStatus
      BY <2>5, <3>1 DEF ReadsAsStatus
    <3>. QED
      BY <1>8, <2>5, <3>2 DEF handle_read_status_line
  <2>7. StatusAnswer = a
    <3>. DEFINE code == CHOOSE j \in 1..LineEnd :
                          /\ response_[j].part = "code"
                          /\ \A i \in 1..(j - 1) : response_[i].part # "code"
    <3>1. /\ 2 \in 1..LineEnd /\ response_[2].part = "code"
          /\ \A i \in 1..(2 - 1) : response_[i].part # "code"
      BY <2>2, <2>4, <2>5, PartNames
    <3>2. code \in 1..LineEnd
      BY <3>1
    <3>. HIDE DEF code
    <3>3. response_[code].answer = a
      <4>1. code \in 1..n
        BY <2>2, <2>5, <3>2
      <4>. QED
        BY <2>4, <4>1
    <3>. QED
      BY <3>3 DEF StatusAnswer, code
  <2>8. response_' = SubSeq(s, 4, n)
    <3>1. From(SubSeq(s, 0 + 1, n), 3 + 1) = SubSeq(s, (0 + 3) + 1, n)
      <4>1. 0 \in Nat /\ 3 \in Nat /\ 0 + 3 <= n /\ n <= Len(s)
        BY <2>2, <2>5
      <4>. QED
        BY <2>2, <4>1, DropsTaken
    <3>2. 0 + 1 = 1 /\ (0 + 3) + 1 = 4
      OBVIOUS
    <3>. QED
      BY <2>2, <2>6, <3>1, <3>2
  <2>9. s' = s
    BY <1>1 DEF s
  <2>10. ReadsAnswer(kind, a, n)'
    BY <1>1, <1>8, <2>1, <2>5, <2>6, <2>7, <2>8, <2>9
       DEF ReadsAnswer, OldestKind, Own, Awaiting, brokerVars, s
  <2>. QED
    BY <1>1, <1>8, <2>10, AnswerParts DEF Reading
<1>9. ReadInv'
  <2>1. CASE handler' = "headers"
    BY <1>1, <1>8, <2>1 DEF ReadInv, Sending, Reading
  <2>2. CASE handler' = "returned"
    BY <1>1, <1>6, <2>2, ReturnStep
  <2>. QED
    BY <1>1, <2>1, <2>2
<1>. QED
  BY <1>5, <1>7, <1>9 DEF CallInv

\* The headers: what is behind the blank line is the first of the content.
LEMMA HeadersStep ==
  ASSUME CallInv, UNCHANGED brokerVars, handle_read_headers
  PROVE  CallInv'
<1>0. HttpInv
  BY DEF CallInv
<1>. DEFINE blank == CHOOSE j \in DOMAIN response_ : response_[j].part = "blank"
<1>1. /\ handler = "headers" /\ HasHead /\ handler' = "content" /\ response_' = <<>>
      /\ content' = From(response_, blank + 1)
      /\ UNCHANGED <<posts, request_, wire, complete, oldest, quiet>>
  BY DEF handle_read_headers, ghosts
<1>2. response_ \in Seq(Piece) /\ Len(response_) \in Nat /\ DOMAIN response_ = 1..Len(response_)
  BY <1>0, EarlyParts
<1>3. blank \in 1..Len(response_) /\ response_[blank].part = "blank"
  BY <1>1, <1>2 DEF HasHead
<1>. HIDE DEF blank
<1>4. content' \in Seq(Piece)
  <2>1. blank \in Nat /\ blank <= Len(response_)
    BY <1>2, <1>3
  <2>. QED
    BY <1>1, <1>2, <2>1, Rest
<1>5. HttpInv'
  BY <1>0, <1>1, <1>4, EmptySeq DEF HttpInv, HttpTypeOK, Sending
<1>6. OwnInv'
  BY <1>1, OwnStep DEF InCall
<1>7. ASSUME quiet PROVE request_ = <<>> /\ \E kind, a, n : ReadsAnswer(kind, a, n)'
  <2>1. PICK kind, a, n : ReadsAnswer(kind, a, n)
    BY <1>1, <1>7, AnswerParts DEF Reading
  <2>. DEFINE s == Whole(oldest, kind, a)
  <2>2. /\ s \in Seq(Piece) /\ Len(s) = 7 /\ n \in Nat /\ n <= 7 /\ n >= 3
        /\ \A j \in 1..7 : s[j].part = Parts[j]
        /\ response_ = SubSeq(s, 4, n)
    BY <1>1, <1>7, <2>1, AnswerParts DEF Reading, ReadsAnswer
  <2>. HIDE DEF s
  <2>3. Len(response_) = n - 3 /\ \A j \in 1..(n - 3) : response_[j] = s[3 + j]
    <3>1. 3 \in Nat /\ 3 <= n /\ n <= Len(s) /\ 3 + 1 = 4
      BY <2>2
    <3>2. /\ Len(SubSeq(s, 3 + 1, n)) = n - 3
          /\ \A j \in 1..(n - 3) : SubSeq(s, 3 + 1, n)[j] = s[3 + j]
      BY <2>2, <3>1, Taken
    <3>. QED
      BY <2>2, <3>1, <3>2
  <2>4. \A j \in 1..(n - 3) : response_[j].part = Parts[3 + j]
    BY <2>2, <2>3
  <2>5. blank = 2
    <3>1. blank \in 1..(n - 3) /\ n - 3 \in 0..4 /\ Parts[3 + blank] = "blank"
      BY <1>2, <1>3, <2>2, <2>3, <2>4
    <3>2. blank \in {1, 2, 3, 4}
      BY <3>1
    <3>3. 3 + 1 = 4 /\ 3 + 2 = 5 /\ 3 + 3 = 6 /\ 3 + 4 = 7
      OBVIOUS
    <3>. QED
      BY <3>1, <3>2, <3>3, PartNames
  <2>6. n >= 5
    BY <1>3, <2>2, <2>3, <2>5
  <2>7. content' = SubSeq(s, 6, n)
    <3>1. PICK i \in Nat, m \in Nat : i = 3 /\ m = 2
      OBVIOUS
    <3>2. i + m <= n /\ n <= Len(s) /\ i + 1 = 4 /\ m + 1 = blank + 1 /\ (i + m) + 1 = 6
      BY <2>2, <2>5, <2>6, <3>1
    <3>3. From(SubSeq(s, i + 1, n), m + 1) = SubSeq(s, (i + m) + 1, n)
      <4>1. s \in Seq(Piece) /\ n \in Nat /\ i + m <= n /\ n <= Len(s)
        BY <2>2, <3>2
      <4>. QED
        BY <4>1, DropsTaken
    <3>. QED
      BY <1>1, <2>2, <3>2, <3>3
  <2>8. s' = s
    BY <1>1 DEF s
  <2>9. ReadsAnswer(kind, a, n)'
    BY <1>1, <1>7, <2>1, <2>6, <2>7, <2>8
       DEF ReadsAnswer, OldestKind, Own, Awaiting, brokerVars, s
  <2>. QED
    BY <1>1, <1>7, <2>9, AnswerParts DEF Reading
<1>8. ReadInv'
  BY <1>1, <1>7 DEF ReadInv, Sending, Reading
<1>. QED
  BY <1>5, <1>6, <1>8 DEF CallInv

\* More of the content.
LEMMA ContentStep ==
  ASSUME CallInv, UNCHANGED brokerVars, handle_read_content
  PROVE  CallInv'
<1>0. HttpInv
  BY DEF CallInv
<1>1. /\ handler = "content"
      /\ UNCHANGED <<posts, handler, request_, response_, complete, oldest, quiet>>
  BY DEF handle_read_content, ghosts
<1>2. PICK m \in 1..Len(wire) :
        content' = content \o SubSeq(wire, 1, m) /\ wire' = From(wire, m + 1)
  BY DEF handle_read_content
<1>3. HttpInv'
  <2>1. wire \in Seq(Piece) /\ content \in Seq(Piece) /\ Len(wire) \in Nat /\ posts > 0
    BY <1>0, <1>1, EarlyParts DEF HttpInv
  <2>2. m \in Nat /\ m <= Len(wire)
    BY <1>2, <2>1
  <2>3. wire' \in Seq(Piece)
    BY <1>2, <2>1, <2>2, Rest
  <2>4. SubSeq(wire, 0 + 1, m) \in Seq(Piece)
    BY <2>1, <2>2, Taken
  <2>5. content' \in Seq(Piece)
    BY <1>2, <2>1, <2>4, ConcatProperties
  <2>. QED
    BY <1>0, <1>1, <2>1, <2>3, <2>5 DEF HttpInv, HttpTypeOK
<1>4. OwnInv'
  BY <1>1, OwnStep DEF InCall
<1>5. ASSUME quiet PROVE request_ = <<>> /\ \E kind, a, n : ReadsAnswer(kind, a, n)'
  <2>1. PICK kind, a, n : ReadsAnswer(kind, a, n)
    BY <1>1, <1>5, AnswerParts DEF Reading
  <2>. DEFINE s == Whole(oldest, kind, a)
  <2>2. /\ s \in Seq(Piece) /\ Len(s) = 7 /\ n \in Nat /\ n <= 7 /\ wire = From(s, n + 1)
        /\ content = SubSeq(s, 5 + 1, n) /\ n >= 5
    BY <1>1, <1>5, <2>1, AnswerParts DEF Reading, ReadsAnswer
  <2>. HIDE DEF s
  <2>3. s' = s
    BY <1>1 DEF s
  <2>4. /\ n + m <= 7 /\ content' = SubSeq(s, 5 + 1, n + m) /\ wire' = From(s, (n + m) + 1)
    <3>1. /\ s \in Seq(Piece) /\ 5 \in Nat /\ 5 <= n /\ n <= Len(s)
          /\ m \in 1..Len(From(s, n + 1))
      BY <1>2, <2>2
    <3>2. /\ n + m <= Len(s)
          /\ SubSeq(s, 5 + 1, n) \o SubSeq(From(s, n + 1), 1, m) = SubSeq(s, 5 + 1, n + m)
          /\ From(From(s, n + 1), m + 1) = From(s, (n + m) + 1)
      BY <2>2, <3>1, TakesMore
    <3>. QED
      BY <1>2, <2>2, <3>2
  <2>5. n + m \in 0..7 /\ n + m >= 5 /\ 5 + 1 = 6
    BY <1>2, <2>2, <2>4
  <2>6. ReadsAnswer(kind, a, n + m)'
    BY <1>1, <2>1, <2>3, <2>4, <2>5 DEF ReadsAnswer, OldestKind, Own, Awaiting, brokerVars, s
  <2>. QED
    BY <1>1, <1>5, <2>6, AnswerParts DEF Reading
<1>6. ReadInv'
  BY <1>1, <1>5 DEF ReadInv, Sending, Reading
<1>. QED
  BY <1>3, <1>4, <1>6 DEF CallInv

\* The connection ends: of a content, that is the end of the answer.
LEMMA EndStep ==
  ASSUME CallInv, UNCHANGED brokerVars, Eof \/ Reset
  PROVE  CallInv'
<1>0. HttpInv
  BY DEF CallInv
<1>1. /\ handler \in Reading /\ handler' = "returned" /\ wire' = <<>>
      /\ UNCHANGED <<posts, request_, response_, content, oldest, quiet>>
      /\ complete' = complete \/ (complete' = complete \cup {posts} /\ handler = "content" /\ wire = <<>>)
  BY DEF Eof, Reset, Reading, ghosts
<1>2. HttpInv'
  <2>1. posts \in Nat /\ posts > 0 /\ complete' \subseteq 1..posts /\ <<>> \in Seq(Piece)
    <3>1. posts \in Nat /\ posts > 0 /\ complete \subseteq 1..posts
      BY <1>0, <1>1, EarlyParts DEF HttpInv, HttpTypeOK, Reading
    <3>2. complete' \subseteq 1..posts
      <4>1. posts \in 1..posts
        BY <3>1
      <4>2. complete' \subseteq complete \cup {posts}
        BY <1>1
      <4>. QED
        BY <3>1, <4>1, <4>2
    <3>. QED
      BY <3>1, <3>2, EmptySeq
  <2>. QED
    BY <1>0, <1>1, <2>1 DEF HttpInv, HttpTypeOK, Sending
<1>3. InCall
  BY <1>1 DEF InCall, Reading
<1>4. OwnInv'
  BY <1>3, OwnStep
<1>5. ASSUME quiet, handler = "content", wire = <<>>
      PROVE  /\ request_ = <<>> /\ response_ = <<>>
             /\ \E kind, a : OldestKind(kind) /\ a \in {"ok", "refused"} /\ content = Body(oldest, a, kind)
  <2>1. PICK kind, a, n : ReadsAnswer(kind, a, n)
    BY <1>1, <1>5, AnswerParts
  <2>. DEFINE s == Whole(oldest, kind, a)
  <2>2. /\ s \in Seq(Piece) /\ Len(s) = 7 /\ n \in Nat /\ n <= 7 /\ wire = From(s, n + 1)
        /\ content = SubSeq(s, 6, n) /\ response_ = <<>>
        /\ OldestKind(kind) /\ kind \in Kinds /\ a \in {"ok", "refused"}
    BY <1>1, <1>5, <2>1, AnswerParts DEF ReadsAnswer, OldestKind
  <2>. HIDE DEF s
  <2>3. n = 7
    <3>1. n <= Len(s)
      BY <2>2
    <3>2. Len(From(s, n + 1)) = Len(s) - n
      BY <2>2, <3>1, Rest
    <3>. QED
      BY <1>5, <2>2, <3>2, EmptySeq
  <2>4. content = Body(oldest, a, kind)
    <3>1. oldest \in 1..MaxPosts /\ a \in Answers \cup {"bad"}
      BY <1>0, <1>5, <2>2, EarlyParts DEF HttpInv, Answers
    <3>. QED
      BY <2>2, <2>3, <3>1, BodyIsEnd DEF s
  <2>. QED
    BY <1>1, <1>5, <2>2, <2>4, AnswerParts
<1>6. ReadInv'
  <2>1. CASE complete' = complete
    BY <1>1, <1>3, <2>1, ReturnStep
  <2>2. CASE handler = "content" /\ wire = <<>>
    BY <1>1, <1>5, <2>2 DEF ReadInv, Sending, Reading, OldestKind, Own, Awaiting, brokerVars
  <2>. QED
    BY <1>1, <2>1, <2>2
<1>. QED
  BY <1>2, <1>4, <1>6 DEF CallInv

-----------------------------------------------------------------------------
(* Steps of BrokerClient *)

\* The types, and how far the requests of the broker's calls are.
PhaseInv ==
  /\ TypeOK
  /\ pc = "new" <=> posts = 0
  /\ pc \in {"new", "idle", "crashed"} => handler = "returned"
  /\ pc = "key" => posts = 1
  /\ pc \in {"randomMsgs", "decryptedYOps"} => posts > 1

\* What was taken out of the contents, when every request so far was answered.
ObtainedInv ==
  /\ pc \notin {"new", "key"} /\ 1 \in complete => publicKey \in {0, 1}
  /\ pc = "decryptedYOps" /\ k > 0 /\ 1..(posts - 1) \subseteq complete => rms = posts - 1
  /\ pc = "idle" /\ posts > 1 /\ k > 0 /\ 1..posts \subseteq complete =>
       rms = posts - 1 /\ (ops = posts \/ content = Body(posts, "refused", "bytes"))

BrokerInv == CallInv /\ PhaseInv /\ ObtainedInv

LEMMA BodyPost == \A p, a, kind : Body(p, a, kind)[1].post = p /\ Body(p, a, kind) # <<>>
<1>. SUFFICES ASSUME NEW p, NEW a, NEW kind
              PROVE  Body(p, a, kind)[1].post = p /\ Body(p, a, kind) # <<>>
  OBVIOUS
<1>1. DOMAIN Body(p, a, kind) = 1..2 /\ Body(p, a, kind)[1].post = p
  BY DEF Body
<1>. QED
  BY <1>1

LEMMA ParsedType ==
  ASSUME NEW kind
  PROVE  Parsed(kind) \in 0..posts \/ posts \notin Nat
<1>1. CASE \E p \in 1..posts : content = Body(p, "ok", kind)
  BY <1>1, BodyPost DEF Parsed
<1>2. CASE ~\E p \in 1..posts : content = Body(p, "ok", kind)
  BY <1>2 DEF Parsed
<1>. QED
  BY <1>1, <1>2

\* If every call so far read its answer to the end, the content is the last one's.
LEMMA OwnContent ==
  ASSUME CallInv, handler = "returned", posts > 0, 1..posts \subseteq complete
  PROVE  /\ \E kind, a : /\ kind \in Kinds /\ (Awaiting => kind = Own) /\ a \in {"ok", "refused"}
                         /\ content = Body(posts, a, kind)
         /\ \A kind : Parsed(kind) \in {0, posts}
<1>1. posts \in Nat
  BY EarlyParts DEF CallInv
<1>2. posts \in complete /\ 1..(posts - 1) \subseteq complete
  BY <1>1
<1>3. quiet /\ oldest = posts
  BY <1>2 DEF CallInv, OwnInv
<1>4. PICK kind, a : OldestKind(kind) /\ a \in {"ok", "refused"} /\ content = Body(posts, a, kind)
  BY <1>2, <1>3 DEF CallInv, ReadInv
<1>5. content[1].post = posts
  BY <1>4, BodyPost
<1>. QED
  BY <1>3, <1>4, <1>5 DEF OldestKind, Parsed

\* A broker's step that only takes something out of the content.
LEMMA TakeStep ==
  ASSUME CallInv, UNCHANGED httpVars, ~Awaiting'
  PROVE  CallInv'
<1>1. HttpInv'
  BY DEF httpVars, ghosts, CallInv, HttpInv, HttpTypeOK
<1>2. OwnInv'
  BY DEF httpVars, ghosts, CallInv, OwnInv
<1>3. \A kind : OldestKind(kind) => OldestKind(kind)'
  BY DEF OldestKind, httpVars, ghosts
<1>4. (OldestKind(Head(request_).kind)) => (OldestKind(Head(request_).kind))'
  BY DEF OldestKind, httpVars, ghosts
<1>5. \A kind, a, n : ReadsAnswer(kind, a, n) => ReadsAnswer(kind, a, n)'
  <2>1. ASSUME NEW kind, NEW a, NEW n, ReadsAnswer(kind, a, n) PROVE ReadsAnswer(kind, a, n)'
    BY <1>3, <2>1 DEF ReadsAnswer, httpVars, ghosts
  <2>. QED
    BY <2>1
<1>6. ReadInv'
  BY <1>3, <1>4, <1>5 DEF httpVars, ghosts, CallInv, ReadInv
<1>. QED
  BY <1>1, <1>2, <1>6 DEF CallInv

\* BrokerInv is inductive.
LEMMA NextBrokerInv == BrokerInv /\ [Next]_vars => BrokerInv'
<1>. SUFFICES ASSUME BrokerInv, [Next]_vars PROVE BrokerInv'
  OBVIOUS
<1>0. /\ CallInv /\ HttpInv /\ posts \in Nat /\ TypeOK
      /\ "key" \in Kinds /\ "values" \in Kinds /\ "bytes" \in Kinds
  BY EarlyParts DEF BrokerInv, CallInv, PhaseInv
<1>1. ASSUME Construct PROVE BrokerInv'
  <2>1. /\ pc = "new" /\ Post("key") /\ pc' = "key" /\ UNCHANGED <<k, publicKey, rms, ops>>
        /\ posts = 0 /\ posts' = 1
    BY <1>1 DEF Construct, Post, BrokerInv, PhaseInv
  <2>2. CallInv'
    BY <1>0, <2>1, PostStep DEF Awaiting, Own
  <2>3. PhaseInv'
    BY <1>0, <2>1, <2>2 DEF CallInv, HttpInv, PhaseInv, TypeOK
  <2>. QED
    BY <2>1, <2>2, <2>3 DEF BrokerInv, ObtainedInv
<1>2. ASSUME TakeKey PROVE BrokerInv'
  <2>1. /\ pc = "key" /\ handler = "returned" /\ publicKey' = Parsed("key") /\ pc' = "idle"
        /\ UNCHANGED <<httpVars, k, rms, ops>> /\ posts = 1
    BY <1>2 DEF TakeKey, BrokerInv, PhaseInv
  <2>2. CallInv'
    BY <1>0, <2>1, TakeStep DEF Awaiting
  <2>3. PhaseInv'
    BY <1>0, <2>1, <2>2, ParsedType DEF CallInv, HttpInv, PhaseInv, TypeOK, httpVars
  <2>4. 1 \in complete => publicKey' \in {0, 1}
    BY <1>0, <2>1, OwnContent
  <2>. QED
    BY <2>1, <2>2, <2>3, <2>4 DEF BrokerInv, ObtainedInv, httpVars, ghosts
<1>3. ASSUME SetMessages PROVE BrokerInv'
  <2>1. /\ pc = "idle" /\ k' \in 0..MaxChosen /\ Post("values") /\ pc' = "randomMsgs"
        /\ rms' = 0 /\ ops' = 0 /\ publicKey' = publicKey
        /\ posts' = posts + 1 /\ complete' = complete
    BY <1>3 DEF SetMessages, Post
  <2>2. CallInv'
    BY <1>0, <2>1, PostStep DEF Awaiting, Own
  <2>3. posts > 0
    BY <1>0, <2>1 DEF BrokerInv, PhaseInv
  <2>4. PhaseInv'
    BY <1>0, <2>1, <2>2, <2>3 DEF CallInv, HttpInv, PhaseInv, TypeOK
  <2>. QED
    BY <2>1, <2>2, <2>4 DEF BrokerInv, ObtainedInv
<1>4. ASSUME TakeRandomMsgs PROVE BrokerInv'
  <2>1. /\ pc = "randomMsgs" /\ handler = "returned" /\ rms' = Parsed("values") /\ MayGoOn(rms')
        /\ Post("bytes") /\ pc' = "decryptedYOps" /\ UNCHANGED <<k, publicKey, ops>>
        /\ posts' = posts + 1 /\ complete' = complete /\ posts > 1
    BY <1>4 DEF TakeRandomMsgs, Post, BrokerInv, PhaseInv
  <2>2. CallInv'
    BY <1>0, <2>1, PostStep DEF Awaiting, Own
  <2>3. PhaseInv'
    BY <1>0, <2>1, <2>2, ParsedType DEF CallInv, HttpInv, PhaseInv, TypeOK
  <2>4. ASSUME k > 0, 1..posts \subseteq complete PROVE rms' = posts
    <3>1. rms' # 0
      BY <1>0, <2>1, <2>4 DEF MayGoOn, TypeOK
    <3>. QED
      BY <1>0, <2>1, <2>4, <3>1, OwnContent
  <2>5. posts' - 1 = posts
    BY <1>0, <2>1
  <2>6. ObtainedInv'
    BY <2>1, <2>4, <2>5 DEF BrokerInv, ObtainedInv
  <2>. QED
    BY <2>2, <2>3, <2>6 DEF BrokerInv
<1>5. ASSUME TakeDecryptedYOps PROVE BrokerInv'
  <2>1. /\ pc = "decryptedYOps" /\ handler = "returned" /\ ops' = Parsed("bytes") /\ pc' = "idle"
        /\ UNCHANGED <<posts, complete, content, handler>>
        /\ UNCHANGED <<httpVars, k, publicKey, rms>> /\ posts > 1
    BY <1>5 DEF TakeDecryptedYOps, BrokerInv, PhaseInv, httpVars, ghosts
  <2>2. CallInv'
    BY <1>0, <2>1, TakeStep DEF Awaiting
  <2>3. PhaseInv'
    BY <1>0, <2>1, <2>2, ParsedType DEF CallInv, HttpInv, PhaseInv, TypeOK
  <2>4. ASSUME k > 0, 1..posts \subseteq complete
        PROVE  rms = posts - 1 /\ (ops' = posts \/ content = Body(posts, "refused", "bytes"))
    <3>1. rms = posts - 1
      <4>1. 1..(posts - 1) \subseteq 1..posts
        BY <1>0
      <4>. QED
        BY <2>1, <2>4, <4>1 DEF BrokerInv, ObtainedInv
    <3>2. PICK a \in {"ok", "refused"} : content = Body(posts, a, "bytes")
      BY <1>0, <2>1, <2>4, OwnContent DEF Awaiting, Own
    <3>3. CASE a = "ok"
      <4>1. posts \in 1..posts /\ content[1].post = posts
        BY <1>0, <2>1, <3>2, BodyPost
      <4>. QED
        BY <2>1, <3>1, <3>2, <3>3, <4>1 DEF Parsed
    <3>. QED
      BY <3>1, <3>2, <3>3
  <2>5. ObtainedInv'
    BY <2>1, <2>4 DEF BrokerInv, ObtainedInv
  <2>. QED
    BY <2>2, <2>3, <2>5 DEF BrokerInv
<1>6. ASSUME IndexOutOfRange PROVE BrokerInv'
  <2>1. /\ pc \in {"randomMsgs", "decryptedYOps"} /\ handler = "returned" /\ pc' = "crashed"
        /\ UNCHANGED <<httpVars, k, publicKey, rms, ops>> /\ UNCHANGED <<posts, handler, complete>>
    BY <1>6 DEF IndexOutOfRange, Crash, httpVars, ghosts
  <2>2. CallInv'
    BY <1>0, <2>1, TakeStep DEF Awaiting
  <2>3. PhaseInv'
    BY <1>0, <2>1, <2>2 DEF BrokerInv, CallInv, HttpInv, PhaseInv, TypeOK
  <2>. QED
    BY <2>1, <2>2, <2>3 DEF BrokerInv, ObtainedInv
<1>7. ASSUME Handlers, UNCHANGED brokerVars PROVE BrokerInv'
  <2>1. CallInv'
    BY <1>0, <1>7, SendStep, ReceiveStep, StatusStep, HeadersStep, ContentStep, EndStep DEF Handlers
  <2>2. /\ handler # "returned" /\ posts' = posts
        /\ complete' = complete \/ complete' = complete \cup {posts}
    BY <1>7 DEF Handlers, handle_resolve, handle_connect, handle_write_request, GiveUp, Receive,
                handle_read_status_line, handle_read_headers, handle_read_content, Eof, Reset, ghosts
  <2>3. UNCHANGED <<pc, k, publicKey, rms, ops>>
    BY <1>7 DEF brokerVars
  <2>4. PhaseInv'
    BY <1>0, <2>1, <2>2, <2>3 DEF BrokerInv, CallInv, HttpInv, PhaseInv, TypeOK
  <2>5. pc \in {"key", "randomMsgs", "decryptedYOps"}
    BY <1>0, <2>2 DEF BrokerInv, PhaseInv, TypeOK
  <2>6. pc # "key" /\ 1 \in complete' => 1 \in complete
    BY <2>2, <2>5 DEF BrokerInv, PhaseInv
  <2>7. 1..(posts - 1) \subseteq complete' => 1..(posts - 1) \subseteq complete
    <3>1. posts \notin 1..(posts - 1)
      BY <1>0
    <3>. QED
      BY <2>2, <3>1
  <2>8. ObtainedInv'
    BY <2>2, <2>3, <2>5, <2>6, <2>7 DEF BrokerInv, ObtainedInv
  <2>. QED
    BY <2>1, <2>4, <2>8 DEF BrokerInv
<1>8. ASSUME UNCHANGED vars PROVE BrokerInv'
  <2>1. UNCHANGED <<posts, handler, request_, wire, response_, content, complete, oldest, quiet,
                   pc, k, publicKey, rms, ops>>
    BY <1>8 DEF vars, httpVars, brokerVars, ghosts
  <2>2. CallInv'
    BY <1>0, <2>1 DEF CallInv, HttpInv, HttpTypeOK, ReadInv, ReadsAnswer, OldestKind, Own, Awaiting,
                      OwnInv
  <2>. QED
    BY <2>1, <2>2 DEF BrokerInv, PhaseInv, TypeOK, HttpTypeOK, ObtainedInv
<1>. QED
  BY <1>1, <1>2, <1>3, <1>4, <1>5, <1>6, <1>7, <1>8 DEF Next

LEMMA BrokerInvHolds == Spec => []BrokerInv
<1>1. Init => BrokerInv
  <2>. SUFFICES ASSUME Init PROVE BrokerInv
    OBVIOUS
  <2>1. HttpInv
    BY EmptySeq DEF Init, HttpInit, HttpInv, HttpTypeOK, Sending
  <2>2. ReadInv /\ OwnInv
    BY DEF Init, HttpInit, ReadInv, OwnInv, Sending, Reading
  <2>. QED
    BY <2>1, <2>2 DEF Init, HttpInit, BrokerInv, CallInv, PhaseInv, TypeOK, HttpInv, ObtainedInv
<1>. QED
  BY <1>1, NextBrokerInv, PTL DEF Spec

\* Every reachable state of the client is well typed.
THEOREM BrokerTypes == Spec => []TypeOK
<1>1. BrokerInv => TypeOK
  BY DEF BrokerInv, PhaseInv
<1>. QED
  BY <1>1, BrokerInvHolds, PTL

\* A call that starts with nothing unread and reads an answer to its end holds the
\* whole answer to the oldest request that was still to be sent.
THEOREM ContentIsOldest == Spec => []CompleteCallHoldsOldest
<1>1. BrokerInv => CompleteCallHoldsOldest
  BY DEF BrokerInv, CallInv, ReadInv, OldestKind, CompleteCallHoldsOldest
<1>. QED
  BY <1>1, BrokerInvHolds, PTL

\* As long as every call reads its answer to the end, each holds its own.
THEOREM CallsStayInStep == Spec => []InStep
<1>1. BrokerInv => InStep
  <2>. SUFFICES ASSUME BrokerInv, handler = "returned", posts > 0, complete = 1..posts
                PROVE  content # <<>> /\ content[1].post = posts
    BY DEF InStep
  <2>1. \E kind, a : content = Body(posts, a, kind)
    BY OwnContent DEF BrokerInv
  <2>. QED
    BY <2>1, BodyPost
<1>. QED
  BY <1>1, BrokerInvHolds, PTL

\* For any number of calls: a call of the broker returns other messages than the
\* chosen ones only after some request was refused or did not reach its end.
THEOREM WrongOnlyAfterFailure == Spec => []WrongNeedsFailure
<1>1. BrokerInv => WrongNeedsFailure
  <2>. SUFFICES ASSUME BrokerInv, Returned, k > 0, complete = 1..posts, publicKey # 0,
                       content # Body(posts, "refused", "bytes")
                PROVE  Obtained
    BY DEF WrongNeedsFailure
  <2>1. posts \in Nat /\ posts > 1 /\ pc = "idle"
    BY EarlyParts DEF BrokerInv, CallInv, Returned
  <2>2. 1 \in complete
    BY <2>1
  <2>. QED
    BY <2>1, <2>2 DEF BrokerInv, ObtainedInv, Obtained
<1>. QED
  BY <1>1, BrokerInvHolds, PTL
=============================================================================
