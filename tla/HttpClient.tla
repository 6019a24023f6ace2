----------------------------- MODULE HttpClient -----------------------------
(***************************************************************************)
(* common/http/HttpClient.hpp: an HTTP client over boost::asio.            *)
(*                                                                         *)
(* get and post put a request into request_, start the chain of handlers   *)
(* with async_resolve and run the io_context until the chain ends: the     *)
(* calls of one client come one after the other.  A handler that sees an   *)
(* error just prints it and ends the chain, so that a call returns in the  *)
(* same way however far it came.  request_, response_ and content live as  *)
(* long as the client: what one call leaves in them the next one finds.    *)
(*                                                                         *)
(* Bytes are cut where a handler can tell the difference: an answer is a   *)
(* status line in three pieces, a header line, the blank line and a body   *)
(* in two pieces that ends in '}'.                                         *)
(***************************************************************************)
EXTENDS Naturals, Sequences, SequencesExt

CONSTANTS MaxPosts,  \* bound: the calls of get and post on one client
          Kinds      \* what a request may ask for

ASSUME HttpAssumption == MaxPosts \in Nat

VARIABLES
  posts,     \* the calls so far; the last one is in progress or returned
  handler,   \* the handler the io_context waits to run, or "returned"
  request_,  \* the requests, or the ends of requests, still to be sent
  wire,      \* the pieces of the server's answer that are not read yet
  response_, \* the pieces that are read and that no handler took yet
  content,   \* what getContent returns
  complete,  \* ghost: the calls that read an answer to its end
  oldest,    \* ghost: the first request in request_ when the last call began
  quiet      \* ghost: whether response_ was empty then

ghosts   == <<complete, oldest, quiet>>
httpVars == <<posts, handler, request_, wire, response_, content, ghosts>>

Answers == {"ok", "refused", "failed"}  \* 200, 200 with an error inside, 500
Parts   == <<"version", "code", "eol", "header", "blank", "body1", "body2">>
Lines   == {"eol", "header", "blank"}   \* the parts that end in "\r\n"

Request == [post: 1..MaxPosts, kind: Kinds, cut: BOOLEAN]
Piece   == [post: 1..MaxPosts, kind: Kinds, answer: Answers \cup {"bad"}, part: Range(Parts)]

HttpTypeOK ==
  /\ posts \in 0..MaxPosts
  /\ handler \in {"returned", "resolve", "connect", "write", "statusLine", "headers", "content"}
  /\ request_ \in Seq(Request)
  /\ wire \in Seq(Piece) /\ response_ \in Seq(Piece) /\ content \in Seq(Piece)
  /\ complete \in SUBSET (1..posts)
  /\ oldest \in 0..posts
  /\ quiet \in BOOLEAN

HttpInit ==
  /\ posts = 0 /\ handler = "returned"
  /\ request_ = <<>> /\ wire = <<>> /\ response_ = <<>> /\ content = <<>>
  /\ complete = {} /\ oldest = 0 /\ quiet = TRUE

From(s, k) == SubSeq(s, k, Len(s))

\* The server answers the first request it reads, whole or not, and closes.
Answer(r, a) ==
  [k \in DOMAIN Parts |->
     [post |-> r.post, kind |-> r.kind, answer |-> IF r.cut THEN "bad" ELSE a, part |-> Parts[k]]]

-----------------------------------------------------------------------------
(* The calls, and the handlers that send *)

Post(kind) ==
  /\ handler = "returned"
  /\ posts < MaxPosts
  /\ posts' = posts + 1
  /\ request_' = Append(request_, [post |-> posts + 1, kind |-> kind, cut |-> FALSE])
  /\ handler' = "resolve"
  /\ wire' = <<>>
  /\ oldest' = Head(request_').post
  /\ quiet' = (response_ = <<>>)
  /\ UNCHANGED <<response_, content, complete>>

\* Variant: an error is kept, and the client cannot be called again.
GiveUpFailed ==
  /\ handler' = "failed"
  /\ UNCHANGED <<posts, wire, response_, content, ghosts>>

\* An error ends the chain.
GiveUp ==
  /\ handler' = "returned"
  /\ UNCHANGED <<posts, wire, response_, content, ghosts>>

handle_resolve ==
  /\ handler = "resolve"
  /\ \/ handler' = "connect" /\ UNCHANGED <<posts, wire, response_, content, ghosts>>
     \/ GiveUp
  /\ UNCHANGED request_

handle_connect ==
  /\ handler = "connect"
  /\ \/ handler' = "write" /\ UNCHANGED <<posts, wire, response_, content, ghosts>>
     \/ GiveUp
  /\ UNCHANGED request_

\* Variant: what was sent is not taken out of request_.
handle_write_request_keeping ==
  /\ handler = "write"
  /\ \/ /\ \E a \in Answers : wire' = Answer(Head(request_), a)
        /\ handler' = "statusLine"
        /\ UNCHANGED <<posts, request_, response_, content, ghosts>>
     \/ GiveUp /\ UNCHANGED request_

\* All of request_ is sent, whatever earlier calls left in it; or the
\* connection breaks and request_ keeps what was not sent.
handle_write_request ==
  /\ handler = "write"
  /\ \/ /\ request_' = <<>>
        /\ \E a \in Answers : wire' = Answer(Head(request_), a)
        /\ handler' = "statusLine"
        /\ UNCHANGED <<posts, response_, content, ghosts>>
     \/ /\ GiveUp
        /\ \E sent \in 0..Len(request_) :
             LET rest == From(request_, sent + 1)
             IN \/ request_' = rest
                \/ /\ rest # <<>>
                   /\ request_' = [rest EXCEPT ![1].cut = TRUE]

-----------------------------------------------------------------------------
(* The handlers that read *)

HasLine == \E k \in DOMAIN response_ : response_[k].part \in Lines
HasHead == \E k \in DOMAIN response_ : response_[k].part = "blank"

\* async_read_until reads on as long as its delimiter is not in response_.
Receive ==
  /\ \/ handler = "statusLine" /\ ~HasLine
     \/ handler = "headers" /\ ~HasHead
  /\ \E k \in 1..Len(wire) :
       /\ response_' = response_ \o SubSeq(wire, 1, k)
       /\ wire' = From(wire, k + 1)
  /\ UNCHANGED <<posts, handler, request_, content, ghosts>>

LineEnd == CHOOSE k \in DOMAIN response_ :
             /\ response_[k].part \in Lines
             /\ \A j \in 1..(k - 1) : response_[j].part \notin Lines

\* The line parses as a status line when it begins with a version; the code
\* is the first there is.  Only what an earlier call left in response_ makes
\* it longer than version, code and end.
StatusAnswer ==
  response_[CHOOSE k \in 1..LineEnd :
              /\ response_[k].part = "code"
              /\ \A j \in 1..(k - 1) : response_[j].part # "code"].answer

ReadsAsStatus == response_[1].part = "version" /\ \E k \in 1..LineEnd : response_[k].part = "code"

\* Any other line is "Invalid response"; operator>> takes some of it, or of
\* what follows.  It does not stop between a body and the version behind it,
\* which no white space separates.
InvalidRests ==
  {From(response_, k + 1) : k \in {k \in 0..Len(response_) :
     ~ /\ k \in 1..(Len(response_) - 1)
       /\ response_[k].part = "body2"
       /\ response_[k + 1].part = "version"}}

handle_read_status_line ==
  /\ handler = "statusLine" /\ HasLine
  /\ \/ /\ ReadsAsStatus
        /\ response_' = From(response_, LineEnd + 1)
        /\ handler' = IF StatusAnswer \in {"ok", "refused"} THEN "headers" ELSE "returned"
     \/ /\ ~(ReadsAsStatus /\ LineEnd = 3)
        /\ response_' \in InvalidRests
        /\ handler' = "returned"
  /\ UNCHANGED <<posts, request_, wire, content, ghosts>>

\* Variant: the content of the call before is not cleared.
handle_read_headers_appending ==
  /\ handler = "headers" /\ HasHead
  /\ LET blank == CHOOSE k \in DOMAIN response_ : response_[k].part = "blank"
     IN content' = content \o From(response_, blank + 1)
  /\ response_' = <<>>
  /\ handler' = "content"
  /\ UNCHANGED <<posts, request_, wire, ghosts>>

handle_read_headers ==
  /\ handler = "headers" /\ HasHead
  /\ LET blank == CHOOSE k \in DOMAIN response_ : response_[k].part = "blank"
     IN content' = From(response_, blank + 1)
  /\ response_' = <<>>
  /\ handler' = "content"
  /\ UNCHANGED <<posts, request_, wire, ghosts>>

handle_read_content ==
  /\ handler = "content"
  /\ \E k \in 1..Len(wire) :
       /\ content' = content \o SubSeq(wire, 1, k)
       /\ wire' = From(wire, k + 1)
  /\ UNCHANGED <<posts, handler, request_, response_, ghosts>>

\* The server closed the connection: the end of the content, and an error
\* for every other handler.
Eof ==
  /\ \/ handler = "statusLine" /\ ~HasLine
     \/ handler = "headers" /\ ~HasHead
     \/ handler = "content"
  /\ wire = <<>>
  /\ handler' = "returned"
  /\ complete' = IF handler = "content" THEN complete \cup {posts} ELSE complete
  /\ UNCHANGED <<posts, request_, wire, response_, content, oldest, quiet>>

\* The connection breaks before the rest of the answer is read.
Reset ==
  /\ \/ handler = "statusLine" /\ ~HasLine
     \/ handler = "headers" /\ ~HasHead
     \/ handler = "content"
  /\ wire # <<>>
  /\ wire' = <<>>
  /\ handler' = "returned"
  /\ UNCHANGED <<posts, request_, response_, content, ghosts>>

Handlers ==
  \/ handle_resolve \/ handle_connect \/ handle_write_request
  \/ Receive \/ handle_read_status_line \/ handle_read_headers \/ handle_read_content
  \/ Eof \/ Reset

-----------------------------------------------------------------------------
(* Properties *)

Body(p, answer, kind) ==
  [k \in 1..2 |-> [post |-> p, kind |-> kind, answer |-> answer, part |-> Parts[5 + k]]]

\* A call that starts with nothing unread and reads an answer to its end holds
\* the whole answer to the oldest request that was still to be sent, which is
\* its own unless an earlier call failed to send; both buffers are then empty
\* ("treat all data up until the EOF as the content", HttpClient.hpp:41).
CompleteCallHoldsOldest ==
  handler = "returned" /\ quiet /\ posts \in complete =>
    /\ \E a \in {"ok", "refused"}, kind \in Kinds : content = Body(oldest, a, kind)
    /\ request_ = <<>> /\ response_ = <<>>

\* As long as every call reads its answer to the end, each holds its own.
InStep == handler = "returned" /\ posts > 0 /\ complete = 1..posts =>
            content # <<>> /\ content[1].post = posts
=============================================================================
