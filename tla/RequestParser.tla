--------------------------- MODULE RequestParser ---------------------------
(***************************************************************************)
(* common/http/request_parser: the parser of common/http/server, one       *)
(* character at a time, and the grammar of the requests it should accept.  *)
(*                                                                         *)
(* Characters are those of Char, one or two of each class the parser tells *)
(* apart.  Of what it fills in, the request, only the header list matters  *)
(* to it, and of that only whether it is empty.                            *)
(***************************************************************************)
EXTENDS Naturals, Sequences, FiniteSetsExt, SequencesExt

Char     == {"H", "T", "P", "/", "1", ".", "a", ":", "SP", "TAB", "CR", "LF", "high"}
Ctl      == {"TAB", "CR", "LF"}
Tspecial == {"/", ":", "SP", "TAB"}
Digit    == {"1"}
Token    == Char \ (Ctl \cup Tspecial \cup {"high"})  \* is_char is false of high bytes
Text     == Char \ Ctl                                \* and so is is_ctl

\* Where each state goes on which characters, the first that fits; on any
\* other character the request is malformed.
RequestLineMoves ==
  [method_start              |-> << <<Token, "method">> >>,
   method                    |-> << <<{"SP"}, "uri">>, <<Token, "method">> >>,
   uri                       |-> << <<{"SP"}, "http_version_h">>, <<Text, "uri">> >>,
   http_version_h            |-> << <<{"H"}, "http_version_t_1">> >>,
   http_version_t_1          |-> << <<{"T"}, "http_version_t_2">> >>,
   http_version_t_2          |-> << <<{"T"}, "http_version_p">> >>,
   http_version_p            |-> << <<{"P"}, "http_version_slash">> >>,
   http_version_slash        |-> << <<{"/"}, "http_version_major_start">> >>,
   http_version_major_start  |-> << <<Digit, "http_version_major">> >>,
   http_version_major        |-> << <<{"."}, "http_version_minor_start">>,
                                    <<Digit, "http_version_major">> >>,
   http_version_minor_start  |-> << <<Digit, "http_version_minor">> >>,
   http_version_minor        |-> << <<{"CR"}, "expecting_newline_1">>,
                                    <<Digit, "http_version_minor">> >>,
   expecting_newline_1       |-> << <<{"LF"}, "header_line_start">> >>]

HeaderMoves ==
  [header_line_start         |-> << <<{"CR"}, "expecting_newline_3">>,
                                    <<Token, "header_name">> >>,
   header_lws                |-> << <<{"CR"}, "expecting_newline_2">>,
                                    <<{"SP", "TAB"}, "header_lws">>, <<Text, "header_value">> >>,
   header_name               |-> << <<{":"}, "space_before_header_value">>,
                                    <<Token, "header_name">> >>,
   space_before_header_value |-> << <<{"SP"}, "header_value">> >>,
   header_value              |-> << <<{"CR"}, "expecting_newline_2">>, <<Text, "header_value">> >>,
   expecting_newline_2       |-> << <<{"LF"}, "header_line_start">> >>,
   expecting_newline_3       |-> << <<{"LF"}, "true">> >>]

Moves ==
  [q \in DOMAIN RequestLineMoves \cup DOMAIN HeaderMoves |->
     IF q \in DOMAIN RequestLineMoves THEN RequestLineMoves[q] ELSE HeaderMoves[q]]

ParserStates == DOMAIN Moves \cup {"true", "false"}
Parser       == [state : ParserStates, headers : BOOLEAN]
NewParser    == [state |-> "method_start", headers |-> FALSE]

\* Where the first of the moves that fits a character leads.
FirstFit(moves, c) ==
  LET fits == {i \in DOMAIN moves : c \in moves[i][1]}
  IN IF fits = {} THEN "false" ELSE moves[Min(fits)][2]

\* Variant: white space continues a header even if there is none.
consumeAnyLws ==
  [x \in Parser \X Char |->
     LET p == x[1]
         next == CASE p.state \in {"true", "false"} -> p.state
                   [] p.state = "header_line_start" /\ x[2] \in {"SP", "TAB"} -> "header_lws"
                   [] OTHER -> FirstFit(Moves[p.state], x[2])
     IN [state |-> next, headers |-> p.headers \/ next = "header_name"]]

\* The state after one more character: "true" and "false" are its verdicts,
\* any other state stands for indeterminate.  What follows a verdict is not
\* looked at.
consume ==
  [x \in Parser \X Char |->
     LET p == x[1]
         next == CASE p.state \in {"true", "false"} -> p.state
                   [] p.state = "header_line_start" /\ x[2] \in {"SP", "TAB"} /\ p.headers -> "header_lws"
                   [] OTHER -> FirstFit(Moves[p.state], x[2])
     IN [state |-> next, headers |-> p.headers \/ next = "header_name"]]

\* One chunk.
parse(p, chunk) ==
  LET after[i \in 0..Len(chunk)] == IF i = 0 THEN p ELSE consume[<<after[i - 1], chunk[i]>>]
  IN after[Len(chunk)]

-----------------------------------------------------------------------------
(* The grammar *)

All(s, chars)       == ToSet(s) \subseteq chars
Literal             == <<"H", "T", "T", "P", "/">>
Digits(s)           == s # <<>> /\ All(s, Digit)
Upto(s, i)          == SubSeq(s, 1, i - 1)
After(s, i)         == SubSeq(s, i + 1, Len(s))

Version(s) ==
  /\ Len(s) > 5 /\ SubSeq(s, 1, 5) = Literal
  /\ \E i \in DOMAIN s : s[i] = "." /\ Digits(SubSeq(s, 6, i - 1)) /\ Digits(After(s, i))

RequestLine(s) ==
  \E i, j \in DOMAIN s :
    /\ i < j /\ s[i] = "SP" /\ s[j] = "SP"
    /\ i > 1 /\ All(Upto(s, i), Token)
    /\ All(SubSeq(s, i + 1, j - 1), Text \ {"SP"})
    /\ Version(After(s, j))

HeaderLine(s) ==
  \E i \in 2..(Len(s) - 1) :
    s[i] = ":" /\ s[i + 1] = "SP" /\ All(Upto(s, i), Token) /\ All(After(s, i), Text)

\* White space, then the rest of the value of the header before.
FoldedLine(s) ==
  s # <<>> /\ s[1] \in {"SP", "TAB"} /\
    \E i \in DOMAIN s : All(SubSeq(s, 1, i), {"SP", "TAB"}) /\ All(After(s, i), Text)

\* Where a CR LF is, where lines begin, and the line that begins at i.
Ends(s)        == {i \in 1..(Len(s) - 1) : s[i] = "CR" /\ s[i + 1] = "LF"}
Starts(s)      == {1} \cup {i + 2 : i \in Ends(s)}
LineFrom(s, i) == SubSeq(s, i, Min({e \in Ends(s) : e >= i}) - 1)

\* Lines that end in CR LF: a request line, headers, an empty line.
IsRequest(s) ==
  LET last  == Len(s) - 1
      heads == {i \in Starts(s) : 1 < i /\ i < last}
  IN /\ {last} = Ends(s) \cap Starts(s)
     /\ RequestLine(LineFrom(s, 1))
     /\ \A i \in heads :
          HeaderLine(LineFrom(s, i)) \/ (FoldedLine(LineFrom(s, i)) /\ \E j \in heads : j < i)

\* Some beginning of it is a request.
HasRequest(s) ==
  \E n \in 4..Len(s) :
    SubSeq(s, n - 3, n) = <<"CR", "LF", "CR", "LF">> /\ IsRequest(SubSeq(s, 1, n))
=============================================================================
