------------------------- MODULE HttpServer_proofs -------------------------
(***************************************************************************)
(* Proofs about RequestParser, for requests of any length: the parser      *)
(* takes for a request what the grammar says is one, wherever the input is *)
(* cut into chunks.                                                        *)
(*                                                                         *)
(* Proofs about HttpServer, for any pool of threads, any connections and   *)
(* whatever their peers send: one chain of handlers per connection, an     *)
(* accept chain that never ends, and verdicts that are the grammar's.      *)
(***************************************************************************)
EXTENDS HttpServer, DataInduction, TLAPS, SequenceTheorems, FiniteSetTheorems

-----------------------------------------------------------------------------
(* The table of moves *)

\* The classes of characters, as far as the moves tell them apart.
LEMMA Classes ==
  /\ Token \subseteq Text /\ Text \subseteq Char /\ Digit = {"1"}
  /\ {"SP", ":", "TAB", "CR", "LF"} \cap Token = {}
  /\ {"TAB", "CR", "LF"} \cap Text = {} /\ {"SP", ":"} \subseteq Text
  /\ {"SP", ":", "TAB", "CR", "LF", "H", "T", "P", "/", "1", "."} \subseteq Char
BY DEF Token, Text, Digit, Char, Ctl, Tspecial

\* The first of one, two or three moves that fits.
LEMMA FirstOfMoves ==
  ASSUME NEW c, NEW moves, NEW m \in DOMAIN moves, DOMAIN moves \subseteq 1..3, c \in moves[m][1],
         \A i \in DOMAIN moves : i < m => c \notin moves[i][1]
  PROVE  FirstFit(moves, c) = moves[m][2]
<1>. DEFINE fits == {i \in DOMAIN moves : c \in moves[i][1]}
<1>1. m \in fits /\ \A i \in fits : m <= i
  OBVIOUS
<1>2. \A i \in fits : (\A j \in fits : i <= j) => i = m
  BY <1>1
<1>3. Min(fits) = m
  <2>. HIDE DEF fits
  <2>. QED
    BY <1>1, <1>2 DEF Min
<1>. QED
  BY <1>1, <1>3 DEF FirstFit

LEMMA NoMoveFits ==
  ASSUME NEW c, NEW moves, \A i \in DOMAIN moves : c \notin moves[i][1]
  PROVE  FirstFit(moves, c) = "false"
BY DEF FirstFit

LEMMA OneMove ==
  ASSUME NEW c, NEW moves, DOMAIN moves = {1}
  PROVE  FirstFit(moves, c) = IF c \in moves[1][1] THEN moves[1][2] ELSE "false"
<1>1. CASE c \in moves[1][1]
  BY <1>1, FirstOfMoves
<1>2. CASE c \notin moves[1][1]
  BY <1>2, NoMoveFits
<1>. QED
  BY <1>1, <1>2

LEMMA TwoMoves ==
  ASSUME NEW c, NEW moves, DOMAIN moves = {1, 2}
  PROVE  FirstFit(moves, c) = IF c \in moves[1][1] THEN moves[1][2]
                              ELSE IF c \in moves[2][1] THEN moves[2][2] ELSE "false"
<1>1. CASE c \in moves[1][1]
  BY <1>1, FirstOfMoves
<1>2. CASE c \notin moves[1][1] /\ c \in moves[2][1]
  BY <1>2, FirstOfMoves
<1>3. CASE c \notin moves[1][1] /\ c \notin moves[2][1]
  BY <1>3, NoMoveFits
<1>. QED
  BY <1>1, <1>2, <1>3

LEMMA ThreeMoves ==
  ASSUME NEW c, NEW moves, DOMAIN moves = {1, 2, 3}
  PROVE  FirstFit(moves, c) = IF c \in moves[1][1] THEN moves[1][2]
                              ELSE IF c \in moves[2][1] THEN moves[2][2]
                              ELSE IF c \in moves[3][1] THEN moves[3][2] ELSE "false"
<1>1. CASE c \in moves[1][1]
  BY <1>1, FirstOfMoves
<1>2. CASE c \notin moves[1][1] /\ c \in moves[2][1]
  BY <1>2, FirstOfMoves
<1>3. CASE c \notin moves[1][1] /\ c \notin moves[2][1] /\ c \in moves[3][1]
  BY <1>3, FirstOfMoves
<1>4. CASE c \notin moves[1][1] /\ c \notin moves[2][1] /\ c \notin moves[3][1]
  BY <1>4, NoMoveFits
<1>. QED
  BY <1>1, <1>2, <1>3, <1>4

\* Where each state goes, if not by the white space that continues a header.
Move(q, c) == FirstFit(Moves[q], c)

LEMMA RequestLineTable ==
  ASSUME NEW c
  PROVE
    /\ Move("method_start", c) = IF c \in Token THEN "method" ELSE "false"
    /\ Move("method", c) = IF c = "SP" THEN "uri" ELSE IF c \in Token THEN "method" ELSE "false"
    /\ Move("uri", c) = IF c = "SP" THEN "http_version_h" ELSE IF c \in Text THEN "uri" ELSE "false"
    /\ Move("http_version_h", c) = IF c = "H" THEN "http_version_t_1" ELSE "false"
    /\ Move("http_version_t_1", c) = IF c = "T" THEN "http_version_t_2" ELSE "false"
    /\ Move("http_version_t_2", c) = IF c = "T" THEN "http_version_p" ELSE "false"
    /\ Move("http_version_p", c) = IF c = "P" THEN "http_version_slash" ELSE "false"
    /\ Move("http_version_slash", c) = IF c = "/" THEN "http_version_major_start" ELSE "false"
    /\ Move("http_version_major_start", c) = IF c \in Digit THEN "http_version_major" ELSE "false"
    /\ Move("http_version_major", c) = IF c = "." THEN "http_version_minor_start"
         ELSE IF c \in Digit THEN "http_version_major" ELSE "false"
    /\ Move("http_version_minor_start", c) = IF c \in Digit THEN "http_version_minor" ELSE "false"
    /\ Move("http_version_minor", c) = IF c = "CR" THEN "expecting_newline_1"
         ELSE IF c \in Digit THEN "http_version_minor" ELSE "false"
    /\ Move("expecting_newline_1", c) = IF c = "LF" THEN "header_line_start" ELSE "false"
<1>0. \A q \in DOMAIN RequestLineMoves : Moves[q] = RequestLineMoves[q]
  BY DEF Moves, RequestLineMoves, HeaderMoves
<1>1. Move("method_start", c) = IF c \in Token THEN "method" ELSE "false"
  BY <1>0, OneMove DEF Move, RequestLineMoves
<1>2. Move("method", c) = IF c = "SP" THEN "uri" ELSE IF c \in Token THEN "method" ELSE "false"
  BY <1>0, TwoMoves DEF Move, RequestLineMoves
<1>3. Move("uri", c) = IF c = "SP" THEN "http_version_h" ELSE IF c \in Text THEN "uri" ELSE "false"
  BY <1>0, TwoMoves DEF Move, RequestLineMoves
<1>4. Move("http_version_h", c) = IF c = "H" THEN "http_version_t_1" ELSE "false"
  BY <1>0, OneMove DEF Move, RequestLineMoves
<1>5. Move("http_version_t_1", c) = IF c = "T" THEN "http_version_t_2" ELSE "false"
  BY <1>0, OneMove DEF Move, RequestLineMoves
<1>6. Move("http_version_t_2", c) = IF c = "T" THEN "http_version_p" ELSE "false"
  BY <1>0, OneMove DEF Move, RequestLineMoves
<1>7. Move("http_version_p", c) = IF c = "P" THEN "http_version_slash" ELSE "false"
  BY <1>0, OneMove DEF Move, RequestLineMoves
<1>8. Move("http_version_slash", c) = IF c = "/" THEN "http_version_major_start" ELSE "false"
  BY <1>0, OneMove DEF Move, RequestLineMoves
<1>9. Move("http_version_major_start", c) = IF c \in Digit THEN "http_version_major" ELSE "false"
  BY <1>0, OneMove DEF Move, RequestLineMoves
<1>10. Move("http_version_major", c) = IF c = "." THEN "http_version_minor_start"
         ELSE IF c \in Digit THEN "http_version_major" ELSE "false"
  BY <1>0, TwoMoves DEF Move, RequestLineMoves
<1>11. Move("http_version_minor_start", c) = IF c \in Digit THEN "http_version_minor" ELSE "false"
  BY <1>0, OneMove DEF Move, RequestLineMoves
<1>12. Move("http_version_minor", c) = IF c = "CR" THEN "expecting_newline_1"
         ELSE IF c \in Digit THEN "http_version_minor" ELSE "false"
  BY <1>0, TwoMoves DEF Move, RequestLineMoves
<1>13. Move("expecting_newline_1", c) = IF c = "LF" THEN "header_line_start" ELSE "false"
  BY <1>0, OneMove DEF Move, RequestLineMoves
<1>. QED
  BY <1>1, <1>2, <1>3, <1>4, <1>5, <1>6, <1>7, <1>8, <1>9, <1>10, <1>11, <1>12, <1>13

LEMMA HeaderTable ==
  ASSUME NEW c
  PROVE
    /\ Move("header_line_start", c) = IF c = "CR" THEN "expecting_newline_3"
         ELSE IF c \in Token THEN "header_name" ELSE "false"
    /\ Move("header_lws", c) = IF c = "CR" THEN "expecting_newline_2" ELSE IF c \in {"SP", "TAB"} THEN "header_lws"
         ELSE IF c \in Text THEN "header_value" ELSE "false"
    /\ Move("header_name", c) = IF c = ":" THEN "space_before_header_value"
         ELSE IF c \in Token THEN "header_name" ELSE "false"
    /\ Move("space_before_header_value", c) = IF c = "SP" THEN "header_value" ELSE "false"
    /\ Move("header_value", c) = IF c = "CR" THEN "expecting_newline_2"
         ELSE IF c \in Text THEN "header_value" ELSE "false"
    /\ Move("expecting_newline_2", c) = IF c = "LF" THEN "header_line_start" ELSE "false"
    /\ Move("expecting_newline_3", c) = IF c = "LF" THEN "true" ELSE "false"
<1>0. \A q \in DOMAIN HeaderMoves : Moves[q] = HeaderMoves[q]
  BY DEF Moves, RequestLineMoves, HeaderMoves
<1>1. Move("header_line_start", c) = IF c = "CR" THEN "expecting_newline_3"
         ELSE IF c \in Token THEN "header_name" ELSE "false"
  BY <1>0, TwoMoves DEF Move, HeaderMoves
<1>2. Move("header_lws", c) = IF c = "CR" THEN "expecting_newline_2" ELSE IF c \in {"SP", "TAB"} THEN "header_lws"
         ELSE IF c \in Text THEN "header_value" ELSE "false"
  BY <1>0, ThreeMoves DEF Move, HeaderMoves
<1>3. Move("header_name", c) = IF c = ":" THEN "space_before_header_value"
         ELSE IF c \in Token THEN "header_name" ELSE "false"
  BY <1>0, TwoMoves DEF Move, HeaderMoves
<1>4. Move("space_before_header_value", c) = IF c = "SP" THEN "header_value" ELSE "false"
  BY <1>0, OneMove DEF Move, HeaderMoves
<1>5. Move("header_value", c) = IF c = "CR" THEN "expecting_newline_2"
         ELSE IF c \in Text THEN "header_value" ELSE "false"
  BY <1>0, TwoMoves DEF Move, HeaderMoves
<1>6. Move("expecting_newline_2", c) = IF c = "LF" THEN "header_line_start" ELSE "false"
  BY <1>0, OneMove DEF Move, HeaderMoves
<1>7. Move("expecting_newline_3", c) = IF c = "LF" THEN "true" ELSE "false"
  BY <1>0, OneMove DEF Move, HeaderMoves
<1>. QED
  BY <1>1, <1>2, <1>3, <1>4, <1>5, <1>6, <1>7

-----------------------------------------------------------------------------
(* One character more *)

LEMMA States ==
  ParserStates = {"method_start", "method", "uri", "http_version_h", "http_version_t_1",
    "http_version_t_2", "http_version_p", "http_version_slash", "http_version_major_start",
    "http_version_major", "http_version_minor_start", "http_version_minor", "expecting_newline_1",
    "header_line_start", "header_lws", "header_name", "space_before_header_value", "header_value",
    "expecting_newline_2", "expecting_newline_3", "true", "false"}
BY DEF ParserStates, Moves, RequestLineMoves, HeaderMoves

LEMMA MovesToState ==
  ASSUME NEW q \in ParserStates \ {"true", "false"}, NEW c
  PROVE  Move(q, c) \in ParserStates
BY States, RequestLineTable, HeaderTable

\* Where a parser goes, by its state and whether it has read a header.
Goes(q, headers, c) ==
  IF q \in {"true", "false"} THEN q
  ELSE IF q = "header_line_start" /\ c \in {"SP", "TAB"} /\ headers THEN "header_lws"
  ELSE Move(q, c)

LEMMA ConsumeIs ==
  ASSUME NEW p \in Parser, NEW c \in Char
  PROVE  /\ consume[<<p, c>>] \in Parser
         /\ consume[<<p, c>>].state = Goes(p.state, p.headers, c)
         /\ consume[<<p, c>>].headers = (p.headers \/ Goes(p.state, p.headers, c) = "header_name")
<1>1. p.state \in ParserStates /\ p.headers \in BOOLEAN
  BY DEF Parser
<1>. DEFINE next == Goes(p.state, p.headers, c)
<1>2. next \in ParserStates
  BY <1>1, MovesToState, States DEF Goes
<1>3. consume[<<p, c>>] = [state |-> next, headers |-> p.headers \/ next = "header_name"]
  BY <1>1 DEF consume, Goes, Move
<1>. HIDE DEF next
<1>4. (p.headers \/ next = "header_name") \in BOOLEAN
  OBVIOUS
<1>. QED
  BY <1>2, <1>3, <1>4 DEF Parser, next

\* A parser's run over a text.
Runs(r, p, t) ==
  /\ r \in [0..Len(t) -> Parser] /\ r[0] = p
  /\ \A n \in 1..Len(t) : r[n] = consume[<<r[n - 1], t[n]>>]

LEMMA ParseRuns ==
  ASSUME NEW p \in Parser, NEW t \in Seq(Char)
  PROVE  \E r : Runs(r, p, t) /\ parse(p, t) = r[Len(t)]
<1>. DEFINE m == Len(t)
            next == [x \in Parser \X (1..m) |-> consume[<<x[1], t[x[2]]>>]]
            Body(g) == [i \in 0..m |-> IF i = 0 THEN p ELSE consume[<<g[i - 1], t[i]>>]]
            after == CHOOSE g : g = Body(g)
<1>1. m \in Nat /\ \A n \in 1..m : t[n] \in Char
  BY ElementOfSeq
<1>2. next \in [Parser \X (1..m) -> Parser]
  BY <1>1, ConsumeIs
<1>3. \A q \in Parser, n \in 1..m : next[<<q, n>>] = consume[<<q, t[n]>>]
  OBVIOUS
<1>. HIDE DEF next, m
<1>4. PICK g : RecursionFromZero(g, Parser, m, p, next)
  BY <1>1, <1>2, RecursionFromZeroExists
<1>5. g = Body(g)
  <2>1. g \in [0..m -> Parser] /\ g[0] = p /\ \A n \in 1..m : g[n] = next[<<g[n - 1], n>>]
    BY <1>4 DEF RecursionFromZero
  <2>2. \A n \in 0..m : n # 0 => n \in 1..m /\ n - 1 \in 0..m
    BY <1>1
  <2>3. \A n \in 0..m : n # 0 => g[n] = consume[<<g[n - 1], t[n]>>]
    BY <1>3, <2>1, <2>2
  <2>. QED
    BY <2>1, <2>3
<1>6. after = Body(after)
  <2>. HIDE DEF Body
  <2>. QED
    BY <1>5
<1>7. parse(p, t) = after[m]
  BY Zenon DEF parse, m
<1>. HIDE DEF after
<1>8. /\ after = [i \in 0..m |-> after[i]] /\ after[0] = p
      /\ \A n \in 1..m : after[n] = consume[<<after[n - 1], t[n]>>]
  <2>1. \A n \in 1..m : n \in 0..m /\ n # 0
    OBVIOUS
  <2>2. 0 \in 0..m
    BY <1>1
  <2>3. \A n \in 0..m : after[n] = IF n = 0 THEN p ELSE consume[<<after[n - 1], t[n]>>]
    BY <1>6
  <2>4. after = [i \in 0..m |-> after[i]]
    BY <1>6
  <2>. QED
    BY <2>1, <2>2, <2>3, <2>4
<1>9. Follows(after, Parser, m, p, next)
  BY <1>3, <1>8 DEF Follows
<1>10. RecursionFromZero(after, Parser, m, p, next)
  BY <1>1, <1>2, <1>9, RecursionIsUnique
<1>11. Runs(after, p, t)
  BY <1>8, <1>10 DEF Runs, RecursionFromZero, m
<1>. QED
  BY <1>7, <1>11 DEF m

\* Where a parser comes from that is within a request line or behind it.
LEMMA IntoRequestLine ==
  ASSUME NEW q \in ParserStates, NEW headers \in BOOLEAN, NEW c \in Char, NEW next,
         next = Goes(q, headers, c)
  PROVE
    /\ (next = "method") <=> q \in {"method_start", "method"} /\ c \in Token
    /\ (next = "uri") <=> (q = "method" /\ c = "SP") \/ (q = "uri" /\ c \in Text \ {"SP"})
    /\ (next = "http_version_h") <=> q = "uri" /\ c = "SP"
    /\ (next = "http_version_t_1") <=> q = "http_version_h" /\ c = "H"
    /\ (next = "http_version_t_2") <=> q = "http_version_t_1" /\ c = "T"
    /\ (next = "http_version_p") <=> q = "http_version_t_2" /\ c = "T"
    /\ (next = "http_version_slash") <=> q = "http_version_p" /\ c = "P"
    /\ (next = "http_version_major_start") <=> q = "http_version_slash" /\ c = "/"
    /\ (next = "http_version_major") <=>
            q \in {"http_version_major_start", "http_version_major"} /\ c \in Digit
    /\ (next = "http_version_minor_start") <=> q = "http_version_major" /\ c = "."
    /\ (next = "http_version_minor") <=>
            q \in {"http_version_minor_start", "http_version_minor"} /\ c \in Digit
    /\ (next = "expecting_newline_1") <=> q = "http_version_minor" /\ c = "CR"
<1>1. (next = "method") <=> q \in {"method_start", "method"} /\ c \in Token
  BY Classes, States, RequestLineTable, HeaderTable DEF Goes
<1>2. (next = "uri") <=> (q = "method" /\ c = "SP") \/ (q = "uri" /\ c \in Text \ {"SP"})
  BY Classes, States, RequestLineTable, HeaderTable DEF Goes
<1>3. (next = "http_version_h") <=> q = "uri" /\ c = "SP"
  BY Classes, States, RequestLineTable, HeaderTable DEF Goes
<1>4. (next = "http_version_t_1") <=> q = "http_version_h" /\ c = "H"
  BY Classes, States, RequestLineTable, HeaderTable DEF Goes
<1>5. (next = "http_version_t_2") <=> q = "http_version_t_1" /\ c = "T"
  BY Classes, States, RequestLineTable, HeaderTable DEF Goes
<1>6. (next = "http_version_p") <=> q = "http_version_t_2" /\ c = "T"
  BY Classes, States, RequestLineTable, HeaderTable DEF Goes
<1>7. (next = "http_version_slash") <=> q = "http_version_p" /\ c = "P"
  BY Classes, States, RequestLineTable, HeaderTable DEF Goes
<1>8. (next = "http_version_major_start") <=> q = "http_version_slash" /\ c = "/"
  BY Classes, States, RequestLineTable, HeaderTable DEF Goes
<1>9. (next = "http_version_major") <=>
          q \in {"http_version_major_start", "http_version_major"} /\ c \in Digit
  BY Classes, States, RequestLineTable, HeaderTable DEF Goes
<1>10. (next = "http_version_minor_start") <=> q = "http_version_major" /\ c = "."
  BY Classes, States, RequestLineTable, HeaderTable DEF Goes
<1>11. (next = "http_version_minor") <=>
          q \in {"http_version_minor_start", "http_version_minor"} /\ c \in Digit
  BY Classes, States, RequestLineTable, HeaderTable DEF Goes
<1>12. (next = "expecting_newline_1") <=> q = "http_version_minor" /\ c = "CR"
  BY Classes, States, RequestLineTable, HeaderTable DEF Goes
<1>. QED
  BY <1>1, <1>2, <1>3, <1>4, <1>5, <1>6, <1>7, <1>8, <1>9, <1>10, <1>11, <1>12

\* Where a parser comes from that is within a header, behind it or done.
LEMMA IntoHeader ==
  ASSUME NEW q \in ParserStates, NEW headers \in BOOLEAN, NEW c \in Char, NEW next,
         next = Goes(q, headers, c)
  PROVE
    /\ (next = "header_line_start") <=>
            q \in {"expecting_newline_1", "expecting_newline_2"} /\ c = "LF"
    /\ (next = "header_lws") <=>
            c \in {"SP", "TAB"} /\ (q = "header_lws" \/ (q = "header_line_start" /\ headers))
    /\ (next = "header_name") <=> q \in {"header_line_start", "header_name"} /\ c \in Token
    /\ (next = "space_before_header_value") <=> q = "header_name" /\ c = ":"
    /\ (next = "header_value") <=>
            \/ q = "space_before_header_value" /\ c = "SP"
            \/ q = "header_lws" /\ c \in Text \ {"SP"}
            \/ q = "header_value" /\ c \in Text
    /\ (next = "expecting_newline_2") <=> q \in {"header_lws", "header_value"} /\ c = "CR"
    /\ (next = "expecting_newline_3") <=> q = "header_line_start" /\ c = "CR"
    /\ (next = "true") <=> q = "true" \/ (q = "expecting_newline_3" /\ c = "LF")
<1>1. (next = "header_line_start") <=>
          q \in {"expecting_newline_1", "expecting_newline_2"} /\ c = "LF"
  BY Classes, States, RequestLineTable, HeaderTable DEF Goes
<1>2. (next = "header_lws") <=>
          c \in {"SP", "TAB"} /\ (q = "header_lws" \/ (q = "header_line_start" /\ headers))
  BY Classes, States, RequestLineTable, HeaderTable DEF Goes
<1>3. (next = "header_name") <=> q \in {"header_line_start", "header_name"} /\ c \in Token
  BY Classes, States, RequestLineTable, HeaderTable DEF Goes
<1>4. (next = "space_before_header_value") <=> q = "header_name" /\ c = ":"
  BY Classes, States, RequestLineTable, HeaderTable DEF Goes
<1>5. (next = "header_value") <=>
          \/ q = "space_before_header_value" /\ c = "SP"
          \/ q = "header_lws" /\ c \in Text \ {"SP"}
          \/ q = "header_value" /\ c \in Text
  BY Classes, States, RequestLineTable, HeaderTable DEF Goes
<1>6. (next = "expecting_newline_2") <=> q \in {"header_lws", "header_value"} /\ c = "CR"
  BY Classes, States, RequestLineTable, HeaderTable DEF Goes
<1>7. (next = "expecting_newline_3") <=> q = "header_line_start" /\ c = "CR"
  BY Classes, States, RequestLineTable, HeaderTable DEF Goes
<1>8. (next = "true") <=> q = "true" \/ (q = "expecting_newline_3" /\ c = "LF")
  BY Classes, States, RequestLineTable, HeaderTable DEF Goes
<1>. QED
  BY <1>1, <1>2, <1>3, <1>4, <1>5, <1>6, <1>7, <1>8

-----------------------------------------------------------------------------
(* Runs *)

\* One step of a run.
LEMMA RunStep ==
  ASSUME NEW p \in Parser, NEW t \in Seq(Char), NEW r, Runs(r, p, t), NEW n \in 1..Len(t)
  PROVE  /\ t[n] \in Char /\ r[n] \in Parser /\ r[n - 1] \in Parser
         /\ r[n - 1].state \in ParserStates /\ r[n - 1].headers \in BOOLEAN
         /\ r[n].state = Goes(r[n - 1].state, r[n - 1].headers, t[n])
         /\ r[n].headers = (r[n - 1].headers \/ r[n].state = "header_name")
<1>1. n \in 0..Len(t) /\ n - 1 \in 0..Len(t) /\ t[n] \in Char
  BY ElementOfSeq
<1>2. r[n] \in Parser /\ r[n - 1] \in Parser /\ r[n] = consume[<<r[n - 1], t[n]>>]
  BY <1>1 DEF Runs
<1>. QED
  BY <1>1, <1>2, ConsumeIs DEF Parser

\* A text has one run.
LEMMA SameRun ==
  ASSUME NEW p \in Parser, NEW t \in Seq(Char), NEW r, NEW u, Runs(r, p, t), Runs(u, p, t)
  PROVE  \A n \in 0..Len(t) : r[n] = u[n]
<1>. DEFINE T == {n \in 0..Len(t) : r[n] = u[n]}
<1>1. Len(t) \in Nat /\ 0 \in T
  BY DEF Runs
<1>2. ASSUME NEW n \in 0..Len(t), n \in T, n < Len(t) PROVE n + 1 \in T
  <2>1. n + 1 \in 1..Len(t) /\ n + 1 \in 0..Len(t) /\ (n + 1) - 1 = n
    BY <1>1, <1>2
  <2>2. r[n + 1] = consume[<<r[n], t[n + 1]>>] /\ u[n + 1] = consume[<<u[n], t[n + 1]>>]
    BY <2>1 DEF Runs
  <2>. QED
    BY <1>2, <2>1, <2>2
<1>3. 0..Len(t) \subseteq T
  <2>. HIDE DEF T
  <2>. QED
    BY <1>1, <1>2, SetInductionFromZero
<1>. QED
  BY <1>3

\* Part of a text.
LEMMA PartOf ==
  ASSUME NEW t \in Seq(Char), NEW m \in 0..Len(t), NEW n \in m..Len(t)
  PROVE  /\ SubSeq(t, m + 1, n) \in Seq(Char) /\ Len(SubSeq(t, m + 1, n)) = n - m
         /\ \A x \in 1..(n - m) : SubSeq(t, m + 1, n)[x] = t[m + x]
<1>1. \A x \in (m + 1)..n : t[x] \in Char
  BY ElementOfSeq
<1>2. m + 1 \in Int /\ n \in Int
  OBVIOUS
<1>3. /\ SubSeq(t, m + 1, n) \in Seq(Char)
      /\ Len(SubSeq(t, m + 1, n)) = IF m + 1 <= n THEN n - (m + 1) + 1 ELSE 0
      /\ \A x \in 1..(n - (m + 1) + 1) : SubSeq(t, m + 1, n)[x] = t[(m + 1) + x - 1]
  BY <1>1, <1>2, SubSeqProperties
<1>. QED
  BY <1>3

\* A run over a chunk is part of the run over the whole.
LEMMA ParseChunk ==
  ASSUME NEW p \in Parser, NEW t \in Seq(Char), NEW r, Runs(r, p, t),
         NEW m \in 0..Len(t), NEW n \in m..Len(t)
  PROVE  r[m] \in Parser /\ parse(r[m], SubSeq(t, m + 1, n)) = r[n]
<1>. DEFINE chunk == SubSeq(t, m + 1, n)
            u == [i \in 0..(n - m) |-> r[m + i]]
<1>1. chunk \in Seq(Char) /\ Len(chunk) = n - m /\ \A x \in 1..(n - m) : chunk[x] = t[m + x]
  BY PartOf
<1>2. r[m] \in Parser /\ \A x \in 0..(n - m) : r[m + x] \in Parser
  BY DEF Runs
<1>. HIDE DEF chunk
<1>3. Runs(u, r[m], chunk)
  <2>1. u \in [0..Len(chunk) -> Parser] /\ u[0] = r[m]
    <3>1. u \in [0..(n - m) -> Parser] /\ 0 \in 0..(n - m) /\ m + 0 = m
      BY <1>2
    <3>. QED
      BY <1>1, <3>1
  <2>2. ASSUME NEW x \in 1..Len(chunk) PROVE u[x] = consume[<<u[x - 1], chunk[x]>>]
    <3>1. m + x \in 1..Len(t) /\ x \in 0..(n - m) /\ x - 1 \in 0..(n - m) /\ (m + x) - 1 = m + (x - 1)
      BY <1>1
    <3>2. r[m + x] = consume[<<r[m + (x - 1)], t[m + x]>>]
      BY <3>1 DEF Runs
    <3>. QED
      BY <1>1, <3>1, <3>2
  <2>. QED
    BY <2>1, <2>2 DEF Runs
<1>4. PICK v : Runs(v, r[m], chunk) /\ parse(r[m], chunk) = v[Len(chunk)]
  BY <1>1, <1>2, ParseRuns
<1>5. v[n - m] = u[n - m]
  BY <1>1, <1>2, <1>3, <1>4, SameRun, SMTT(40)
<1>6. u[n - m] = r[n]
  OBVIOUS
<1>. QED
  BY <1>1, <1>2, <1>4, <1>5, <1>6 DEF chunk

\* A verdict stands, whatever follows.
LEMMA VerdictStands ==
  ASSUME NEW p \in Parser, NEW t \in Seq(Char), NEW r, Runs(r, p, t),
         NEW m \in 0..Len(t), r[m].state \in {"true", "false"}
  PROVE  \A n \in m..Len(t) : r[n].state = r[m].state
<1>. DEFINE T == {k \in 0..(Len(t) - m) : r[m + k].state = r[m].state}
<1>1. Len(t) - m \in Nat /\ 0 \in T
  OBVIOUS
<1>2. ASSUME NEW k \in 0..(Len(t) - m), k \in T, k < Len(t) - m PROVE k + 1 \in T
  <2>1. m + (k + 1) \in 1..Len(t) /\ (m + (k + 1)) - 1 = m + k /\ k + 1 \in 0..(Len(t) - m)
    BY <1>2
  <2>2. r[m + (k + 1)].state = Goes(r[m + k].state, r[m + k].headers, t[m + (k + 1)])
    BY <2>1, RunStep
  <2>. QED
    BY <1>2, <2>1, <2>2 DEF Goes
<1>3. 0..(Len(t) - m) \subseteq T
  <2>. HIDE DEF T
  <2>. QED
    BY <1>1, <1>2, SetInductionFromZero
<1>4. ASSUME NEW n \in m..Len(t) PROVE r[n].state = r[m].state
  <2>1. n - m \in 0..(Len(t) - m) /\ m + (n - m) = n
    OBVIOUS
  <2>. QED
    BY <1>3, <2>1
<1>. QED
  BY <1>4

-----------------------------------------------------------------------------
(* The states as regular expressions: the places of a text where the parser *)
(* is in a state, and the places where a part of the grammar ends, are both *)
(* made of Then and Many.                                                   *)

\* One character of C behind a place of Q, and one or more.
Then(t, Q, C) == {n \in 1..Len(t) : n - 1 \in Q /\ t[n] \in C}
Many(t, Q, C) == {n \in 1..Len(t) : \E m \in Q : m < n /\ \A x \in (m + 1)..n : t[x] \in C}

LEMMA ManyStep ==
  ASSUME NEW t \in Seq(Char), NEW Q, Q \subseteq Nat, NEW C, NEW n \in 1..Len(t)
  PROVE  n \in Many(t, Q, C) <=> t[n] \in C /\ (n - 1 \in Q \/ n - 1 \in Many(t, Q, C))
<1>1. ASSUME n \in Many(t, Q, C) PROVE t[n] \in C /\ (n - 1 \in Q \/ n - 1 \in Many(t, Q, C))
  <2>1. PICK m \in Q : m < n /\ \A x \in (m + 1)..n : t[x] \in C
    BY <1>1 DEF Many
  <2>2. n \in (m + 1)..n
    BY <2>1
  <2>3. CASE m = n - 1
    BY <2>1, <2>2, <2>3
  <2>4. CASE m # n - 1
    <3>1. m < n - 1 /\ n - 1 \in 1..Len(t) /\ \A x \in (m + 1)..(n - 1) : t[x] \in C
      BY <2>1, <2>4
    <3>. QED
      BY <2>1, <2>2, <3>1 DEF Many
  <2>. QED
    BY <2>3, <2>4
<1>2. ASSUME t[n] \in C, n - 1 \in Q PROVE n \in Many(t, Q, C)
  <2>1. n - 1 < n /\ \A x \in ((n - 1) + 1)..n : t[x] \in C
    BY <1>2
  <2>. QED
    BY <1>2, <2>1 DEF Many
<1>3. ASSUME t[n] \in C, n - 1 \in Many(t, Q, C) PROVE n \in Many(t, Q, C)
  <2>1. PICK m \in Q : m < n - 1 /\ \A x \in (m + 1)..(n - 1) : t[x] \in C
    BY <1>3 DEF Many
  <2>2. m < n /\ \A x \in (m + 1)..n : t[x] \in C
    BY <1>3, <2>1
  <2>. QED
    BY <2>2 DEF Many
<1>. QED
  BY <1>1, <1>2, <1>3

LEMMA ThenStep ==
  ASSUME NEW t, NEW Q, NEW C, NEW n \in 1..Len(t)
  PROVE  n \in Then(t, Q, C) <=> t[n] \in C /\ n - 1 \in Q
BY DEF Then

LEMMA PlacesAreNats ==
  ASSUME NEW t \in Seq(Char), NEW Q, NEW C
  PROVE  /\ Then(t, Q, C) \subseteq Nat /\ Many(t, Q, C) \subseteq Nat
         /\ 0 \notin Then(t, Q, C) /\ 0 \notin Many(t, Q, C)
BY DEF Then, Many

\* The places of a request line, named for the states of the parser.
Method(t)     == Many(t, {0}, Token)
UriStart(t)   == Then(t, Method(t), {"SP"})
Uri(t)        == UriStart(t) \cup Many(t, UriStart(t), Text \ {"SP"})
VersionH(t)   == Then(t, Uri(t), {"SP"})
VersionT1(t)  == Then(t, VersionH(t), {"H"})
VersionT2(t)  == Then(t, VersionT1(t), {"T"})
VersionP(t)   == Then(t, VersionT2(t), {"T"})
Slash(t)      == Then(t, VersionP(t), {"P"})
MajorStart(t) == Then(t, Slash(t), {"/"})
Major(t)      == Many(t, MajorStart(t), Digit)
MinorStart(t) == Then(t, Major(t), {"."})
Minor(t)      == Many(t, MinorStart(t), Digit)

\* A parser that began with the text is in a state of the request line exactly
\* at the places of that state.
AtPlaces(r, t, n) ==
  /\ (r[n].state = "method_start") <=> n = 0
  /\ (r[n].state = "method") <=> n \in Method(t)
  /\ (r[n].state = "uri") <=> n \in Uri(t)
  /\ (r[n].state = "http_version_h") <=> n \in VersionH(t)
  /\ (r[n].state = "http_version_t_1") <=> n \in VersionT1(t)
  /\ (r[n].state = "http_version_t_2") <=> n \in VersionT2(t)
  /\ (r[n].state = "http_version_p") <=> n \in VersionP(t)
  /\ (r[n].state = "http_version_slash") <=> n \in Slash(t)
  /\ (r[n].state = "http_version_major_start") <=> n \in MajorStart(t)
  /\ (r[n].state = "http_version_major") <=> n \in Major(t)
  /\ (r[n].state = "http_version_minor_start") <=> n \in MinorStart(t)
  /\ (r[n].state = "http_version_minor") <=> n \in Minor(t)

\* The same, one character further.
LEMMA NextPlaces ==
  ASSUME NEW t \in Seq(Char), NEW n \in 1..Len(t), NEW k, k = n - 1, NEW c, c = t[n]
  PROVE
    /\ n \in Method(t) <=> c \in Token /\ (k = 0 \/ k \in Method(t))
    /\ n \in Uri(t) <=> (k \in Method(t) /\ c = "SP") \/ (k \in Uri(t) /\ c \in Text \ {"SP"})
    /\ n \in VersionH(t) <=> k \in Uri(t) /\ c = "SP"
    /\ n \in VersionT1(t) <=> k \in VersionH(t) /\ c = "H"
    /\ n \in VersionT2(t) <=> k \in VersionT1(t) /\ c = "T"
    /\ n \in VersionP(t) <=> k \in VersionT2(t) /\ c = "T"
    /\ n \in Slash(t) <=> k \in VersionP(t) /\ c = "P"
    /\ n \in MajorStart(t) <=> k \in Slash(t) /\ c = "/"
    /\ n \in MinorStart(t) <=> k \in Major(t) /\ c = "."
    /\ n \in Major(t) <=> (k \in MajorStart(t) \/ k \in Major(t)) /\ c \in Digit
    /\ n \in Minor(t) <=> (k \in MinorStart(t) \/ k \in Minor(t)) /\ c \in Digit
<1>1. n \in Method(t) <=> c \in Token /\ (k = 0 \/ k \in Method(t))
  <2>1. {0} \subseteq Nat
    OBVIOUS
  <2>2. n \in Many(t, {0}, Token) <=> t[n] \in Token /\ (n - 1 \in {0} \/ n - 1 \in Many(t, {0}, Token))
    BY <2>1, ManyStep
  <2>. QED
    BY <2>2 DEF Method
<1>2. n \in Uri(t) <=> (k \in Method(t) /\ c = "SP") \/ (k \in Uri(t) /\ c \in Text \ {"SP"})
  <2>. DEFINE M == Many(t, UriStart(t), Text \ {"SP"})
  <2>1. UriStart(t) \subseteq Nat
    BY PlacesAreNats DEF UriStart
  <2>2. n \in M <=> c \in Text \ {"SP"} /\ (k \in UriStart(t) \/ k \in M)
    BY <2>1, ManyStep
  <2>3. n \in UriStart(t) <=> c = "SP" /\ k \in Method(t)
    BY ThenStep DEF UriStart
  <2>. HIDE DEF M
  <2>4. \A x : x \in Uri(t) <=> x \in UriStart(t) \/ x \in M
    BY DEF Uri, M
  <2>. QED
    BY <2>2, <2>3, <2>4
<1>3. n \in VersionH(t) <=> k \in Uri(t) /\ c = "SP"
  BY ThenStep DEF VersionH
<1>4. n \in VersionT1(t) <=> k \in VersionH(t) /\ c = "H"
  BY ThenStep DEF VersionT1
<1>5. n \in VersionT2(t) <=> k \in VersionT1(t) /\ c = "T"
  BY ThenStep DEF VersionT2
<1>6. n \in VersionP(t) <=> k \in VersionT2(t) /\ c = "T"
  BY ThenStep DEF VersionP
<1>7. n \in Slash(t) <=> k \in VersionP(t) /\ c = "P"
  BY ThenStep DEF Slash
<1>8. n \in MajorStart(t) <=> k \in Slash(t) /\ c = "/"
  BY ThenStep DEF MajorStart
<1>9. n \in MinorStart(t) <=> k \in Major(t) /\ c = "."
  BY ThenStep DEF MinorStart
<1>10. n \in Major(t) <=> (k \in MajorStart(t) \/ k \in Major(t)) /\ c \in Digit
  <2>1. MajorStart(t) \subseteq Nat
    BY PlacesAreNats DEF MajorStart
  <2>. QED
    BY <2>1, ManyStep DEF Major
<1>11. n \in Minor(t) <=> (k \in MinorStart(t) \/ k \in Minor(t)) /\ c \in Digit
  <2>1. MinorStart(t) \subseteq Nat
    BY PlacesAreNats DEF MinorStart
  <2>. QED
    BY <2>1, ManyStep DEF Minor
<1>. QED
  BY <1>1, <1>2, <1>3, <1>4, <1>5, <1>6, <1>7, <1>8, <1>9, <1>10, <1>11

LEMMA RequestLinePlaces ==
  ASSUME NEW t \in Seq(Char), NEW r, Runs(r, NewParser, t)
  PROVE  \A n \in 0..Len(t) : AtPlaces(r, t, n)
<1>. DEFINE T == {n \in 0..Len(t) : AtPlaces(r, t, n)}
<1>0. NewParser \in Parser /\ Len(t) \in Nat
  BY States DEF NewParser, Parser
<1>1. 0 \in T
  <2>1. r[0].state = "method_start"
    BY DEF Runs, NewParser
  <2>2. AtPlaces(r, t, 0)
    BY <2>1, PlacesAreNats DEF AtPlaces, Method, UriStart, Uri, VersionH, VersionT1, VersionT2,
       VersionP, Slash, MajorStart, Major, MinorStart, Minor
  <2>. QED
    BY <1>0, <2>2
<1>2. ASSUME NEW k \in 0..Len(t), k \in T, k < Len(t) PROVE k + 1 \in T
  <2>. DEFINE n == k + 1
              q == r[k].state
              c == t[n]
  <2>1. n \in 1..Len(t) /\ n - 1 = k /\ n # 0 /\ AtPlaces(r, t, k)
    BY <1>0, <1>2
  <2>2. /\ q \in ParserStates /\ r[k].headers \in BOOLEAN /\ c \in Char
        /\ r[n].state = Goes(q, r[k].headers, c)
    BY <1>0, <2>1, RunStep
  <2>. HIDE DEF n, q, c
  <2>3. (r[n].state = "method_start") <=> n = 0
    BY <2>1, <2>2, States, RequestLineTable, HeaderTable DEF Goes
  <2>4. k = n - 1 /\ c = t[n] /\ n \in 1..Len(t)
    BY <2>1 DEF c
  <2>5. (r[n].state = "method") <=> n \in Method(t)
    BY <2>1, <2>2, <2>4, IntoRequestLine, NextPlaces DEF AtPlaces, q
  <2>6. (r[n].state = "uri") <=> n \in Uri(t)
    BY <2>1, <2>2, <2>4, IntoRequestLine, NextPlaces DEF AtPlaces, q
  <2>7. (r[n].state = "http_version_h") <=> n \in VersionH(t)
    BY <2>1, <2>2, <2>4, IntoRequestLine, NextPlaces DEF AtPlaces, q
  <2>8. (r[n].state = "http_version_t_1") <=> n \in VersionT1(t)
    BY <2>1, <2>2, <2>4, IntoRequestLine, NextPlaces DEF AtPlaces, q
  <2>9. (r[n].state = "http_version_t_2") <=> n \in VersionT2(t)
    BY <2>1, <2>2, <2>4, IntoRequestLine, NextPlaces DEF AtPlaces, q
  <2>10. (r[n].state = "http_version_p") <=> n \in VersionP(t)
    BY <2>1, <2>2, <2>4, IntoRequestLine, NextPlaces DEF AtPlaces, q
  <2>11. (r[n].state = "http_version_slash") <=> n \in Slash(t)
    BY <2>1, <2>2, <2>4, IntoRequestLine, NextPlaces DEF AtPlaces, q
  <2>12. (r[n].state = "http_version_major_start") <=> n \in MajorStart(t)
    BY <2>1, <2>2, <2>4, IntoRequestLine, NextPlaces DEF AtPlaces, q
  <2>13. (r[n].state = "http_version_major") <=> n \in Major(t)
    BY <2>1, <2>2, <2>4, IntoRequestLine, NextPlaces DEF AtPlaces, q
  <2>14. (r[n].state = "http_version_minor_start") <=> n \in MinorStart(t)
    BY <2>1, <2>2, <2>4, IntoRequestLine, NextPlaces DEF AtPlaces, q
  <2>15. (r[n].state = "http_version_minor") <=> n \in Minor(t)
    BY <2>1, <2>2, <2>4, IntoRequestLine, NextPlaces DEF AtPlaces, q
  <2>20. AtPlaces(r, t, n)
    BY <2>3, <2>5, <2>6, <2>7, <2>8, <2>9, <2>10, <2>11, <2>12, <2>13, <2>14, <2>15 DEF AtPlaces
  <2>. QED
    BY <2>1, <2>20 DEF n
<1>3. 0..Len(t) \subseteq T
  <2>. HIDE DEF T
  <2>. QED
    BY <1>0, <1>1, <1>2, SetInductionFromZero
<1>. QED
  BY <1>3

\* The places of a header line that begins behind b, and of a folded one.
HeaderName(t, b) == Many(t, {b}, Token)
Colon(t, b)      == Then(t, HeaderName(t, b), {":"})
ValueStart(t, b) == Then(t, Colon(t, b), {"SP"})
Value(t, b)      == ValueStart(t, b) \cup Many(t, ValueStart(t, b), Text)
Lws(t, b)        == Many(t, {b}, {"SP", "TAB"})
Folded(t, b)     == Lws(t, b) \cup Many(t, Lws(t, b), Text)

\* The places behind a union of a start and its continuation.
LEMMA OpenStep ==
  ASSUME NEW t \in Seq(Char), NEW Q, Q \subseteq Nat, NEW C, NEW n \in 1..Len(t)
  PROVE  n \in Q \cup Many(t, Q, C) <=> n \in Q \/ (t[n] \in C /\ n - 1 \in Q \cup Many(t, Q, C))
BY ManyStep

LEMMA NextHeaderPlaces ==
  ASSUME NEW t \in Seq(Char), NEW b \in Nat, NEW n \in 1..Len(t), NEW k, k = n - 1, NEW c, c = t[n]
  PROVE
    /\ n \in HeaderName(t, b) <=> c \in Token /\ (k = b \/ k \in HeaderName(t, b))
    /\ n \in Colon(t, b) <=> k \in HeaderName(t, b) /\ c = ":"
    /\ n \in Value(t, b) <=> (k \in Colon(t, b) /\ c = "SP") \/ (k \in Value(t, b) /\ c \in Text)
    /\ n \in Lws(t, b) <=> c \in {"SP", "TAB"} /\ (k = b \/ k \in Lws(t, b))
    /\ n \in Folded(t, b) <=> n \in Lws(t, b) \/ (k \in Folded(t, b) /\ c \in Text)
    /\ k \in Lws(t, b) => k \in Folded(t, b)
<1>0. {b} \subseteq Nat
  OBVIOUS
<1>1. n \in HeaderName(t, b) <=> c \in Token /\ (k = b \/ k \in HeaderName(t, b))
  <2>1. n \in Many(t, {b}, Token) <=> t[n] \in Token /\ (n - 1 \in {b} \/ n - 1 \in Many(t, {b}, Token))
    BY <1>0, ManyStep
  <2>. QED
    BY <2>1 DEF HeaderName
<1>2. n \in Colon(t, b) <=> k \in HeaderName(t, b) /\ c = ":"
  BY ThenStep DEF Colon
<1>3. n \in Value(t, b) <=> (k \in Colon(t, b) /\ c = "SP") \/ (k \in Value(t, b) /\ c \in Text)
  <2>1. ValueStart(t, b) \subseteq Nat
    BY PlacesAreNats DEF ValueStart
  <2>2. n \in ValueStart(t, b) <=> c = "SP" /\ k \in Colon(t, b)
    BY ThenStep DEF ValueStart
  <2>3. n \in Value(t, b) <=> n \in ValueStart(t, b) \/ (t[n] \in Text /\ n - 1 \in Value(t, b))
    BY <2>1, OpenStep DEF Value
  <2>. QED
    BY <2>2, <2>3
<1>4. n \in Lws(t, b) <=> c \in {"SP", "TAB"} /\ (k = b \/ k \in Lws(t, b))
  <2>1. n \in Many(t, {b}, {"SP", "TAB"}) <=>
          t[n] \in {"SP", "TAB"} /\ (n - 1 \in {b} \/ n - 1 \in Many(t, {b}, {"SP", "TAB"}))
    BY <1>0, ManyStep
  <2>. QED
    BY <2>1 DEF Lws
<1>5. n \in Folded(t, b) <=> n \in Lws(t, b) \/ (k \in Folded(t, b) /\ c \in Text)
  <2>1. Lws(t, b) \subseteq Nat
    BY PlacesAreNats DEF Lws
  <2>2. n \in Folded(t, b) <=> n \in Lws(t, b) \/ (t[n] \in Text /\ n - 1 \in Folded(t, b))
    BY <2>1, OpenStep DEF Folded
  <2>. QED
    BY <2>2
<1>6. k \in Lws(t, b) => k \in Folded(t, b)
  BY DEF Folded
<1>. QED
  BY <1>1, <1>2, <1>3, <1>4, <1>5, <1>6

\* The places are behind the start.
LEMMA HeaderPlacesAreBehind ==
  ASSUME NEW t \in Seq(Char), NEW b \in Nat
  PROVE  b \notin HeaderName(t, b) \cup Colon(t, b) \cup Value(t, b) \cup Lws(t, b) \cup Folded(t, b)
<1>1. \A n \in HeaderName(t, b) \cup Lws(t, b) : n \in Nat /\ n > b
  BY DEF HeaderName, Lws, Many
<1>2. \A n \in Colon(t, b) : n \in Nat /\ n > b
  BY <1>1 DEF Colon, Then
<1>3. \A n \in ValueStart(t, b) : n \in Nat /\ n > b
  BY <1>2 DEF ValueStart, Then
<1>4. \A n \in Value(t, b) : n > b
  BY <1>3 DEF Value, Many
<1>5. \A n \in Folded(t, b) : n > b
  BY <1>1 DEF Folded, Many
<1>. QED
  BY <1>1, <1>2, <1>4, <1>5

NoCR(t, b, n) == \A x \in (b + 1)..n : t[x] # "CR"

\* A parser that was at the start of a line is in the states of a header exactly
\* at their places, until a carriage return.
AtHeaderPlaces(r, t, b, n) ==
  /\ (r[n].state = "header_line_start") <=> n = b
  /\ (r[n].state = "header_name") <=> n \in HeaderName(t, b)
  /\ (r[n].state = "space_before_header_value") <=> n \in Colon(t, b)
  /\ (r[n].state = "header_lws") <=> r[b].headers /\ n \in Lws(t, b)
  /\ (r[n].state \in {"header_value", "header_lws"}) <=>
          n \in Value(t, b) \/ (r[b].headers /\ n \in Folded(t, b))
  /\ r[n].state \notin {"expecting_newline_1", "expecting_newline_2"}

LEMMA HeaderPlaces ==
  ASSUME NEW p \in Parser, NEW t \in Seq(Char), NEW r, Runs(r, p, t),
         NEW b \in 0..Len(t), r[b].state = "header_line_start"
  PROVE  \A n \in b..Len(t) : NoCR(t, b, n) => AtHeaderPlaces(r, t, b, n)
<1>. DEFINE T == {n \in 0..Len(t) : b <= n /\ NoCR(t, b, n) => AtHeaderPlaces(r, t, b, n)}
<1>0. Len(t) \in Nat /\ b \in Nat
  OBVIOUS
<1>1. AtHeaderPlaces(r, t, b, b)
  BY <1>0, HeaderPlacesAreBehind DEF AtHeaderPlaces
<1>2. ASSUME NEW k \in 0..Len(t), k \in T, k < Len(t) PROVE k + 1 \in T
  <2>. DEFINE n == k + 1
              q == r[k].state
              c == t[n]
              h == r[b].headers
  <2>1. n \in 1..Len(t) /\ n - 1 = k
    BY <1>0, <1>2
  <2>2. /\ q \in ParserStates /\ r[k].headers \in BOOLEAN /\ c \in Char
        /\ r[n].state = Goes(q, r[k].headers, c)
    BY <1>0, <2>1, RunStep
  <2>3. CASE n = b
    BY <1>0, <1>1, <2>1, <2>3
  <2>4. CASE n < b
    BY <1>0, <2>1, <2>4
  <2>5. CASE n > b
    <3>1. SUFFICES ASSUME NoCR(t, b, n) PROVE AtHeaderPlaces(r, t, b, n)
      BY <2>1
    <3>2. b <= k /\ c # "CR" /\ NoCR(t, b, k)
      BY <1>0, <2>1, <2>5, <3>1 DEF NoCR
    <3>3. AtHeaderPlaces(r, t, b, k)
      BY <1>2, <3>2
    <3>4. k = b => r[k].headers = h
      OBVIOUS
    <3>5. n # b
      BY <1>0, <2>1, <2>5
    <3>6. k = n - 1 /\ c = t[n] /\ n \in 1..Len(t)
      BY <2>1
    <3>. HIDE DEF n, q, c
    <3>7. (r[n].state = "header_line_start") <=> n = b
      BY <2>2, <3>3, <3>5, IntoHeader DEF AtHeaderPlaces, q
    <3>8. (r[n].state = "header_name") <=> n \in HeaderName(t, b)
      <4>1. n \in HeaderName(t, b) <=> c \in Token /\ (k = b \/ k \in HeaderName(t, b))
        BY <1>0, <3>6, NextHeaderPlaces
      <4>. QED
        BY <2>2, <3>3, <4>1, IntoHeader DEF AtHeaderPlaces, q
    <3>9. (r[n].state = "space_before_header_value") <=> n \in Colon(t, b)
      <4>1. n \in Colon(t, b) <=> k \in HeaderName(t, b) /\ c = ":"
        BY <1>0, <3>6, NextHeaderPlaces
      <4>. QED
        BY <2>2, <3>3, <4>1, IntoHeader DEF AtHeaderPlaces, q
    <3>10. (r[n].state = "header_lws") <=> h /\ n \in Lws(t, b)
      <4>1. n \in Lws(t, b) <=> c \in {"SP", "TAB"} /\ (k = b \/ k \in Lws(t, b))
        BY <1>0, <3>6, NextHeaderPlaces
      <4>. QED
        BY <2>2, <3>3, <3>4, <4>1, IntoHeader DEF AtHeaderPlaces, q
    <3>11. (r[n].state \in {"header_value", "header_lws"}) <=>
             n \in Value(t, b) \/ (h /\ n \in Folded(t, b))
      <4>1. /\ n \in Value(t, b) <=> (k \in Colon(t, b) /\ c = "SP") \/ (k \in Value(t, b) /\ c \in Text)
            /\ n \in Folded(t, b) <=> n \in Lws(t, b) \/ (k \in Folded(t, b) /\ c \in Text)
        BY <1>0, <3>6, NextHeaderPlaces
      <4>2. (r[n].state = "header_value") <=>
              \/ q = "space_before_header_value" /\ c = "SP"
              \/ q = "header_lws" /\ c \in Text \ {"SP"}
              \/ q = "header_value" /\ c \in Text
        BY <2>2, IntoHeader
      <4>3. q = "header_lws" /\ c = "SP" => r[n].state = "header_lws"
        BY <2>2, IntoHeader
      <4>4. "SP" \in Text
        BY Classes
      <4>5. (r[n].state \in {"header_value", "header_lws"}) <=>
              \/ q = "space_before_header_value" /\ c = "SP"
              \/ r[n].state = "header_lws"
              \/ q \in {"header_value", "header_lws"} /\ c \in Text
        BY <4>2, <4>3, <4>4
      <4>6. /\ (q = "space_before_header_value") <=> k \in Colon(t, b)
            /\ (q \in {"header_value", "header_lws"}) <=> k \in Value(t, b) \/ (h /\ k \in Folded(t, b))
        BY <3>3 DEF AtHeaderPlaces, q
      <4>. HIDE DEF h
      <4>. QED
        BY <3>10, <4>1, <4>5, <4>6
    <3>12. r[n].state \notin {"expecting_newline_1", "expecting_newline_2"}
      BY <2>2, <3>2, IntoHeader, IntoRequestLine
    <3>. QED
      BY <3>7, <3>8, <3>9, <3>10, <3>11, <3>12 DEF AtHeaderPlaces
  <2>. QED
    BY <1>0, <2>1, <2>3, <2>4, <2>5
<1>3. 0 \in T
  BY <1>0, <1>1
<1>4. 0..Len(t) \subseteq T
  <2>. HIDE DEF T
  <2>. QED
    BY <1>0, <1>2, <1>3, SetInductionFromZero
<1>. QED
  BY <1>4

-----------------------------------------------------------------------------
(* Lines *)

InRequestLine ==
  {"method_start", "method", "uri", "http_version_h", "http_version_t_1", "http_version_t_2",
   "http_version_p", "http_version_slash", "http_version_major_start", "http_version_major",
   "http_version_minor_start", "http_version_minor"}
InHeader == {"header_name", "space_before_header_value", "header_value", "header_lws"}

\* What a state tells of the past: there was no header and no carriage return,
\* or there was a header, and no carriage return since the start of the line.
Past(r, t, n) ==
  /\ r[n].state \in InRequestLine => NoCR(t, 0, n) /\ ~ r[n].headers
  /\ r[n].state \in InHeader => r[n].headers
  /\ r[n].state \in InHeader \cup {"header_line_start"} =>
       \E b \in 0..n : r[b].state = "header_line_start" /\ NoCR(t, b, n)

LEMMA IntoLine ==
  ASSUME NEW q \in ParserStates, NEW headers \in BOOLEAN, NEW c \in Char, NEW next,
         next = Goes(q, headers, c)
  PROVE  /\ next \in InRequestLine =>
              q \in InRequestLine /\ c # "CR" /\ next # "header_name"
         /\ next \in InHeader =>
              /\ q \in InHeader \cup {"header_line_start"} /\ c # "CR"
              /\ q = "header_line_start" => headers \/ next = "header_name"
<1>1. c # "CR" <=> ~ (c = "CR")
  OBVIOUS
<1>2. next \in InRequestLine => q \in InRequestLine
  BY States, RequestLineTable, HeaderTable DEF Goes, InRequestLine
<1>3. next \in InRequestLine => c # "CR"
  BY Classes, States, RequestLineTable, HeaderTable DEF Goes, InRequestLine
<1>4. next \in InHeader => c # "CR"
  BY Classes, States, RequestLineTable, HeaderTable DEF Goes, InHeader
<1>5. next \in InHeader =>
        /\ q \in InHeader \cup {"header_line_start"}
        /\ q = "header_line_start" => headers \/ next = "header_name"
  BY Classes, States, RequestLineTable, HeaderTable DEF Goes, InHeader
<1>. QED
  BY <1>2, <1>3, <1>4, <1>5 DEF InRequestLine

LEMMA RunPast ==
  ASSUME NEW t \in Seq(Char), NEW r, Runs(r, NewParser, t)
  PROVE  \A n \in 0..Len(t) : Past(r, t, n)
<1>. DEFINE T == {n \in 0..Len(t) : Past(r, t, n)}
<1>0. NewParser \in Parser /\ Len(t) \in Nat
  BY States DEF NewParser, Parser
<1>1. 0 \in T
  <2>1. r[0].state = "method_start" /\ ~ r[0].headers
    BY DEF Runs, NewParser
  <2>. QED
    BY <1>0, <2>1 DEF Past, NoCR, InHeader
<1>2. ASSUME NEW k \in 0..Len(t), k \in T, k < Len(t) PROVE k + 1 \in T
  <2>. DEFINE n == k + 1
              q == r[k].state
              c == t[n]
  <2>1. n \in 1..Len(t) /\ n - 1 = k /\ n \in 0..Len(t)
    BY <1>0, <1>2
  <2>2. /\ q \in ParserStates /\ r[k].headers \in BOOLEAN /\ c \in Char
        /\ r[n].state = Goes(q, r[k].headers, c)
        /\ r[n].headers = (r[k].headers \/ r[n].state = "header_name")
    BY <1>0, <2>1, RunStep
  <2>3. Past(r, t, k)
    BY <1>2
  <2>4. \A b \in Nat : NoCR(t, b, k) /\ c # "CR" => NoCR(t, b, n)
    BY <1>0, <2>1 DEF NoCR
  <2>5. \A b \in 0..k : b \in 0..n /\ b \in Nat
    BY <1>0, <2>1
  <2>6. NoCR(t, n, n) /\ n \in 0..n
    BY <1>0, <2>1 DEF NoCR
  <2>. HIDE DEF n, q, c
  <2>7. r[n].state \in InRequestLine => NoCR(t, 0, n) /\ ~ r[n].headers
    <3>1. SUFFICES ASSUME r[n].state \in InRequestLine PROVE NoCR(t, 0, n) /\ ~ r[n].headers
      OBVIOUS
    <3>2. q \in InRequestLine /\ c # "CR" /\ r[n].state # "header_name"
      BY <2>2, <3>1, IntoLine
    <3>. QED
      BY <2>2, <2>3, <2>4, <3>2 DEF Past, q
  <2>8. r[n].state \in InHeader => r[n].headers
    BY <2>2, <2>3, IntoLine, ZenonT(40) DEF Past, q
  <2>9. ASSUME r[n].state \in InHeader \cup {"header_line_start"}
        PROVE  \E b \in 0..n : r[b].state = "header_line_start" /\ NoCR(t, b, n)
    <3>1. CASE r[n].state = "header_line_start"
      BY <2>6, <3>1
    <3>2. CASE r[n].state \in InHeader
      <4>1. q \in InHeader \cup {"header_line_start"} /\ c # "CR"
        BY <2>2, <3>2, IntoLine
      <4>2. PICK b \in 0..k : r[b].state = "header_line_start" /\ NoCR(t, b, k)
        BY <2>3, <4>1 DEF Past, q
      <4>. QED
        BY <2>4, <2>5, <4>1, <4>2
    <3>. QED
      BY <2>9, <3>1, <3>2
  <2>10. Past(r, t, n)
    BY <2>7, <2>8, <2>9 DEF Past
  <2>. QED
    BY <2>1, <2>10 DEF n
<1>3. 0..Len(t) \subseteq T
  <2>. HIDE DEF T
  <2>. QED
    BY <1>0, <1>1, <1>2, SetInductionFromZero
<1>. QED
  BY <1>3

\* A line starts behind a carriage return and a line feed that follow a request
\* line or a header.
LEMMA LineStart ==
  ASSUME NEW t \in Seq(Char), NEW r, Runs(r, NewParser, t), NEW n \in 0..Len(t)
  PROVE
    /\ (r[n].state = "header_line_start") <=>
         n >= 2 /\ t[n - 1] = "CR" /\ t[n] = "LF"
           /\ r[n - 2].state \in {"http_version_minor", "header_value", "header_lws"}
    /\ (r[n].state = "header_line_start") => r[n].headers = r[n - 2].headers
<1>0. NewParser \in Parser /\ Len(t) \in Nat
  BY States DEF NewParser, Parser
<1>1. r[0].state = "method_start"
  BY DEF Runs, NewParser
<1>2. CASE n = 0
  BY <1>1, <1>2
<1>3. CASE n = 1
  <2>1. /\ r[0].state \in ParserStates /\ r[0].headers \in BOOLEAN /\ t[1] \in Char
        /\ r[1].state = Goes(r[0].state, r[0].headers, t[1])
    <3>1. 1 \in 1..Len(t) /\ 1 - 1 = 0
      BY <1>0, <1>3
    <3>. QED
      BY <1>0, <3>1, RunStep
  <2>2. r[1].state # "header_line_start"
    BY <1>1, <2>1, IntoHeader
  <2>. QED
    BY <1>3, <2>2
<1>4. CASE n >= 2
  <2>1. n \in 1..Len(t) /\ n - 1 \in 1..Len(t) /\ (n - 1) - 1 = n - 2
    BY <1>0, <1>4
  <2>2. /\ r[n - 1].state \in ParserStates /\ r[n - 1].headers \in BOOLEAN /\ t[n] \in Char
        /\ r[n].state = Goes(r[n - 1].state, r[n - 1].headers, t[n])
        /\ r[n].headers = (r[n - 1].headers \/ r[n].state = "header_name")
    BY <1>0, <2>1, RunStep
  <2>3. /\ r[n - 2].state \in ParserStates /\ r[n - 2].headers \in BOOLEAN /\ t[n - 1] \in Char
        /\ r[n - 1].state = Goes(r[n - 2].state, r[n - 2].headers, t[n - 1])
        /\ r[n - 1].headers = (r[n - 2].headers \/ r[n - 1].state = "header_name")
    BY <1>0, <2>1, RunStep
  <2>4. (r[n].state = "header_line_start") <=>
          r[n - 1].state \in {"expecting_newline_1", "expecting_newline_2"} /\ t[n] = "LF"
    BY <2>2, IntoHeader
  <2>5. (r[n - 1].state = "expecting_newline_1") <=>
          r[n - 2].state = "http_version_minor" /\ t[n - 1] = "CR"
    BY <2>3, IntoRequestLine
  <2>6. (r[n - 1].state = "expecting_newline_2") <=>
          r[n - 2].state \in {"header_value", "header_lws"} /\ t[n - 1] = "CR"
    BY <2>3, IntoHeader
  <2>. QED
    BY <1>4, <2>2, <2>3, <2>4, <2>5, <2>6
<1>. QED
  BY <1>0, <1>2, <1>3, <1>4

\* No place of a header line has a carriage return before it.
LEMMA HeaderHasNoCR ==
  ASSUME NEW t \in Seq(Char), NEW b \in Nat, NEW n \in Value(t, b) \cup Folded(t, b)
  PROVE  n \in 1..Len(t) /\ b < n /\ NoCR(t, b, n)
<1>1. \A m \in HeaderName(t, b) : m \in 1..Len(t) /\ b < m /\ NoCR(t, b, m)
  BY Classes DEF HeaderName, Many, NoCR
<1>2. \A m \in Colon(t, b) : m \in 1..Len(t) /\ b < m /\ NoCR(t, b, m)
  <2>1. ASSUME NEW m \in Colon(t, b) PROVE m \in 1..Len(t) /\ b < m /\ NoCR(t, b, m)
    <3>1. m \in 1..Len(t) /\ m - 1 \in HeaderName(t, b) /\ t[m] = ":"
      BY DEF Colon, Then
    <3>. QED
      BY <1>1, <3>1 DEF NoCR
  <2>. QED
    BY <2>1
<1>3. \A m \in ValueStart(t, b) : m \in 1..Len(t) /\ b < m /\ NoCR(t, b, m)
  <2>1. ASSUME NEW m \in ValueStart(t, b) PROVE m \in 1..Len(t) /\ b < m /\ NoCR(t, b, m)
    <3>1. m \in 1..Len(t) /\ m - 1 \in Colon(t, b) /\ t[m] = "SP"
      BY DEF ValueStart, Then
    <3>. QED
      BY <1>2, <3>1 DEF NoCR
  <2>. QED
    BY <2>1
<1>4. \A m \in Lws(t, b) : m \in 1..Len(t) /\ b < m /\ NoCR(t, b, m)
  BY DEF Lws, Many, NoCR
<1>5. ASSUME NEW Q, \A m \in Q : m \in 1..Len(t) /\ b < m /\ NoCR(t, b, m),
             NEW k \in Many(t, Q, Text)
      PROVE  k \in 1..Len(t) /\ b < k /\ NoCR(t, b, k)
  <2>1. PICK m \in Q : m < k /\ \A x \in (m + 1)..k : t[x] \in Text
    BY DEF Many
  <2>2. k \in 1..Len(t) /\ m \in 1..Len(t) /\ b < m /\ NoCR(t, b, m)
    BY <1>5 DEF Many
  <2>. QED
    BY <2>1, <2>2, Classes DEF NoCR
<1>6. \A k \in Value(t, b) : k \in 1..Len(t) /\ b < k /\ NoCR(t, b, k)
  BY <1>3, <1>5 DEF Value
<1>7. \A k \in Folded(t, b) : k \in 1..Len(t) /\ b < k /\ NoCR(t, b, k)
  BY <1>4, <1>5 DEF Folded
<1>. QED
  BY <1>6, <1>7

\* The parser is behind the first line if that is a request line ...
LEMMA FirstLine ==
  ASSUME NEW t \in Seq(Char), NEW r, Runs(r, NewParser, t), NEW n \in 0..Len(t),
         n - 1 \in Ends(t), \A e \in Ends(t) : n - 1 <= e
  PROVE  /\ (r[n].state = "header_line_start") <=> n - 2 \in Minor(t)
         /\ (r[n].state = "header_line_start") => ~ r[n].headers
<1>1. n >= 2 /\ n - 2 \in 0..Len(t) /\ t[n - 1] = "CR" /\ t[n] = "LF"
  BY DEF Ends
<1>2. r[n - 2].state \notin {"header_value", "header_lws"}
  <2>1. SUFFICES ASSUME r[n - 2].state \in {"header_value", "header_lws"} PROVE FALSE
    OBVIOUS
  <2>2. Past(r, t, n - 2)
    BY <1>1, RunPast
  <2>3. PICK b \in 0..(n - 2) : r[b].state = "header_line_start"
    BY <2>1, <2>2 DEF Past, InHeader
  <2>4. b \in 0..Len(t)
    BY <1>1
  <2>5. b >= 2 /\ t[b - 1] = "CR" /\ t[b] = "LF"
    BY <2>3, <2>4, LineStart
  <2>6. b - 1 \in Ends(t)
    BY <2>4, <2>5 DEF Ends
  <2>. QED
    BY <1>1, <2>6
<1>3. (r[n].state = "header_line_start") <=> r[n - 2].state = "http_version_minor"
  BY <1>1, <1>2, LineStart
<1>4. (r[n - 2].state = "http_version_minor") <=> n - 2 \in Minor(t)
  BY <1>1, RequestLinePlaces DEF AtPlaces
<1>5. (r[n - 2].state = "http_version_minor") => ~ r[n - 2].headers
  BY <1>1, RunPast DEF Past, InRequestLine
<1>6. (r[n].state = "header_line_start") => r[n].headers = r[n - 2].headers
  BY LineStart
<1>. QED
  BY <1>3, <1>4, <1>5, <1>6

\* ... and behind the next if it was behind the one before and the next is a
\* header, or a folded line behind a header.
LEMMA NextLine ==
  ASSUME NEW t \in Seq(Char), NEW r, Runs(r, NewParser, t), NEW b \in 0..Len(t), NEW n \in 0..Len(t),
         b - 1 \in Ends(t), n - 1 \in Ends(t), b < n, \A e \in Ends(t) : e < n - 1 => e <= b - 1
  PROVE  /\ b <= n - 2
         /\ (r[n].state = "header_line_start") <=>
              r[b].state = "header_line_start"
                /\ (n - 2 \in Value(t, b) \/ (r[b].headers /\ n - 2 \in Folded(t, b)))
         /\ (r[n].state = "header_line_start") => r[n].headers
<1>0. NewParser \in Parser /\ Len(t) \in Nat
  BY States DEF NewParser, Parser
<1>1. n >= 2 /\ n - 2 \in 0..Len(t) /\ t[n - 1] = "CR" /\ t[n] = "LF"
  BY DEF Ends
<1>2. b >= 2 /\ t[b - 1] = "CR" /\ t[b] = "LF"
  BY DEF Ends
<1>3. b <= n - 2
  <2>1. b # n - 1
    BY <1>1, <1>2
  <2>. QED
    BY <2>1
<1>4. ASSUME r[n].state = "header_line_start"
      PROVE  /\ r[b].state = "header_line_start" /\ r[n].headers /\ NoCR(t, b, n - 2)
             /\ r[n - 2].state \in {"header_value", "header_lws"}
  <2>1. r[n - 2].state \in {"http_version_minor", "header_value", "header_lws"}
        /\ r[n].headers = r[n - 2].headers
    BY <1>4, LineStart
  <2>2. Past(r, t, n - 2)
    BY <1>1, RunPast
  <2>3. r[n - 2].state # "http_version_minor"
    <3>1. r[n - 2].state = "http_version_minor" => NoCR(t, 0, n - 2)
      BY <2>2 DEF Past, InRequestLine
    <3>2. ~ NoCR(t, 0, n - 2)
      BY <1>2, <1>3 DEF NoCR
    <3>. QED
      BY <3>1, <3>2
  <2>4. r[n - 2].headers
    BY <2>1, <2>2, <2>3 DEF Past, InHeader
  <2>5. PICK a \in 0..(n - 2) : r[a].state = "header_line_start" /\ NoCR(t, a, n - 2)
    BY <2>1, <2>2, <2>3 DEF Past, InHeader
  <2>6. a \in 0..Len(t)
    BY <1>1
  <2>7. a >= 2 /\ t[a - 1] = "CR" /\ t[a] = "LF"
    BY <2>5, <2>6, LineStart
  <2>8. a - 1 <= b - 1
    <3>1. a - 1 \in Ends(t)
      BY <2>6, <2>7 DEF Ends
    <3>2. a - 1 < n - 1
      BY <1>1
    <3>. QED
      BY <3>1, <3>2
  <2>9. ~ (b - 1 \in (a + 1)..(n - 2))
    BY <1>2, <2>5 DEF NoCR
  <2>10. a # b - 1
    BY <1>2, <2>7
  <2>11. a = b
    BY <1>1, <1>3, <2>8, <2>9, <2>10
  <2>. QED
    BY <2>1, <2>3, <2>4, <2>5, <2>11
<1>5. ASSUME r[b].state = "header_line_start", NoCR(t, b, n - 2)
      PROVE  (r[n - 2].state \in {"header_value", "header_lws"}) <=>
                n - 2 \in Value(t, b) \/ (r[b].headers /\ n - 2 \in Folded(t, b))
  <2>1. n - 2 \in b..Len(t)
    BY <1>1, <1>3
  <2>2. AtHeaderPlaces(r, t, b, n - 2)
    BY <1>0, <1>5, <2>1, HeaderPlaces
  <2>. QED
    BY <2>2 DEF AtHeaderPlaces
<1>6. ASSUME r[b].state = "header_line_start",
             n - 2 \in Value(t, b) \/ (r[b].headers /\ n - 2 \in Folded(t, b))
      PROVE  r[n].state = "header_line_start"
  <2>1. NoCR(t, b, n - 2)
    BY <1>6, HeaderHasNoCR
  <2>2. r[n - 2].state \in {"header_value", "header_lws"}
    BY <1>5, <1>6, <2>1
  <2>. QED
    BY <1>1, <2>2, LineStart
<1>. QED
  BY <1>3, <1>4, <1>5, <1>6

-----------------------------------------------------------------------------
(* The grammar's lines and their places *)

\* What the grammar says of a part of a line, in terms of the text.
LEMMA AllOfPart ==
  ASSUME NEW t \in Seq(Char), NEW i \in 1..(Len(t) + 1), NEW j \in (i - 1)..Len(t), NEW C
  PROVE  All(SubSeq(t, i, j), C) <=> \A x \in i..j : t[x] \in C
<1>. DEFINE m == i - 1
            s == SubSeq(t, i, j)
<1>1. m \in 0..Len(t) /\ j \in m..Len(t) /\ m + 1 = i
  OBVIOUS
<1>2. s \in Seq(Char) /\ Len(s) = j - m /\ \A x \in 1..(j - m) : s[x] = t[m + x]
  <2>1. SubSeq(t, m + 1, j) = s
    BY <1>1
  <2>. HIDE DEF m, s
  <2>. QED
    BY <1>1, <2>1, PartOf
<1>. HIDE DEF s
<1>3. ToSet(s) = {s[x] : x \in 1..(j - m)}
  BY <1>2 DEF ToSet
<1>4. All(s, C) <=> \A x \in 1..(j - m) : t[m + x] \in C
  BY <1>2, <1>3 DEF All
<1>5. ASSUME NEW x \in i..j PROVE x - m \in 1..(j - m) /\ m + (x - m) = x
  OBVIOUS
<1>6. \A x \in 1..(j - m) : m + x \in i..j
  OBVIOUS
<1>. HIDE DEF m
<1>7. (\A x \in 1..(j - m) : t[m + x] \in C) <=> \A x \in i..j : t[x] \in C
  BY <1>5, <1>6
<1>. QED
  BY <1>4, <1>7 DEF s

\* The line s of a text, from behind b to n.
IsLine(s, t, b, n) ==
  /\ t \in Seq(Char) /\ b \in Nat /\ n \in Nat /\ b <= n /\ n <= Len(t)
  /\ s \in Seq(Char) /\ Len(s) = n - b /\ \A x \in 1..(n - b) : s[x] = t[b + x]

LEMMA AllOfLine ==
  ASSUME NEW s, NEW t, NEW b, NEW n, IsLine(s, t, b, n), NEW C,
         NEW i \in Nat, NEW j \in Nat, 1 <= i, i <= j + 1, j <= n - b,
         NEW first, first = b + i, NEW last, last = b + j
  PROVE  All(SubSeq(s, i, j), C) <=> \A x \in first..last : t[x] \in C
<1>1. /\ b \in Nat /\ n \in Nat /\ b <= n
      /\ s \in Seq(Char) /\ Len(s) = n - b /\ \A x \in 1..(n - b) : s[x] = t[b + x]
  BY DEF IsLine
<1>2. All(SubSeq(s, i, j), C) <=> \A x \in i..j : s[x] \in C
  <2>1. i \in 1..(Len(s) + 1) /\ j \in (i - 1)..Len(s)
    BY <1>1
  <2>. QED
    BY <1>1, <2>1, AllOfPart
<1>3. \A x \in i..j : x \in 1..(n - b) /\ b + x \in first..last
  BY <1>1
<1>4. \A x \in first..last : x - b \in i..j /\ b + (x - b) = x
  BY <1>1
<1>. QED
  BY <1>1, <1>2, <1>3, <1>4

\* Around its character i.
LEMMA SplitLine ==
  ASSUME NEW s, NEW t, NEW b, NEW n, IsLine(s, t, b, n), NEW C, NEW i \in 1..(n - b)
  PROVE  /\ s[i] = t[b + i]
         /\ All(SubSeq(s, 1, i), C) <=> \A x \in (b + 1)..(b + i) : t[x] \in C
         /\ All(Upto(s, i), C) <=> \A x \in (b + 1)..(b + i - 1) : t[x] \in C
         /\ All(After(s, i), C) <=> \A x \in (b + i + 1)..n : t[x] \in C
<1>1. b \in Nat /\ n \in Nat /\ s[i] = t[b + i] /\ Len(s) = n - b
  BY DEF IsLine
<1>2. All(SubSeq(s, 1, i), C) <=> \A x \in (b + 1)..(b + i) : t[x] \in C
  <2>1. i \in Nat /\ 1 \in Nat /\ 1 <= 1 /\ 1 <= i + 1 /\ i <= n - b
    BY <1>1
  <2>. QED
    BY <2>1, AllOfLine
<1>3. All(SubSeq(s, 1, i - 1), C) <=> \A x \in (b + 1)..(b + i - 1) : t[x] \in C
  <2>1. i - 1 \in Nat /\ 1 \in Nat /\ 1 <= (i - 1) + 1 /\ i - 1 <= n - b /\ b + i - 1 = b + (i - 1)
    BY <1>1
  <2>. QED
    BY <2>1, AllOfLine
<1>4. All(SubSeq(s, i + 1, n - b), C) <=> \A x \in (b + i + 1)..n : t[x] \in C
  <2>. DEFINE j == n - b
              k == i + 1
              first == b + i + 1
  <2>1. k \in Nat /\ j \in Nat /\ 1 <= k /\ k <= j + 1 /\ j <= n - b /\ first = b + k /\ n = b + j
    BY <1>1
  <2>. HIDE DEF j, k, first
  <2>2. All(SubSeq(s, k, j), C) <=> \A x \in first..n : t[x] \in C
    BY <2>1, AllOfLine, ZenonT(40)
  <2>. QED
    BY <2>2 DEF j, k, first
<1>. QED
  BY <1>1, <1>2, <1>3, <1>4 DEF Upto, After

LEMMA LineIs ==
  ASSUME NEW t \in Seq(Char), NEW b \in 0..Len(t), NEW n \in b..Len(t)
  PROVE  IsLine(SubSeq(t, b + 1, n), t, b, n)
BY PartOf DEF IsLine

LEMMA HeaderGrammar ==
  ASSUME NEW t \in Seq(Char), NEW b \in 0..Len(t), NEW n \in b..Len(t)
  PROVE  HeaderLine(SubSeq(t, b + 1, n)) <=> n \in Value(t, b)
<1>. DEFINE s == SubSeq(t, b + 1, n)
            AtColon(i) == /\ t[i] = ":" /\ t[i + 1] = "SP"
                          /\ \A x \in (b + 1)..(i - 1) : t[x] \in Token
                          /\ \A x \in (i + 1)..n : t[x] \in Text
<1>1. s \in Seq(Char) /\ Len(s) = n - b /\ \A x \in 1..(n - b) : s[x] = t[b + x]
  BY PartOf
<1>2. ASSUME NEW i \in 2..(Len(s) - 1)
      PROVE  /\ s[i] = t[b + i] /\ s[i + 1] = t[b + i + 1]
             /\ All(Upto(s, i), Token) <=> \A x \in (b + 1)..(b + i - 1) : t[x] \in Token
             /\ All(After(s, i), Text) <=> \A x \in (b + i + 1)..n : t[x] \in Text
  <2>1. i \in 1..(n - b) /\ i + 1 \in 1..(n - b) /\ b + (i + 1) = b + i + 1
    BY <1>1
  <2>2. s[i + 1] = t[b + (i + 1)]
    BY <1>1, <2>1
  <2>3. IsLine(s, t, b, n)
    BY LineIs
  <2>. HIDE DEF s
  <2>4. s[i] = t[b + i]
    BY <2>1, <2>3 DEF IsLine
  <2>5. All(Upto(s, i), Token) <=> \A x \in (b + 1)..(b + i - 1) : t[x] \in Token
    BY <2>1, <2>3, SplitLine
  <2>6. All(After(s, i), Text) <=> \A x \in (b + i + 1)..n : t[x] \in Text
    BY <2>1, <2>3, SplitLine
  <2>. QED
    BY <2>1, <2>2, <2>4, <2>5, <2>6
<1>3. HeaderLine(s) <=> \E i \in (b + 2)..(n - 1) : AtColon(i)
  <2>. HIDE DEF s
  <2>. DEFINE InLine(i) == s[i] = ":" /\ s[i + 1] = "SP" /\ All(Upto(s, i), Token) /\ All(After(s, i), Text)
  <2>1. ASSUME NEW i \in 2..(Len(s) - 1)
        PROVE  b + i \in (b + 2)..(n - 1) /\ (InLine(i) <=> AtColon(b + i))
    <3>1. b + i \in (b + 2)..(n - 1)
      BY <1>1
    <3>. QED
      BY <1>2, <3>1
  <2>2. ASSUME NEW i \in (b + 2)..(n - 1) PROVE i - b \in 2..(Len(s) - 1) /\ b + (i - b) = i
    BY <1>1
  <2>3. HeaderLine(s) <=> \E i \in 2..(Len(s) - 1) : InLine(i)
    BY DEF HeaderLine
  <2>. HIDE DEF AtColon, InLine
  <2>4. ASSUME NEW i \in 2..(Len(s) - 1), InLine(i) PROVE \E k \in (b + 2)..(n - 1) : AtColon(k)
    BY <2>1, <2>4
  <2>5. ASSUME NEW k \in (b + 2)..(n - 1), AtColon(k) PROVE \E i \in 2..(Len(s) - 1) : InLine(i)
    <3>1. k - b \in 2..(Len(s) - 1) /\ b + (k - b) = k
      BY <2>2
    <3>2. InLine(k - b)
      BY <2>1, <2>5, <3>1
    <3>. QED
      BY <3>1, <3>2
  <2>. QED
    BY <2>3, <2>4, <2>5
<1>4. ASSUME NEW i \in (b + 2)..(n - 1), AtColon(i) PROVE n \in Value(t, b)
  <2>1. i - 1 \in HeaderName(t, b)
    <3>1. i - 1 \in 1..Len(t) /\ b \in {b} /\ b < i - 1
      OBVIOUS
    <3>. QED
      BY <1>4, <3>1 DEF HeaderName, Many
  <2>2. i \in Colon(t, b)
    BY <1>4, <2>1 DEF Colon, Then
  <2>3. i + 1 \in ValueStart(t, b)
    BY <1>4, <2>2 DEF ValueStart, Then
  <2>4. CASE n = i + 1
    BY <2>3, <2>4 DEF Value
  <2>5. CASE n > i + 1
    <3>1. n \in 1..Len(t) /\ \A x \in ((i + 1) + 1)..n : t[x] \in Text
      BY <1>4
    <3>2. n \in Many(t, ValueStart(t, b), Text)
      BY <2>3, <2>5, <3>1 DEF Many
    <3>. QED
      BY <3>2 DEF Value
  <2>. QED
    BY <2>4, <2>5
<1>5. ASSUME n \in Value(t, b) PROVE \E i \in (b + 2)..(n - 1) : AtColon(i)
  <2>1. PICK v \in ValueStart(t, b) : v <= n /\ \A x \in (v + 1)..n : t[x] \in Text
    <3>1. n \in ValueStart(t, b) => n \in Nat
      BY DEF ValueStart, Then
    <3>2. \A v \in ValueStart(t, b) : v < n => v <= n
      BY DEF ValueStart, Then
    <3>3. n \in ValueStart(t, b) => n <= n /\ \A x \in (n + 1)..n : t[x] \in Text
      BY <3>1
    <3>. QED
      BY <1>5, <3>2, <3>3 DEF Value, Many
  <2>2. v \in 1..Len(t) /\ t[v] = "SP" /\ v - 1 \in Colon(t, b)
    BY <2>1 DEF ValueStart, Then
  <2>3. v - 1 \in 1..Len(t) /\ t[v - 1] = ":" /\ v - 2 \in HeaderName(t, b)
    <3>1. (v - 1) - 1 = v - 2
      BY <2>2
    <3>. QED
      BY <2>2, <3>1 DEF Colon, Then
  <2>4. v - 2 > b /\ \A x \in (b + 1)..(v - 2) : t[x] \in Token
    BY <2>3 DEF HeaderName, Many
  <2>5. v - 1 \in (b + 2)..(n - 1) /\ (v - 1) + 1 = v /\ (v - 1) - 1 = v - 2
    BY <2>1, <2>2, <2>4
  <2>6. \A x \in v..n : t[x] \in Text
    BY <2>1, <2>2, Classes
  <2>7. AtColon(v - 1)
    BY <2>2, <2>3, <2>4, <2>5, <2>6
  <2>. QED
    BY <2>5, <2>7
<1>. HIDE DEF AtColon
<1>. QED
  BY <1>3, <1>4, <1>5

LEMMA FoldedGrammar ==
  ASSUME NEW t \in Seq(Char), NEW b \in 0..Len(t), NEW n \in b..Len(t)
  PROVE  FoldedLine(SubSeq(t, b + 1, n)) <=> n \in Folded(t, b)
<1>. DEFINE s == SubSeq(t, b + 1, n)
            AtText(i) == /\ \A x \in (b + 1)..i : t[x] \in {"SP", "TAB"}
                         /\ \A x \in (i + 1)..n : t[x] \in Text
<1>1. s \in Seq(Char) /\ Len(s) = n - b /\ DOMAIN s = 1..(n - b) /\ \A x \in 1..(n - b) : s[x] = t[b + x]
  BY PartOf
<1>2. ASSUME NEW i \in 1..(n - b)
      PROVE  (All(SubSeq(s, 1, i), {"SP", "TAB"}) /\ All(After(s, i), Text)) <=> AtText(b + i)
  <2>1. IsLine(s, t, b, n) /\ b + i + 1 = (b + i) + 1
    BY LineIs
  <2>. HIDE DEF s
  <2>. QED
    BY <2>1, SplitLine
<1>3. FoldedLine(s) <=> \E i \in (b + 1)..n : AtText(i)
  <2>. HIDE DEF s
  <2>1. \A i \in 1..(n - b) : b + i \in (b + 1)..n
    OBVIOUS
  <2>2. ASSUME NEW i \in (b + 1)..n PROVE i - b \in 1..(n - b) /\ b + (i - b) = i
    OBVIOUS
  <2>3. ASSUME NEW i \in (b + 1)..n, AtText(i) PROVE s # <<>> /\ s[1] \in {"SP", "TAB"}
    <3>1. 1 \in 1..(n - b) /\ b + 1 \in (b + 1)..i
      OBVIOUS
    <3>. QED
      BY <1>1, <2>3, <3>1
  <2>. HIDE DEF AtText
  <2>. QED
    BY <1>1, <1>2, <2>1, <2>2, <2>3 DEF FoldedLine
<1>4. ASSUME NEW i \in (b + 1)..n, AtText(i) PROVE n \in Folded(t, b)
  <2>1. i \in Lws(t, b)
    <3>1. i \in 1..Len(t) /\ b \in {b} /\ b < i
      OBVIOUS
    <3>. QED
      BY <1>4, <3>1 DEF Lws, Many
  <2>2. CASE n = i
    BY <2>1, <2>2 DEF Folded
  <2>3. CASE n > i
    <3>1. n \in 1..Len(t)
      OBVIOUS
    <3>. QED
      BY <1>4, <2>1, <2>3, <3>1 DEF Folded, Many
  <2>. QED
    BY <2>2, <2>3
<1>5. ASSUME n \in Folded(t, b) PROVE \E i \in (b + 1)..n : AtText(i)
  <2>1. PICK v \in Lws(t, b) : v <= n /\ \A x \in (v + 1)..n : t[x] \in Text
    <3>1. n \in Lws(t, b) => n <= n /\ \A x \in (n + 1)..n : t[x] \in Text
      BY DEF Lws, Many
    <3>2. \A v \in Lws(t, b) : v < n => v <= n
      BY DEF Lws, Many
    <3>. QED
      BY <1>5, <3>1, <3>2 DEF Folded, Many
  <2>2. v \in 1..Len(t) /\ b < v /\ \A x \in (b + 1)..v : t[x] \in {"SP", "TAB"}
    BY DEF Lws, Many
  <2>3. v \in (b + 1)..n
    BY <2>1, <2>2
  <2>. QED
    BY <2>1, <2>2, <2>3
<1>. HIDE DEF AtText
<1>. QED
  BY <1>3, <1>4, <1>5

LEMMA DigitsOfLine ==
  ASSUME NEW s, NEW t, NEW b, NEW n, IsLine(s, t, b, n),
         NEW i \in Nat, NEW j \in Nat, 1 <= i, j <= n - b,
         NEW first, first = b + i, NEW last, last = b + j
  PROVE  Digits(SubSeq(s, i, j)) <=> i <= j /\ \A x \in first..last : t[x] \in Digit
<1>0. b \in Nat /\ n \in Nat /\ b <= n /\ s \in Seq(Char) /\ Len(s) = n - b
  BY DEF IsLine
<1>1. \A x \in i..j : s[x] \in Char
  <2>1. \A x \in i..j : x \in 1..Len(s)
    BY <1>0
  <2>. QED
    BY <1>0, <2>1, ElementOfSeq
<1>2. SubSeq(s, i, j) \in Seq(Char) /\ Len(SubSeq(s, i, j)) = IF i <= j THEN j - i + 1 ELSE 0
  BY <1>0, <1>1, SubSeqProperties
<1>3. SubSeq(s, i, j) # <<>> <=> i <= j
  <2>. DEFINE p == SubSeq(s, i, j)
  <2>1. p \in Seq(Char) /\ Len(p) = IF i <= j THEN j - i + 1 ELSE 0
    BY <1>2
  <2>. HIDE DEF p
  <2>2. p = <<>> <=> Len(p) = 0
    BY <2>1, EmptySeq
  <2>3. Len(p) = 0 <=> ~ (i <= j)
    BY <2>1
  <2>. QED
    BY <2>2, <2>3 DEF p
<1>4. CASE i <= j
  <2>0. i <= j + 1
    BY <1>4
  <2>1. All(SubSeq(s, i, j), Digit) <=> \A x \in first..last : t[x] \in Digit
    BY <2>0, AllOfLine
  <2>. QED
    BY <1>3, <1>4, <2>1 DEF Digits
<1>5. CASE ~ (i <= j)
  BY <1>3, <1>5 DEF Digits
<1>. QED
  BY <1>4, <1>5

LEMMA LiteralOfLine ==
  ASSUME NEW s, NEW t, NEW b, NEW n, IsLine(s, t, b, n), n > b + 5
  PROVE  SubSeq(s, 1, 5) = Literal <=>
           t[b + 1] = "H" /\ t[b + 2] = "T" /\ t[b + 3] = "T" /\ t[b + 4] = "P" /\ t[b + 5] = "/"
<1>0. /\ b \in Nat /\ n \in Nat /\ b <= n /\ s \in Seq(Char) /\ Len(s) = n - b
      /\ \A x \in 1..(n - b) : s[x] = t[b + x]
  BY DEF IsLine
<1>. DEFINE p == SubSeq(s, 1, 5)
<1>1. p \in Seq(Char) /\ Len(p) = 5 /\ \A x \in 1..5 : p[x] = s[x]
  <2>1. 0 \in 0..Len(s) /\ 5 \in 0..Len(s) /\ 0 + 1 = 1 /\ 5 - 0 = 5 /\ \A x \in 1..5 : 0 + x = x
    BY <1>0
  <2>2. /\ SubSeq(s, 0 + 1, 5) \in Seq(Char) /\ Len(SubSeq(s, 0 + 1, 5)) = 5 - 0
        /\ \A x \in 1..(5 - 0) : SubSeq(s, 0 + 1, 5)[x] = s[0 + x]
    BY <1>0, <2>1, PartOf
  <2>. QED
    BY <2>1, <2>2
<1>. HIDE DEF p
<1>2. /\ p[1] = t[b + 1] /\ p[2] = t[b + 2] /\ p[3] = t[b + 3] /\ p[4] = t[b + 4] /\ p[5] = t[b + 5]
  <2>1. \A x \in 1..5 : p[x] = t[b + x]
    BY <1>0, <1>1
  <2>. QED
    BY <2>1
<1>3. /\ Literal \in Seq(Char) /\ Len(Literal) = 5
      /\ Literal[1] = "H" /\ Literal[2] = "T" /\ Literal[3] = "T" /\ Literal[4] = "P" /\ Literal[5] = "/"
  BY DEF Literal, Char
<1>4. p = Literal => \A x \in 1..5 : p[x] = Literal[x]
  OBVIOUS
<1>5. p[1] = "H" /\ p[2] = "T" /\ p[3] = "T" /\ p[4] = "P" /\ p[5] = "/" => p = Literal
  <2>1. SUFFICES ASSUME p[1] = "H" /\ p[2] = "T" /\ p[3] = "T" /\ p[4] = "P" /\ p[5] = "/"
                 PROVE  \A x \in 1..Len(p) : p[x] = Literal[x]
    BY <1>1, <1>3, SeqEqual
  <2>2. 1..Len(p) = {1, 2, 3, 4, 5}
    BY <1>1
  <2>. QED
    BY <1>3, <2>1, <2>2
<1>. QED
  BY <1>2, <1>3, <1>4, <1>5 DEF p

\* A version from behind b to n, with its point at k.
VersionAt(t, b, k, n) ==
  /\ t[b + 1] = "H" /\ t[b + 2] = "T" /\ t[b + 3] = "T" /\ t[b + 4] = "P" /\ t[b + 5] = "/"
  /\ k >= b + 7 /\ \A x \in (b + 6)..(k - 1) : t[x] \in Digit
  /\ t[k] = "."
  /\ k < n /\ \A x \in (k + 1)..n : t[x] \in Digit

LEMMA VersionGrammar ==
  ASSUME NEW s, NEW t, NEW b, NEW n, IsLine(s, t, b, n)
  PROVE  Version(s) <=> \E k \in Nat : VersionAt(t, b, k, n)
<1>0. /\ b \in Nat /\ n \in Nat /\ b <= n /\ s \in Seq(Char) /\ Len(s) = n - b /\ DOMAIN s = 1..(n - b)
      /\ \A x \in 1..(n - b) : s[x] = t[b + x]
  BY DEF IsLine
<1>1. ASSUME NEW i \in 1..(n - b)
      PROVE  /\ Digits(SubSeq(s, 6, i - 1)) <=>
                  i >= 7 /\ \A x \in (b + 6)..(b + i - 1) : t[x] \in Digit
             /\ Digits(After(s, i)) <=> b + i < n /\ \A x \in (b + i + 1)..n : t[x] \in Digit
  <2>. DEFINE j == i - 1
              first == b + 6
              last == b + i - 1
              k == i + 1
              m == n - b
              next == b + i + 1
  <2>1. /\ j \in Nat /\ 6 \in Nat /\ 1 <= 6 /\ j <= n - b /\ first = b + 6 /\ last = b + j /\ (6 <= j <=> i >= 7)
        /\ k \in Nat /\ m \in Nat /\ 1 <= k /\ m <= n - b /\ next = b + k /\ n = b + m
        /\ (k <= m <=> b + i < n)
    BY <1>0
  <2>. HIDE DEF j, first, last, k, m, next
  <2>2. Digits(SubSeq(s, 6, j)) <=> 6 <= j /\ \A x \in first..last : t[x] \in Digit
    BY <2>1, DigitsOfLine
  <2>3. Digits(SubSeq(s, k, m)) <=> k <= m /\ \A x \in next..n : t[x] \in Digit
    BY <2>1, DigitsOfLine
  <2>. USE DEF j, first, last, k, m, next
  <2>4. Digits(SubSeq(s, 6, i - 1)) <=>
                  i >= 7 /\ \A x \in (b + 6)..(b + i - 1) : t[x] \in Digit
    BY <2>1, <2>2
  <2>5. Digits(After(s, i)) <=> b + i < n /\ \A x \in (b + i + 1)..n : t[x] \in Digit
    BY <1>0, <2>1, <2>3 DEF After
  <2>. QED
    BY <2>4, <2>5
<1>2. ASSUME Version(s) PROVE \E k \in Nat : VersionAt(t, b, k, n)
  <2>1. Len(s) > 5 /\ SubSeq(s, 1, 5) = Literal
    BY <1>2 DEF Version
  <2>2. PICK i \in 1..(n - b) : s[i] = "." /\ Digits(SubSeq(s, 6, i - 1)) /\ Digits(After(s, i))
    BY <1>0, <1>2 DEF Version
  <2>3. i >= 7 /\ \A x \in (b + 6)..(b + i - 1) : t[x] \in Digit
    BY <1>1, <2>2
  <2>4. b + i < n /\ \A x \in (b + i + 1)..n : t[x] \in Digit
    BY <1>1, <2>2
  <2>5. t[b + 1] = "H" /\ t[b + 2] = "T" /\ t[b + 3] = "T" /\ t[b + 4] = "P" /\ t[b + 5] = "/"
    <3>1. n > b + 5
      BY <1>0, <2>1
    <3>. QED
      BY <2>1, <3>1, LiteralOfLine
  <2>6. t[b + i] = "."
    BY <1>0, <2>2
  <2>7. b + i \in Nat /\ b + i >= b + 7
    BY <1>0, <2>3
  <2>8. VersionAt(t, b, b + i, n)
    BY <1>0, <2>3, <2>4, <2>5, <2>6, <2>7 DEF VersionAt
  <2>. QED
    BY <2>7, <2>8
<1>3. ASSUME NEW k \in Nat, VersionAt(t, b, k, n) PROVE Version(s)
  <2>. DEFINE i == k - b
  <2>1. i \in 1..(n - b) /\ i >= 7 /\ b + i = k /\ n > b + 5 /\ Len(s) > 5
    BY <1>0, <1>3 DEF VersionAt
  <2>2. SubSeq(s, 1, 5) = Literal
    BY <1>3, <2>1, LiteralOfLine DEF VersionAt
  <2>. HIDE DEF i
  <2>3. s[i] = "."
    BY <1>0, <1>3, <2>1 DEF VersionAt
  <2>4. Digits(SubSeq(s, 6, i - 1))
    <3>1. \A x \in (b + 6)..(b + i - 1) : t[x] \in Digit
      BY <1>0, <1>3, <2>1 DEF VersionAt
    <3>. QED
      BY <1>1, <2>1, <3>1
  <2>5. Digits(After(s, i))
    <3>1. b + i < n /\ \A x \in (b + i + 1)..n : t[x] \in Digit
      BY <1>3, <2>1 DEF VersionAt
    <3>. QED
      BY <1>1, <2>1, <3>1
  <2>. QED
    BY <1>0, <2>1, <2>2, <2>3, <2>4, <2>5 DEF Version
<1>. QED
  BY <1>2, <1>3

\* A request line from the start to n, with its spaces at i and j and the point of
\* its version at k.
RequestLineAt(t, i, j, k, n) ==
  /\ 1 < i /\ i < j /\ j <= n /\ t[i] = "SP" /\ t[j] = "SP"
  /\ \A x \in 1..(i - 1) : t[x] \in Token
  /\ \A x \in (i + 1)..(j - 1) : t[x] \in Text \ {"SP"}
  /\ VersionAt(t, j, k, n)

LEMMA RequestLineParts ==
  ASSUME NEW s, NEW t, NEW n, IsLine(s, t, 0, n)
  PROVE  RequestLine(s) <=> \E i, j, k \in Nat : RequestLineAt(t, i, j, k, n)
<1>0. /\ n \in Nat /\ t \in Seq(Char) /\ n <= Len(t)
      /\ s \in Seq(Char) /\ Len(s) = n /\ DOMAIN s = 1..n
      /\ \A x \in 1..n : s[x] = t[x]
  <2>1. /\ n \in Nat /\ t \in Seq(Char) /\ n <= Len(t) /\ s \in Seq(Char) /\ Len(s) = n - 0
        /\ \A x \in 1..(n - 0) : s[x] = t[0 + x]
    BY DEF IsLine
  <2>2. n - 0 = n
    BY <2>1
  <2>. QED
    BY <2>1, <2>2
<1>1. ASSUME NEW i \in 1..n, NEW j \in 1..n, i < j
      PROVE  /\ All(Upto(s, i), Token) <=> \A x \in 1..(i - 1) : t[x] \in Token
             /\ All(SubSeq(s, i + 1, j - 1), Text \ {"SP"}) <=>
                  \A x \in (i + 1)..(j - 1) : t[x] \in Text \ {"SP"}
             /\ Version(After(s, j)) <=> \E k \in Nat : VersionAt(t, j, k, n)
  <2>1. All(SubSeq(s, 1, i - 1), Token) <=> \A x \in 1..(i - 1) : t[x] \in Token
    <3>. DEFINE last == i - 1
    <3>1. last \in Nat /\ 1 \in Nat /\ 1 <= 1 /\ 1 <= last + 1 /\ last <= n - 0 /\ 1 = 0 + 1 /\ last = 0 + last
      BY <1>0
    <3>. HIDE DEF last
    <3>2. All(SubSeq(s, 1, last), Token) <=> \A x \in 1..last : t[x] \in Token
      BY <3>1, AllOfLine
    <3>. QED
      BY <3>2 DEF last
  <2>2. All(SubSeq(s, i + 1, j - 1), Text \ {"SP"}) <=> \A x \in (i + 1)..(j - 1) : t[x] \in Text \ {"SP"}
    <3>. DEFINE first == i + 1
                last == j - 1
                C == Text \ {"SP"}
    <3>1. /\ first \in Nat /\ last \in Nat /\ 1 <= first /\ first <= last + 1 /\ last <= n - 0
          /\ first = 0 + first /\ last = 0 + last
      BY <1>0, <1>1
    <3>. HIDE DEF first, last, C
    <3>2. All(SubSeq(s, first, last), C) <=> \A x \in first..last : t[x] \in C
      BY <3>1, AllOfLine
    <3>. QED
      BY <3>2 DEF first, last, C
  <2>3. IsLine(After(s, j), t, j, n)
    <3>1. /\ SubSeq(s, j + 1, n) \in Seq(Char) /\ Len(SubSeq(s, j + 1, n)) = n - j
          /\ \A x \in 1..(n - j) : SubSeq(s, j + 1, n)[x] = s[j + x]
      <4>1. j \in 0..Len(s) /\ n \in j..Len(s)
        BY <1>0
      <4>. QED
        BY <1>0, <4>1, PartOf
    <3>2. \A x \in 1..(n - j) : j + x \in 1..n
      BY <1>0
    <3>3. \A x \in 1..(n - j) : SubSeq(s, j + 1, n)[x] = t[j + x]
      BY <1>0, <3>1, <3>2
    <3>. QED
      BY <1>0, <3>1, <3>3 DEF IsLine, After
  <2>4. Version(After(s, j)) <=> \E k \in Nat : VersionAt(t, j, k, n)
    BY <2>3, VersionGrammar
  <2>. QED
    BY <2>1, <2>2, <2>4 DEF Upto
<1>2. ASSUME RequestLine(s) PROVE \E i, j, k \in Nat : RequestLineAt(t, i, j, k, n)
  <2>1. PICK i \in 1..n, j \in 1..n :
          /\ i < j /\ s[i] = "SP" /\ s[j] = "SP" /\ i > 1 /\ All(Upto(s, i), Token)
          /\ All(SubSeq(s, i + 1, j - 1), Text \ {"SP"}) /\ Version(After(s, j))
    BY <1>0, <1>2 DEF RequestLine
  <2>2. PICK k \in Nat : VersionAt(t, j, k, n)
    BY <1>1, <2>1
  <2>3. RequestLineAt(t, i, j, k, n)
    BY <1>0, <1>1, <2>1, <2>2 DEF RequestLineAt
  <2>. QED
    BY <2>3
<1>3. ASSUME NEW i \in Nat, NEW j \in Nat, NEW k \in Nat, RequestLineAt(t, i, j, k, n)
      PROVE  RequestLine(s)
  <2>1. i \in 1..n /\ j \in 1..n /\ i < j /\ i > 1 /\ s[i] = "SP" /\ s[j] = "SP"
    BY <1>0, <1>3 DEF RequestLineAt
  <2>2. All(Upto(s, i), Token) /\ All(SubSeq(s, i + 1, j - 1), Text \ {"SP"}) /\ Version(After(s, j))
    BY <1>1, <1>3, <2>1 DEF RequestLineAt
  <2>. QED
    BY <1>0, <2>1, <2>2 DEF RequestLine
<1>. QED
  BY <1>2, <1>3

LEMMA RequestLineReached ==
  ASSUME NEW t \in Seq(Char), NEW n \in 0..Len(t), NEW i \in Nat, NEW j \in Nat, NEW k \in Nat,
         RequestLineAt(t, i, j, k, n)
  PROVE  n \in Minor(t)
<1>1. /\ 1 < i /\ i < j /\ j + 7 <= k /\ k < n /\ n <= Len(t) /\ t[i] = "SP" /\ t[j] = "SP"
      /\ t[j + 1] = "H" /\ t[j + 2] = "T" /\ t[j + 3] = "T" /\ t[j + 4] = "P" /\ t[j + 5] = "/" /\ t[k] = "."
      /\ \A x \in 1..(i - 1) : t[x] \in Token
      /\ \A x \in (i + 1)..(j - 1) : t[x] \in Text \ {"SP"}
      /\ \A x \in (j + 6)..(k - 1) : t[x] \in Digit
      /\ \A x \in (k + 1)..n : t[x] \in Digit
  BY DEF RequestLineAt, VersionAt
<1>2. i - 1 \in Method(t)
  <2>1. i - 1 \in 1..Len(t) /\ 0 \in {0} /\ 0 < i - 1 /\ \A x \in (0 + 1)..(i - 1) : t[x] \in Token
    BY <1>1
  <2>. QED
    BY <2>1 DEF Method, Many
<1>3. i \in UriStart(t)
  <2>1. i \in 1..Len(t)
    BY <1>1
  <2>. QED
    BY <1>1, <1>2, <2>1 DEF UriStart, Then
<1>4. j - 1 \in Uri(t)
  <2>1. CASE i = j - 1
    BY <1>3, <2>1 DEF Uri
  <2>2. CASE i < j - 1
    <3>1. j - 1 \in 1..Len(t)
      BY <1>1
    <3>2. j - 1 \in Many(t, UriStart(t), Text \ {"SP"})
      BY <1>1, <1>3, <2>2, <3>1 DEF Many
    <3>. QED
      BY <3>2 DEF Uri
  <2>. QED
    BY <1>1, <2>1, <2>2
<1>5. /\ j \in 1..Len(t) /\ j + 1 \in 1..Len(t) /\ j + 2 \in 1..Len(t) /\ j + 3 \in 1..Len(t)
      /\ j + 4 \in 1..Len(t) /\ j + 5 \in 1..Len(t)
      /\ (j + 1) - 1 = j /\ (j + 2) - 1 = j + 1 /\ (j + 3) - 1 = j + 2 /\ (j + 4) - 1 = j + 3
      /\ (j + 5) - 1 = j + 4
  BY <1>1
<1>6. j \in VersionH(t)
  BY <1>1, <1>4, <1>5 DEF VersionH, Then
<1>7. j + 1 \in VersionT1(t)
  BY <1>1, <1>5, <1>6 DEF VersionT1, Then
<1>8. j + 2 \in VersionT2(t)
  BY <1>1, <1>5, <1>7 DEF VersionT2, Then
<1>9. j + 3 \in VersionP(t)
  BY <1>1, <1>5, <1>8 DEF VersionP, Then
<1>10. j + 4 \in Slash(t)
  BY <1>1, <1>5, <1>9 DEF Slash, Then
<1>11. j + 5 \in MajorStart(t)
  BY <1>1, <1>5, <1>10 DEF MajorStart, Then
<1>12. k - 1 \in Major(t)
  <2>1. k - 1 \in 1..Len(t) /\ j + 5 < k - 1 /\ \A x \in ((j + 5) + 1)..(k - 1) : t[x] \in Digit
    BY <1>1
  <2>. QED
    BY <1>11, <2>1 DEF Major, Many
<1>13. k \in MinorStart(t)
  <2>1. k \in 1..Len(t)
    BY <1>1
  <2>. QED
    BY <1>1, <1>12, <2>1 DEF MinorStart, Then
<1>14. n \in 1..Len(t)
  BY <1>1
<1>. QED
  BY <1>1, <1>13, <1>14 DEF Minor, Many

LEMMA MinorHasRequestLine ==
  ASSUME NEW t \in Seq(Char), NEW n \in Minor(t)
  PROVE  \E i, j, k \in Nat : RequestLineAt(t, i, j, k, n)
<1>1. PICK k \in MinorStart(t) : n \in 1..Len(t) /\ k < n /\ \A x \in (k + 1)..n : t[x] \in Digit
  BY DEF Minor, Many
<1>2. k \in 1..Len(t) /\ t[k] = "." /\ k - 1 \in Major(t)
  BY DEF MinorStart, Then
<1>3. PICK m \in MajorStart(t) : m < k - 1 /\ \A x \in (m + 1)..(k - 1) : t[x] \in Digit
  BY <1>2 DEF Major, Many
<1>. DEFINE j == m - 5
<1>4. m \in 1..Len(t) /\ t[m] = "/" /\ m - 1 \in Slash(t)
  BY DEF MajorStart, Then
<1>5. m - 1 \in 1..Len(t) /\ t[m - 1] = "P" /\ m - 2 \in VersionP(t)
  <2>1. (m - 1) - 1 = m - 2
    BY <1>4
  <2>. QED
    BY <1>4, <2>1 DEF Slash, Then
<1>6. m - 2 \in 1..Len(t) /\ t[m - 2] = "T" /\ m - 3 \in VersionT2(t)
  <2>1. (m - 2) - 1 = m - 3
    BY <1>4
  <2>. QED
    BY <1>5, <2>1 DEF VersionP, Then
<1>7. m - 3 \in 1..Len(t) /\ t[m - 3] = "T" /\ m - 4 \in VersionT1(t)
  <2>1. (m - 3) - 1 = m - 4
    BY <1>4
  <2>. QED
    BY <1>6, <2>1 DEF VersionT2, Then
<1>8. m - 4 \in 1..Len(t) /\ t[m - 4] = "H" /\ m - 5 \in VersionH(t)
  <2>1. (m - 4) - 1 = m - 5
    BY <1>4
  <2>. QED
    BY <1>7, <2>1 DEF VersionT1, Then
<1>9. j \in 1..Len(t) /\ t[j] = "SP" /\ j - 1 \in Uri(t)
  BY <1>8 DEF VersionH, Then
<1>10. /\ j + 5 = m /\ j + 4 = m - 1 /\ j + 3 = m - 2 /\ j + 2 = m - 3 /\ j + 1 = m - 4 /\ j + 6 = m + 1
  BY <1>4
<1>. HIDE DEF j
<1>11. VersionAt(t, j, k, n)
  <2>1. k >= j + 7 /\ \A x \in (j + 6)..(k - 1) : t[x] \in Digit
    BY <1>2, <1>3, <1>4, <1>9, <1>10
  <2>. QED
    BY <1>1, <1>2, <1>4, <1>5, <1>6, <1>7, <1>8, <1>10, <2>1 DEF VersionAt
<1>12. PICK i \in UriStart(t) : i <= j - 1 /\ \A x \in (i + 1)..(j - 1) : t[x] \in Text \ {"SP"}
  <2>1. j - 1 \in UriStart(t) => j - 1 <= j - 1 /\ \A x \in ((j - 1) + 1)..(j - 1) : t[x] \in Text \ {"SP"}
    BY <1>9
  <2>2. \A v \in UriStart(t) : v < j - 1 => v <= j - 1
    BY <1>9 DEF UriStart, Then
  <2>. QED
    BY <1>9, <2>1, <2>2 DEF Uri, Many
<1>13. i \in 1..Len(t) /\ t[i] = "SP" /\ i - 1 \in Method(t)
  BY DEF UriStart, Then
<1>14. i - 1 >= 1 /\ \A x \in 1..(i - 1) : t[x] \in Token
  BY <1>13 DEF Method, Many
<1>15. j <= n /\ i < j /\ 1 < i
  BY <1>1, <1>2, <1>3, <1>4, <1>9, <1>10, <1>12, <1>13, <1>14
<1>16. RequestLineAt(t, i, j, k, n)
  BY <1>9, <1>11, <1>12, <1>13, <1>14, <1>15 DEF RequestLineAt
<1>17. i \in Nat /\ j \in Nat /\ k \in Nat
  BY <1>2, <1>9, <1>13
<1>. QED
  BY <1>16, <1>17

LEMMA RequestLineGrammar ==
  ASSUME NEW t \in Seq(Char), NEW n \in 0..Len(t)
  PROVE  RequestLine(SubSeq(t, 1, n)) <=> n \in Minor(t)
<1>1. IsLine(SubSeq(t, 1, n), t, 0, n)
  <2>1. 0 \in 0..Len(t) /\ n \in 0..Len(t) /\ 0 + 1 = 1
    OBVIOUS
  <2>. QED
    BY <2>1, LineIs
<1>. QED
  BY <1>1, RequestLineParts, RequestLineReached, MinorHasRequestLine

-----------------------------------------------------------------------------
(* Lines, one after the other *)

LEMMA EndsApart ==
  ASSUME NEW t \in Seq(Char), NEW e \in Ends(t), NEW f \in Ends(t)
  PROVE  e \in Nat /\ f \in Nat /\ e >= 1 /\ e + 1 <= Len(t) /\ f # e + 1
BY DEF Ends

\* The line from i to the first end behind it.
LEMMA LineUpto ==
  ASSUME NEW t \in Seq(Char), NEW i \in Nat, NEW e \in Ends(t), i <= e,
         \A f \in Ends(t) : i <= f => e <= f
  PROVE  LineFrom(t, i) = SubSeq(t, i, e - 1)
<1>. DEFINE S == {f \in Ends(t) : f >= i}
<1>1. e \in S /\ \A f \in S : e <= f
  BY EndsApart
<1>2. \A f \in S : (\A g \in S : f <= g) => f = e
  BY <1>1, EndsApart
<1>3. Min(S) = e
  <2>. HIDE DEF S
  <2>. QED
    BY <1>1, <1>2 DEF Min
<1>. QED
  BY <1>3 DEF LineFrom

\* The end before an end, if there is one.
LEMMA EndBefore ==
  ASSUME NEW t \in Seq(Char), NEW m \in Nat, NEW e \in Ends(t), e < m
  PROVE  \E f \in Ends(t) : f < m /\ \A g \in Ends(t) : g < m => g <= f
<1>. DEFINE T == {m - g : g \in {g \in Ends(t) : g < m}}
<1>1. T \subseteq Nat /\ T # {}
  BY EndsApart
<1>2. PICK x \in T : \A z \in T : x <= z
  <2>. HIDE DEF T
  <2>. QED
    BY <1>1, LeastNat
<1>3. PICK f \in Ends(t) : f < m /\ x = m - f
  BY <1>2
<1>4. ASSUME NEW g \in Ends(t), g < m PROVE g <= f
  <2>1. m - g \in T
    BY <1>4
  <2>2. m - f <= m - g
    BY <1>2, <1>3, <2>1
  <2>. QED
    BY <2>2, EndsApart
<1>. QED
  BY <1>3, <1>4

\* What a request asks of the lines that begin up to n.
HeadOK(t, i) ==
  HeaderLine(LineFrom(t, i)) \/ (FoldedLine(LineFrom(t, i)) /\ \E j \in Starts(t) : 1 < j /\ j < i)
Body(t, n) ==
  RequestLine(LineFrom(t, 1)) /\ \A i \in Starts(t) : 1 < i /\ i <= n => HeadOK(t, i)

\* The parser accepts the lines behind which it is at the start of one.
AcceptsUpto(r, t, n) ==
  n - 1 \in Ends(t) =>
    /\ (r[n].state = "header_line_start") <=> Body(t, n)
    /\ (r[n].state = "header_line_start") => (r[n].headers <=> \E j \in Starts(t) : 1 < j /\ j <= n)

LEMMA StartsAreBehindEnds ==
  ASSUME NEW t \in Seq(Char), NEW i
  PROVE  i \in Starts(t) /\ 1 < i <=> i \in Nat /\ i - 2 \in Ends(t)
<1>1. ASSUME i \in Starts(t), 1 < i PROVE i \in Nat /\ i - 2 \in Ends(t)
  <2>1. PICK e \in Ends(t) : i = e + 2
    BY <1>1 DEF Starts
  <2>2. e \in Nat /\ i - 2 = e
    BY <2>1, EndsApart
  <2>. QED
    BY <2>1, <2>2
<1>2. ASSUME i \in Nat, i - 2 \in Ends(t) PROVE i \in Starts(t) /\ 1 < i
  <2>1. i = (i - 2) + 2 /\ i - 2 >= 1
    BY <1>2, EndsApart
  <2>. QED
    BY <1>2, <2>1 DEF Starts
<1>. QED
  BY <1>1, <1>2

LEMMA AcceptsFirst ==
  ASSUME NEW t \in Seq(Char), NEW r, Runs(r, NewParser, t), NEW n \in 0..Len(t),
         n - 1 \in Ends(t), \A e \in Ends(t) : n - 1 <= e
  PROVE  AcceptsUpto(r, t, n)
<1>1. n >= 2 /\ n \in Nat /\ n - 2 \in 0..Len(t) /\ (n - 1) - 1 = n - 2
  BY EndsApart
<1>2. \A i \in Starts(t) : ~ (1 < i /\ i <= n)
  <2>1. SUFFICES ASSUME NEW i \in Starts(t), 1 < i, i <= n PROVE FALSE
    OBVIOUS
  <2>2. i \in Nat /\ i - 2 \in Ends(t)
    BY <2>1, StartsAreBehindEnds
  <2>3. n - 1 <= i - 2
    BY <2>2
  <2>. QED
    BY <1>1, <2>1, <2>2, <2>3
<1>3. LineFrom(t, 1) = SubSeq(t, 1, n - 2)
  <2>1. 1 \in Nat /\ 1 <= n - 1
    BY <1>1
  <2>2. LineFrom(t, 1) = SubSeq(t, 1, (n - 1) - 1)
    BY <2>1, LineUpto
  <2>. QED
    BY <1>1, <2>2
<1>4. RequestLine(LineFrom(t, 1)) <=> n - 2 \in Minor(t)
  BY <1>1, <1>3, RequestLineGrammar
<1>5. Body(t, n) <=> n - 2 \in Minor(t)
  BY <1>2, <1>4 DEF Body
<1>6. /\ (r[n].state = "header_line_start") <=> n - 2 \in Minor(t)
      /\ (r[n].state = "header_line_start") => ~ r[n].headers
  BY FirstLine
<1>. QED
  BY <1>2, <1>5, <1>6 DEF AcceptsUpto

LEMMA AcceptsNext ==
  ASSUME NEW t \in Seq(Char), NEW r, Runs(r, NewParser, t), NEW b \in 0..Len(t), NEW n \in 0..Len(t),
         b - 1 \in Ends(t), n - 1 \in Ends(t), b < n, \A e \in Ends(t) : e < n - 1 => e <= b - 1,
         AcceptsUpto(r, t, b)
  PROVE  AcceptsUpto(r, t, n)
<1>1. /\ b <= n - 2
      /\ (r[n].state = "header_line_start") <=>
           r[b].state = "header_line_start"
             /\ (n - 2 \in Value(t, b) \/ (r[b].headers /\ n - 2 \in Folded(t, b)))
      /\ (r[n].state = "header_line_start") => r[n].headers
  BY NextLine
<1>2. n \in Nat /\ b \in Nat /\ b >= 2 /\ n - 2 \in b..Len(t) /\ (n - 1) - 1 = n - 2
  BY <1>1, EndsApart
<1>3. b + 1 \in Starts(t) /\ 1 < b + 1 /\ b + 1 <= n
  <2>1. (b + 1) - 2 = b - 1 /\ b + 1 \in Nat
    BY <1>2
  <2>. QED
    BY <1>1, <1>2, <2>1, StartsAreBehindEnds
<1>4. \A i \in Starts(t) : 1 < i /\ i <= n <=> (1 < i /\ i <= b) \/ i = b + 1
  <2>1. ASSUME NEW i \in Starts(t), 1 < i, i <= n PROVE (1 < i /\ i <= b) \/ i = b + 1
    <3>1. i \in Nat /\ i - 2 \in Ends(t)
      BY <2>1, StartsAreBehindEnds
    <3>2. i - 2 < n - 1
      BY <1>2, <2>1, <3>1
    <3>3. i - 2 <= b - 1
      BY <3>1, <3>2
    <3>. QED
      BY <1>2, <2>1, <3>1, <3>3
  <2>2. ASSUME NEW i \in Starts(t), (1 < i /\ i <= b) \/ i = b + 1 PROVE 1 < i /\ i <= n
    <3>1. 1 < i => i \in Nat
      BY <2>2, StartsAreBehindEnds
    <3>. QED
      BY <1>2, <1>3, <2>2, <3>1
  <2>. QED
    BY <2>1, <2>2
<1>5. LineFrom(t, b + 1) = SubSeq(t, b + 1, n - 2)
  <2>1. b + 1 \in Nat /\ b + 1 <= n - 1
    BY <1>2
  <2>2. \A f \in Ends(t) : b + 1 <= f => n - 1 <= f
    BY <1>2, EndsApart
  <2>3. LineFrom(t, b + 1) = SubSeq(t, b + 1, (n - 1) - 1)
    BY <2>1, <2>2, LineUpto
  <2>. QED
    BY <1>2, <2>3
<1>6. /\ HeaderLine(LineFrom(t, b + 1)) <=> n - 2 \in Value(t, b)
      /\ FoldedLine(LineFrom(t, b + 1)) <=> n - 2 \in Folded(t, b)
  BY <1>2, <1>5, HeaderGrammar, FoldedGrammar
<1>7. (\E j \in Starts(t) : 1 < j /\ j < b + 1) <=> \E j \in Starts(t) : 1 < j /\ j <= b
  <2>1. \A j \in Starts(t) : 1 < j => j \in Nat
    BY StartsAreBehindEnds
  <2>. QED
    BY <1>2, <2>1
<1>8. HeadOK(t, b + 1) <=>
        n - 2 \in Value(t, b) \/ (n - 2 \in Folded(t, b) /\ \E j \in Starts(t) : 1 < j /\ j <= b)
  BY <1>6, <1>7 DEF HeadOK
<1>9. Body(t, n) <=> Body(t, b) /\ HeadOK(t, b + 1)
  BY <1>3, <1>4 DEF Body
<1>10. /\ (r[b].state = "header_line_start") <=> Body(t, b)
       /\ (r[b].state = "header_line_start") => (r[b].headers <=> \E j \in Starts(t) : 1 < j /\ j <= b)
  BY DEF AcceptsUpto
<1>11. (r[n].state = "header_line_start") <=> Body(t, n)
  BY <1>1, <1>8, <1>9, <1>10
<1>. QED
  BY <1>1, <1>3, <1>11 DEF AcceptsUpto

LEMMA AcceptsLines ==
  ASSUME NEW t \in Seq(Char), NEW r, Runs(r, NewParser, t)
  PROVE  \A n \in 0..Len(t) : AcceptsUpto(r, t, n)
<1>. DEFINE Bad == {n \in 0..Len(t) : ~ AcceptsUpto(r, t, n)}
<1>1. SUFFICES ASSUME Bad # {} PROVE FALSE
  OBVIOUS
<1>2. PICK n \in Bad : \A x \in Bad : n <= x
  <2>1. Bad \subseteq Nat
    OBVIOUS
  <2>. HIDE DEF Bad
  <2>. QED
    BY <1>1, <2>1, LeastNat
<1>3. n \in 0..Len(t) /\ ~ AcceptsUpto(r, t, n)
  BY <1>2
<1>4. n - 1 \in Ends(t)
  BY <1>3 DEF AcceptsUpto
<1>5. PICK e \in Ends(t) : ~ (n - 1 <= e)
  BY <1>3, <1>4, AcceptsFirst
<1>6. n - 1 \in Nat /\ e < n - 1
  BY <1>3, <1>4, <1>5, EndsApart
<1>7. PICK f \in Ends(t) : f < n - 1 /\ \A g \in Ends(t) : g < n - 1 => g <= f
  BY <1>6, EndBefore
<1>. DEFINE b == f + 1
<1>8. b \in 0..Len(t) /\ b - 1 = f /\ b < n
  BY <1>3, <1>6, <1>7, EndsApart
<1>9. AcceptsUpto(r, t, b)
  BY <1>2, <1>3, <1>8
<1>. HIDE DEF b
<1>10. AcceptsUpto(r, t, n)
  BY <1>3, <1>4, <1>7, <1>8, <1>9, AcceptsNext
<1>. QED
  BY <1>3, <1>10

-----------------------------------------------------------------------------
(* Requests *)

\* The end of a request leaves no line empty but the last.
LEMMA EmptyLine ==
  ASSUME NEW t \in Seq(Char), NEW e \in Ends(t) \cap Starts(t), NEW n \in Nat, e <= n
  PROVE  ~ Body(t, n)
<1>1. e \in Nat /\ e >= 1 /\ e + 1 <= Len(t)
  BY EndsApart
<1>2. LineFrom(t, e) = SubSeq(t, e, e - 1)
  <2>1. e <= e /\ \A f \in Ends(t) : e <= f => e <= f
    BY <1>1
  <2>. QED
    BY <1>1, <2>1, LineUpto
<1>3. CASE e = 1
  <2>1. LineFrom(t, 1) = SubSeq(t, 1, 0)
    BY <1>2, <1>3
  <2>2. 0 \in 0..Len(t)
    BY <1>1
  <2>3. ~ RequestLine(SubSeq(t, 1, 0))
    BY <2>2, RequestLineGrammar, PlacesAreNats DEF Minor
  <2>. QED
    BY <2>1, <2>3 DEF Body
<1>4. CASE e # 1
  <2>. DEFINE b == e - 1
  <2>1. b \in 0..Len(t) /\ b \in b..Len(t) /\ b + 1 = e /\ b \in Nat /\ 1 < e
    BY <1>1, <1>4
  <2>2. LineFrom(t, e) = SubSeq(t, b + 1, b)
    BY <1>2, <2>1
  <2>. HIDE DEF b
  <2>3. ~ HeaderLine(SubSeq(t, b + 1, b)) /\ ~ FoldedLine(SubSeq(t, b + 1, b))
    BY <2>1, HeaderGrammar, FoldedGrammar, HeaderPlacesAreBehind
  <2>4. ~ HeadOK(t, e)
    BY <2>2, <2>3 DEF HeadOK
  <2>. QED
    BY <2>1, <2>4 DEF Body
<1>. QED
  BY <1>3, <1>4

LEMMA RequestIsBody ==
  ASSUME NEW t \in Seq(Char), NEW n, n = Len(t), n >= 4, n - 3 \in Ends(t), n - 1 \in Ends(t)
  PROVE  IsRequest(t) <=> Body(t, n - 2)
<1>. DEFINE heads == {i \in Starts(t) : 1 < i /\ i < n - 1}
<1>1. n \in Nat /\ n - 1 \in Nat /\ n - 2 \in Nat
  OBVIOUS
<1>2. IsRequest(t) <=>
        /\ {n - 1} = Ends(t) \cap Starts(t)
        /\ RequestLine(LineFrom(t, 1))
        /\ \A i \in heads :
             HeaderLine(LineFrom(t, i)) \/ (FoldedLine(LineFrom(t, i)) /\ \E j \in heads : j < i)
  BY DEF IsRequest
<1>3. \A i \in Starts(t) : 1 < i => i \in Nat
  BY StartsAreBehindEnds
<1>4. \A i \in Starts(t) : 1 < i /\ i <= n - 2 <=> i \in heads
  BY <1>1, <1>3
<1>5. ASSUME NEW i \in heads
      PROVE  (\E j \in heads : j < i) <=> \E j \in Starts(t) : 1 < j /\ j < i
  BY <1>1, <1>3
<1>. HIDE DEF heads
<1>6. Body(t, n - 2) <=>
        /\ RequestLine(LineFrom(t, 1))
        /\ \A i \in heads :
             HeaderLine(LineFrom(t, i)) \/ (FoldedLine(LineFrom(t, i)) /\ \E j \in heads : j < i)
  <2>1. \A i \in heads : i \in Starts(t)
    BY DEF heads
  <2>2. \A i \in heads : HeadOK(t, i) <=>
          HeaderLine(LineFrom(t, i)) \/ (FoldedLine(LineFrom(t, i)) /\ \E j \in heads : j < i)
    BY <1>5 DEF HeadOK
  <2>3. Body(t, n - 2) <=> RequestLine(LineFrom(t, 1)) /\ \A i \in heads : HeadOK(t, i)
    BY <1>4, <2>1 DEF Body
  <2>. QED
    BY <2>2, <2>3
<1>7. n - 1 \in Ends(t) \cap Starts(t)
  <2>1. n - 1 = (n - 3) + 2
    BY <1>1
  <2>. QED
    BY <2>1 DEF Starts
<1>8. ASSUME Body(t, n - 2), NEW e \in Ends(t) \cap Starts(t) PROVE e = n - 1
  <2>1. e \in Nat /\ e + 1 <= n
    BY EndsApart
  <2>2. ~ (e <= n - 2)
    BY <1>1, <1>8, EmptyLine
  <2>. QED
    BY <1>1, <2>1, <2>2
<1>9. Body(t, n - 2) => {n - 1} = Ends(t) \cap Starts(t)
  BY <1>7, <1>8
<1>. QED
  BY <1>2, <1>6, <1>9

\* A run finds a request with its n-th character; a text that has an empty line
\* there.
FindsAt(r, n) == r[n].state = "true" /\ r[n - 1].state # "true"
EmptyLineAt(t, n) ==
  n >= 4 /\ t[n - 3] = "CR" /\ t[n - 2] = "LF" /\ t[n - 1] = "CR" /\ t[n] = "LF"

\* A parser finds a request at the end of a text that is one, and not before.
LEMMA VerdictOfText ==
  ASSUME NEW t \in Seq(Char), NEW r, Runs(r, NewParser, t), NEW n, n = Len(t), n >= 1
  PROVE  FindsAt(r, n) <=> EmptyLineAt(t, n) /\ IsRequest(t)
<1>0. NewParser \in Parser /\ n \in Nat /\ r[0].state = "method_start"
  BY States DEF NewParser, Parser, Runs
<1>1. /\ r[n - 1].state \in ParserStates /\ r[n - 1].headers \in BOOLEAN /\ t[n] \in Char
      /\ r[n].state = Goes(r[n - 1].state, r[n - 1].headers, t[n])
  BY <1>0, RunStep
<1>2. (r[n].state = "true" /\ r[n - 1].state # "true") <=>
        r[n - 1].state = "expecting_newline_3" /\ t[n] = "LF"
  BY <1>1, IntoHeader
<1>3. ASSUME n >= 2
      PROVE  (r[n - 1].state = "expecting_newline_3") <=>
                r[n - 2].state = "header_line_start" /\ t[n - 1] = "CR"
  <2>1. n - 1 \in 1..Len(t) /\ (n - 1) - 1 = n - 2
    BY <1>0, <1>3
  <2>2. /\ r[n - 2].state \in ParserStates /\ r[n - 2].headers \in BOOLEAN /\ t[n - 1] \in Char
        /\ r[n - 1].state = Goes(r[n - 2].state, r[n - 2].headers, t[n - 1])
    <3>. DEFINE j == n - 1
    <3>. HIDE DEF j
    <3>1. j \in 1..Len(t) /\ j - 1 = n - 2
      BY <2>1 DEF j
    <3>2. /\ r[j - 1].state \in ParserStates /\ r[j - 1].headers \in BOOLEAN /\ t[j] \in Char
          /\ r[j].state = Goes(r[j - 1].state, r[j - 1].headers, t[j])
      BY <1>0, <3>1, RunStep, SMTT(40)
    <3>. QED
      BY <3>1, <3>2 DEF j
  <2>. QED
    BY <2>2, IntoHeader
<1>4. ASSUME r[n].state = "true", r[n - 1].state # "true"
      PROVE  /\ n >= 4 /\ t[n - 3] = "CR" /\ t[n - 2] = "LF" /\ t[n - 1] = "CR" /\ t[n] = "LF"
             /\ r[n - 2].state = "header_line_start"
  <2>1. r[n - 1].state = "expecting_newline_3" /\ t[n] = "LF"
    BY <1>2, <1>4
  <2>2. n >= 2
    <3>1. n # 1
      BY <1>0, <2>1
    <3>. QED
      BY <1>0, <3>1
  <2>3. r[n - 2].state = "header_line_start" /\ t[n - 1] = "CR"
    BY <1>3, <2>1, <2>2
  <2>4. n - 2 \in 0..Len(t) /\ (n - 2) - 1 = n - 3
    BY <1>0, <2>2
  <2>5. n - 2 >= 2 /\ t[n - 3] = "CR" /\ t[n - 2] = "LF"
    BY <2>3, <2>4, LineStart
  <2>. QED
    BY <1>0, <2>1, <2>3, <2>5
<1>5. ASSUME n >= 4, t[n - 3] = "CR", t[n - 2] = "LF", t[n - 1] = "CR", t[n] = "LF"
      PROVE  (r[n - 2].state = "header_line_start") <=> IsRequest(t)
  <2>1. n - 3 \in Ends(t) /\ n - 1 \in Ends(t)
    <3>1. n - 3 \in 1..(Len(t) - 1) /\ n - 1 \in 1..(Len(t) - 1) /\ (n - 3) + 1 = n - 2 /\ (n - 1) + 1 = n
      BY <1>0, <1>5
    <3>. QED
      BY <1>5, <3>1 DEF Ends
  <2>2. n - 2 \in 0..Len(t) /\ (n - 2) - 1 = n - 3
    BY <1>0, <1>5
  <2>3. AcceptsUpto(r, t, n - 2)
    BY <2>2, AcceptsLines
  <2>4. (r[n - 2].state = "header_line_start") <=> Body(t, n - 2)
    BY <2>1, <2>2, <2>3 DEF AcceptsUpto
  <2>5. IsRequest(t) <=> Body(t, n - 2)
    BY <1>5, <2>1, RequestIsBody
  <2>. QED
    BY <2>4, <2>5
<1>6. n >= 4 => n >= 2
  BY <1>0
<1>. QED
  BY <1>2, <1>3, <1>4, <1>5, <1>6 DEF FindsAt, EmptyLineAt

\* The run over the beginning of a text.
LEMMA PrefixRun ==
  ASSUME NEW p \in Parser, NEW t \in Seq(Char), NEW r, Runs(r, p, t), NEW m \in 0..Len(t)
  PROVE  /\ SubSeq(t, 1, m) \in Seq(Char) /\ Len(SubSeq(t, 1, m)) = m
         /\ \A x \in 1..m : SubSeq(t, 1, m)[x] = t[x]
         /\ Runs([i \in 0..m |-> r[i]], p, SubSeq(t, 1, m))
<1>. DEFINE u == SubSeq(t, 1, m)
            v == [i \in 0..m |-> r[i]]
<1>1. u \in Seq(Char) /\ Len(u) = m /\ \A x \in 1..m : u[x] = t[x]
  <2>1. 0 \in 0..Len(t) /\ m \in 0..Len(t) /\ 0 + 1 = 1 /\ m - 0 = m
    OBVIOUS
  <2>2. /\ SubSeq(t, 0 + 1, m) \in Seq(Char) /\ Len(SubSeq(t, 0 + 1, m)) = m - 0
        /\ \A x \in 1..(m - 0) : SubSeq(t, 0 + 1, m)[x] = t[0 + x]
    BY <2>1, PartOf
  <2>3. \A x \in 1..m : 0 + x = x
    OBVIOUS
  <2>. QED
    BY <2>1, <2>2, <2>3
<1>2. v \in [0..m -> Parser] /\ v[0] = p
  <2>1. \A i \in 0..m : i \in 0..Len(t)
    OBVIOUS
  <2>2. 0 \in 0..m
    OBVIOUS
  <2>. QED
    BY <2>1, <2>2 DEF Runs
<1>3. ASSUME NEW n \in 1..m PROVE v[n] = consume[<<v[n - 1], u[n]>>]
  <2>1. n \in 1..Len(t) /\ n \in 0..m /\ n - 1 \in 0..m
    OBVIOUS
  <2>2. r[n] = consume[<<r[n - 1], t[n]>>]
    BY <2>1 DEF Runs
  <2>. QED
    BY <1>1, <2>1, <2>2
<1>. HIDE DEF u, v
<1>4. Runs(v, p, u)
  BY <1>1, <1>2, <1>3 DEF Runs
<1>. QED
  BY <1>1, <1>4 DEF u, v

\* The end of a request, character by character.
LEMMA EndOfRequest ==
  ASSUME NEW t \in Seq(Char), NEW n \in 4..Len(t)
  PROVE  SubSeq(t, n - 3, n) = <<"CR", "LF", "CR", "LF">> <=>
           t[n - 3] = "CR" /\ t[n - 2] = "LF" /\ t[n - 1] = "CR" /\ t[n] = "LF"
<1>. DEFINE m == n - 4
            u == SubSeq(t, n - 3, n)
            w == <<"CR", "LF", "CR", "LF">>
<1>1. u \in Seq(Char) /\ Len(u) = 4 /\ \A x \in 1..4 : u[x] = t[m + x]
  <2>1. m \in 0..Len(t) /\ n \in m..Len(t) /\ m + 1 = n - 3 /\ n - m = 4
    OBVIOUS
  <2>. HIDE DEF m
  <2>2. /\ SubSeq(t, m + 1, n) \in Seq(Char) /\ Len(SubSeq(t, m + 1, n)) = n - m
        /\ \A x \in 1..(n - m) : SubSeq(t, m + 1, n)[x] = t[m + x]
    BY <2>1, PartOf
  <2>. QED
    BY <2>1, <2>2
<1>2. m + 1 = n - 3 /\ m + 2 = n - 2 /\ m + 3 = n - 1 /\ m + 4 = n
  OBVIOUS
<1>. HIDE DEF u, m
<1>3. u[1] = t[n - 3] /\ u[2] = t[n - 2] /\ u[3] = t[n - 1] /\ u[4] = t[n]
  BY <1>1, <1>2
<1>4. w \in Seq(Char) /\ Len(w) = 4 /\ w[1] = "CR" /\ w[2] = "LF" /\ w[3] = "CR" /\ w[4] = "LF"
  BY DEF Char
<1>. HIDE DEF w
<1>5. u[1] = "CR" /\ u[2] = "LF" /\ u[3] = "CR" /\ u[4] = "LF" => u = w
  <2>1. SUFFICES ASSUME u[1] = "CR" /\ u[2] = "LF" /\ u[3] = "CR" /\ u[4] = "LF"
                 PROVE  \A x \in 1..Len(u) : u[x] = w[x]
    BY <1>1, <1>4, SeqEqual
  <2>2. 1..Len(u) = {1, 2, 3, 4}
    BY <1>1
  <2>. QED
    BY <1>4, <2>1, <2>2
<1>6. u = w => u[1] = "CR" /\ u[2] = "LF" /\ u[3] = "CR" /\ u[4] = "LF"
  BY <1>4
<1>. QED
  BY <1>3, <1>5, <1>6 DEF u, w

LEMMA RunHasRequest ==
  ASSUME NEW t \in Seq(Char), NEW r, Runs(r, NewParser, t)
  PROVE  r[Len(t)].state = "true" <=> HasRequest(t)
<1>. DEFINE EndsAt(n) == SubSeq(t, n - 3, n) = <<"CR", "LF", "CR", "LF">> /\ IsRequest(SubSeq(t, 1, n))
<1>0. NewParser \in Parser /\ r[0].state = "method_start" /\ Len(t) \in Nat
  BY States DEF NewParser, Parser, Runs
<1>1. ASSUME NEW n \in 1..Len(t) PROVE FindsAt(r, n) <=> n >= 4 /\ EndsAt(n)
  <2>. DEFINE u == SubSeq(t, 1, n)
              v == [i \in 0..n |-> r[i]]
  <2>1. u \in Seq(Char) /\ Len(u) = n /\ (\A x \in 1..n : u[x] = t[x]) /\ Runs(v, NewParser, u)
    BY <1>0, PrefixRun
  <2>2. v[n] = r[n] /\ v[n - 1] = r[n - 1]
    OBVIOUS
  <2>. HIDE DEF u, v
  <2>3. FindsAt(v, n) <=> EmptyLineAt(u, n) /\ IsRequest(u)
    <3>1. n >= 1 /\ n = Len(u) /\ u \in Seq(Char) /\ Runs(v, NewParser, u)
      BY <2>1
    <3>. QED
      BY <3>1, VerdictOfText
  <2>4. CASE n >= 4
    <3>1. u[n - 3] = t[n - 3] /\ u[n - 2] = t[n - 2] /\ u[n - 1] = t[n - 1] /\ u[n] = t[n]
      BY <2>1, <2>4
    <3>2. SubSeq(t, n - 3, n) = <<"CR", "LF", "CR", "LF">> <=>
             t[n - 3] = "CR" /\ t[n - 2] = "LF" /\ t[n - 1] = "CR" /\ t[n] = "LF"
      BY <2>4, EndOfRequest
    <3>. QED
      BY <2>2, <2>3, <2>4, <3>1, <3>2 DEF u, FindsAt, EmptyLineAt
  <2>5. CASE ~ (n >= 4)
    BY <2>2, <2>3, <2>5 DEF FindsAt, EmptyLineAt
  <2>. QED
    BY <2>4, <2>5
<1>2. HasRequest(t) <=> \E n \in 4..Len(t) : EndsAt(n)
  BY DEF HasRequest
<1>. HIDE DEF EndsAt
<1>3. ASSUME r[Len(t)].state = "true" PROVE HasRequest(t)
  <2>. DEFINE T == {n \in 0..Len(t) : r[n].state = "true"}
  <2>1. PICK n \in T : \A x \in T : n <= x
    <3>1. T \subseteq Nat /\ T # {}
      BY <1>0, <1>3
    <3>. HIDE DEF T
    <3>. QED
      BY <3>1, LeastNat
  <2>2. n \in 1..Len(t) /\ r[n].state = "true"
    <3>1. n # 0
      BY <1>0
    <3>. QED
      BY <3>1
  <2>3. r[n - 1].state # "true"
    BY <2>1, <2>2
  <2>4. n >= 4 /\ EndsAt(n)
    BY <1>1, <2>2, <2>3 DEF FindsAt
  <2>. QED
    BY <1>2, <2>2, <2>4
<1>4. ASSUME HasRequest(t) PROVE r[Len(t)].state = "true"
  <2>1. PICK n \in 4..Len(t) : EndsAt(n)
    BY <1>2, <1>4
  <2>2. n \in 1..Len(t) /\ n >= 4 /\ n \in 0..Len(t) /\ Len(t) \in n..Len(t)
    BY <1>0
  <2>3. r[n].state = "true"
    BY <1>1, <2>1, <2>2 DEF FindsAt
  <2>. QED
    BY <1>0, <2>2, <2>3, VerdictStands
<1>. QED
  BY <1>3, <1>4

\* The parser finds a request exactly in the texts that begin with one, and it
\* refuses none whose continuation does (request_parser::parse and consume).
THEOREM ParserIsTheGrammar ==
  ASSUME NEW t \in Seq(Char), NEW m \in 0..Len(t)
  PROVE  /\ parse(NewParser, SubSeq(t, 1, m)).state = "true" <=> HasRequest(SubSeq(t, 1, m))
         /\ parse(NewParser, SubSeq(t, 1, m)).state = "true" =>
              \A n \in m..Len(t) : HasRequest(SubSeq(t, 1, n))
         /\ parse(NewParser, SubSeq(t, 1, m)).state = "false" => ~ HasRequest(t)
<1>0. NewParser \in Parser /\ Len(t) \in Nat
  BY States DEF NewParser, Parser
<1>1. PICK r : Runs(r, NewParser, t)
  BY <1>0, ParseRuns
<1>2. ASSUME NEW n \in 0..Len(t) PROVE r[n].state = "true" <=> HasRequest(SubSeq(t, 1, n))
  <2>. DEFINE u == SubSeq(t, 1, n)
              v == [i \in 0..n |-> r[i]]
  <2>1. u \in Seq(Char) /\ Len(u) = n /\ Runs(v, NewParser, u) /\ v[n] = r[n]
    BY <1>0, <1>1, PrefixRun
  <2>. HIDE DEF u, v
  <2>2. v[n].state = "true" <=> HasRequest(u)
    BY <2>1, RunHasRequest
  <2>. QED
    BY <2>1, <2>2 DEF u
<1>3. parse(NewParser, SubSeq(t, 1, m)) = r[m]
  <2>1. 0 \in 0..Len(t) /\ m \in 0..Len(t) /\ 0 + 1 = 1
    OBVIOUS
  <2>2. r[0] = NewParser /\ parse(r[0], SubSeq(t, 0 + 1, m)) = r[m]
    BY <1>0, <1>1, <2>1, ParseChunk, SMTT(40) DEF Runs
  <2>. QED
    BY <2>1, <2>2
<1>4. r[Len(t)].state = "true" <=> HasRequest(t)
  BY <1>1, RunHasRequest
<1>5. r[m].state \in {"true", "false"} => \A n \in m..Len(t) : r[n].state = r[m].state
  BY <1>0, <1>1, VerdictStands
<1>6. ASSUME r[m].state = "true", NEW n \in m..Len(t) PROVE HasRequest(SubSeq(t, 1, n))
  <2>1. n \in 0..Len(t) /\ r[n].state = "true"
    BY <1>5, <1>6
  <2>. QED
    BY <1>2, <2>1
<1>7. r[m].state = "false" => ~ HasRequest(t)
  <2>1. Len(t) \in m..Len(t)
    OBVIOUS
  <2>. QED
    BY <1>4, <1>5, <2>1
<1>. QED
  BY <1>2, <1>3, <1>6, <1>7

\* Two chunks one after the other are parsed as one.
LEMMA ParseInTwo ==
  ASSUME NEW t \in Seq(Char), NEW m \in 0..Len(t), NEW n \in m..Len(t)
  PROVE  /\ parse(parse(NewParser, SubSeq(t, 1, m)), SubSeq(t, m + 1, n)) = parse(NewParser, SubSeq(t, 1, n))
         /\ parse(NewParser, SubSeq(t, 1, n)) \in Parser
         /\ parse(NewParser, SubSeq(t, 1, 0)) = NewParser
<1>0. NewParser \in Parser /\ Len(t) \in Nat
  BY States DEF NewParser, Parser
<1>1. PICK r : Runs(r, NewParser, t)
  BY <1>0, ParseRuns
<1>2. r[0] = NewParser /\ \A k \in 0..Len(t) : r[k] \in Parser
  BY <1>1 DEF Runs
<1>3. ASSUME NEW k \in 0..Len(t) PROVE parse(NewParser, SubSeq(t, 1, k)) = r[k]
  <2>1. 0 \in 0..Len(t) /\ k \in 0..Len(t) /\ 0 + 1 = 1
    OBVIOUS
  <2>2. parse(r[0], SubSeq(t, 0 + 1, k)) = r[k]
    BY <1>0, <1>1, <2>1, ParseChunk
  <2>. QED
    BY <1>2, <2>1, <2>2
<1>4. parse(r[m], SubSeq(t, m + 1, n)) = r[n]
  BY <1>0, <1>1, ParseChunk
<1>5. n \in 0..Len(t) /\ 0 \in 0..Len(t)
  OBVIOUS
<1>. QED
  BY <1>2, <1>3, <1>4, <1>5

USE HttpAssumption

-----------------------------------------------------------------------------
(* The types a chain depends on: TypeOK but for the parser.                 *)

Chain == {"accept", "read", "write"}

\* Handlers: those of a chain belong to a connection, the others to none.
Ready ==
  {h \in [on : Chain \cup {"waits", "exited", "stop"}, c : Conns \cup {0}, ok : BOOLEAN, n : Nat] :
     h.on \in Chain <=> h.c # 0}

IsConn(k) ==
  /\ {"op", "input", "at"} \subseteq DOMAIN k
  /\ k.op \in Chain \cup {"none"} /\ k.input \in Seq(Char) /\ k.at \in Nat

HandlerInv ==
  /\ queue \in Seq(Ready) /\ thread \in [Threads -> Ready]
  /\ conn = [c \in Conns |-> conn[c]] /\ \A c \in Conns : IsConn(conn[c])

\* Every connection is referred to once.
Unique(c) ==
  /\ \A t, u \in Threads : thread[t].c = c /\ thread[u].c = c => t = u
  /\ \A i, j \in 1..Len(queue) : queue[i].c = c /\ queue[j].c = c => i = j
  /\ \A t \in Threads, i \in 1..Len(queue) : thread[t].c # c \/ queue[i].c # c
  /\ conn[c].op # "none" => /\ \A t \in Threads : thread[t].c # c
                            /\ \A i \in 1..Len(queue) : queue[i].c # c

Unused(c) ==
  /\ conn[c].op = "none"
  /\ \A t \in Threads : thread[t].c # c
  /\ \A i \in 1..Len(queue) : queue[i].c # c

\* The one accept is for new_connection, behind which none is used yet.
AcceptInv ==
  /\ new_connection \in 1..(Len(Inputs) + 1)
  /\ \A c \in Conns : c > new_connection => Unused(c)
  /\ \A t \in Threads : thread[t].on = "accept" => thread[t].c = new_connection
  /\ \A i \in 1..Len(queue) : queue[i].on = "accept" => queue[i].c = new_connection
  /\ \A c \in Conns : conn[c].op = "accept" => c = new_connection
  /\ new_connection \in Conns =>
       \/ \E t \in Threads : thread[t].on = "accept"
       \/ \E i \in 1..Len(queue) : queue[i].on = "accept"
       \/ conn[new_connection].op = "accept"

ChainInv == HandlerInv /\ (\A c \in Conns : Unique(c)) /\ AcceptInv

LEMMA ConnsType == Conns = 1..Len(Inputs) /\ Len(Inputs) \in Nat \ {0}
BY EmptySeq DEF Conns

\* Threads that run nothing, and handlers of a connection.
LEMMA HandlerTypes ==
  /\ Waits \in Ready /\ Exited \in Ready /\ Waits.c = 0 /\ Exited.c = 0
  /\ Waits.on = "waits" /\ Exited.on = "exited"
  /\ \A ok \in BOOLEAN : Handler("stop", 0, ok, 0) \in Ready
  /\ \A on \in Chain, c \in Conns, ok \in BOOLEAN, n \in Nat : Handler(on, c, ok, n) \in Ready
BY ConnsType DEF Handler, Waits, Exited, Ready, Chain

\* How much is read at once.
LEMMA ReadIsNat ==
  ASSUME NEW a \in Nat, NEW b \in Nat
  PROVE  Min({a, b}) \in Nat
<1>1. \E x \in {a, b} : \A y \in {a, b} : x <= y
  OBVIOUS
<1>. QED
  BY <1>1 DEF Min

-----------------------------------------------------------------------------
(* Kinds of steps: an operation completes, a thread takes up a handler, and *)
(* a handler ends.                                                          *)

\* An operation of a connection completes and queues the connection's handler.
LEMMA CompleteStep ==
  ASSUME ChainInv, NEW c \in Conns, NEW op \in Chain, NEW ok \in BOOLEAN, NEW n \in Nat,
         Complete(c, op, Handler(op, c, ok, n)), UNCHANGED thread,
         conn' = [d \in Conns |-> conn'[d]], IsConn(conn'[c]), conn'[c].op = "none",
         \A d \in Conns \ {c} : conn'[d] = conn[d]
  PROVE  ChainInv'
<1>. DEFINE h == Handler(op, c, ok, n)
<1>1. /\ conn[c].op = op /\ queue' = Append(queue, h) /\ new_connection' = new_connection
      /\ h \in Ready /\ h.c = c /\ h.on = op
  BY HandlerTypes DEF Complete, Handler
<1>. HIDE DEF h
<1>2. /\ queue' \in Seq(Ready) /\ Len(queue') = Len(queue) + 1 /\ Len(queue) \in Nat
      /\ \A i \in 1..Len(queue) : queue'[i] = queue[i]
      /\ queue'[Len(queue) + 1] = h
  BY <1>1 DEF ChainInv, HandlerInv
<1>3. HandlerInv'
  BY <1>2 DEF ChainInv, HandlerInv
<1>4. \A t \in Threads : thread[t].c # c
  BY <1>1 DEF ChainInv, Unique, Chain
<1>5. \A i \in 1..Len(queue) : queue[i].c # c
  BY <1>1 DEF ChainInv, Unique, Chain
<1>6. ASSUME NEW d \in Conns PROVE Unique(d)'
  <2>1. Unique(d)
    BY DEF ChainInv
  <2>2. CASE d = c
    BY <1>1, <1>2, <1>4, <1>5, <2>2 DEF Unique
  <2>3. CASE d # c
    BY <1>1, <1>2, <2>1, <2>3 DEF Unique
  <2>. QED
    BY <2>2, <2>3
<1>7. AcceptInv'
  <2>1. AcceptInv
    BY DEF ChainInv
  <2>2. c <= new_connection
    BY <1>1, <2>1, ConnsType DEF AcceptInv, Unused, Chain
  <2>3. \A d \in Conns : d > new_connection => Unused(d)'
    BY <1>1, <1>2, <2>1, <2>2, ConnsType, SMTT(40) DEF AcceptInv, Unused
  <2>4. op = "accept" => c = new_connection
    BY <1>1, <2>1 DEF AcceptInv
  <2>5. \A i \in 1..Len(queue') : queue'[i].on = "accept" => queue'[i].c = new_connection
    BY <1>1, <1>2, <2>1, <2>4 DEF AcceptInv
  <2>6. new_connection \in Conns =>
           \/ \E t \in Threads : thread[t].on = "accept"
           \/ \E i \in 1..Len(queue') : queue'[i].on = "accept"
           \/ conn'[new_connection].op = "accept"
    <3>1. CASE new_connection = c /\ op = "accept"
      BY <1>1, <1>2, <3>1
    <3>2. CASE new_connection # c \/ op # "accept"
      BY <1>1, <1>2, <2>1, <3>2 DEF AcceptInv
    <3>. QED
      BY <3>1, <3>2
  <2>7. \A d \in Conns : conn'[d].op = "accept" => d = new_connection
    BY <2>1 DEF AcceptInv
  <2>. QED
    BY <1>1, <2>1, <2>3, <2>5, <2>6, <2>7 DEF AcceptInv
<1>. QED
  BY <1>3, <1>6, <1>7 DEF ChainInv

\* A thread that waits takes up the first handler of the queue.
LEMMA TakeStep ==
  ASSUME ChainInv, NEW t \in Threads, Take(t)
  PROVE  ChainInv'
<1>1. /\ thread[t] = Waits /\ queue # <<>>
      /\ thread' = [thread EXCEPT ![t] = Head(queue)] /\ queue' = Tail(queue)
      /\ conn' = conn /\ new_connection' = new_connection
  BY DEF Take
<1>2. queue \in Seq(Ready) /\ thread \in [Threads -> Ready]
  BY DEF ChainInv, HandlerInv
<1>3. /\ Head(queue) = queue[1] /\ Head(queue) \in Ready /\ queue' \in Seq(Ready)
      /\ Len(queue) \in Nat \ {0} /\ Len(queue') = Len(queue) - 1
      /\ \A i \in 1..Len(queue') : i + 1 \in 1..Len(queue) /\ queue'[i] = queue[i + 1]
  <2>1. Head(queue) = queue[1] /\ Head(queue) \in Ready /\ Len(queue) \in Nat \ {0}
    BY <1>1, <1>2, EmptySeq
  <2>2. /\ Tail(queue) \in Seq(Ready) /\ Len(Tail(queue)) = Len(queue) - 1
        /\ \A i \in 1..Len(Tail(queue)) : Tail(queue)[i] = queue[i + 1]
    BY <1>1, <1>2, HeadTailProperties
  <2>. QED
    BY <1>1, <2>1, <2>2
<1>4. thread'[t] = queue[1] /\ \A u \in Threads \ {t} : thread'[u] = thread[u]
  BY <1>1, <1>2, <1>3
<1>5. HandlerInv'
  BY <1>1, <1>2, <1>3 DEF ChainInv, HandlerInv
<1>6. thread[t].c = 0 /\ thread[t].on = "waits"
  BY <1>1, HandlerTypes
<1>7. ASSUME NEW c \in Conns PROVE Unique(c)'
  <2>0. Unique(c) /\ c # 0
    BY ConnsType DEF ChainInv
  <2>1. \A u, v \in Threads : thread'[u].c = c /\ thread'[v].c = c => u = v
    BY <1>3, <1>4, <2>0 DEF Unique
  <2>2. ASSUME NEW i \in 1..Len(queue'), NEW j \in 1..Len(queue'),
               queue'[i].c = c, queue'[j].c = c
        PROVE  i = j
    <3>1. i + 1 = j + 1
      BY <1>3, <2>0, <2>2 DEF Unique
    <3>. QED
      BY <1>3, <3>1
  <2>3. \A u \in Threads, i \in 1..Len(queue') : thread'[u].c # c \/ queue'[i].c # c
    BY <1>3, <1>4, <2>0 DEF Unique
  <2>4. conn'[c].op # "none" => /\ \A u \in Threads : thread'[u].c # c
                                /\ \A i \in 1..Len(queue') : queue'[i].c # c
    BY <1>1, <1>3, <1>4, <2>0 DEF Unique
  <2>. QED
    BY <2>1, <2>2, <2>3, <2>4 DEF Unique
<1>8. AcceptInv'
  <2>0. AcceptInv
    BY DEF ChainInv
  <2>1. ASSUME NEW c \in Conns, c > new_connection PROVE Unused(c)'
    <3>1. Unused(c)
      BY <2>0, <2>1 DEF AcceptInv
    <3>2. /\ conn'[c].op = "none"
          /\ \A u \in Threads : thread[u].c # c
          /\ \A i \in 1..Len(queue) : queue[i].c # c
      BY <1>1, <3>1 DEF Unused
    <3>3. 1 \in 1..Len(queue)
      BY <1>3
    <3>4. \A u \in Threads : thread'[u].c # c
      BY <1>4, <3>2, <3>3
    <3>5. \A i \in 1..Len(queue') : queue'[i].c # c
      BY <1>3, <3>2
    <3>. QED
      BY <3>2, <3>4, <3>5 DEF Unused
  <2>2. \A u \in Threads : thread'[u].on = "accept" => thread'[u].c = new_connection
    BY <1>3, <1>4, <2>0 DEF AcceptInv
  <2>3. \A i \in 1..Len(queue') : queue'[i].on = "accept" => queue'[i].c = new_connection
    BY <1>3, <2>0, SMTT(40) DEF AcceptInv
  <2>4. ASSUME NEW i \in 1..Len(queue), queue[i].on = "accept"
        PROVE  \/ \E u \in Threads : thread'[u].on = "accept"
               \/ \E j \in 1..Len(queue') : queue'[j].on = "accept"
    <3>1. CASE i = 1
      BY <1>4, <2>4, <3>1
    <3>2. CASE i # 1
      <4>1. i - 1 \in 1..Len(queue') /\ (i - 1) + 1 = i
        BY <1>3, <3>2
      <4>. QED
        BY <1>3, <2>4, <4>1
    <3>. QED
      BY <3>1, <3>2
  <2>5. ASSUME NEW u \in Threads, thread[u].on = "accept"
        PROVE  \E v \in Threads : thread'[v].on = "accept"
    BY <1>4, <1>6, <2>5
  <2>. QED
    BY <1>1, <2>0, <2>1, <2>2, <2>3, <2>4, <2>5 DEF AcceptInv
<1>. QED
  BY <1>5, <1>7, <1>8 DEF ChainInv

\* A thread comes to wait, or leaves, after a handler that is no accept's; only
\* the connection of that handler changes, and starts no accept.
LEMMA HandlerEnds ==
  ASSUME ChainInv, NEW t \in Threads, thread[t].on # "accept",
         NEW idle \in {Waits, Exited}, thread' = [thread EXCEPT ![t] = idle],
         UNCHANGED <<queue, new_connection>>,
         conn' = [c \in Conns |-> conn'[c]],
         \A c \in Conns : IF c = thread[t].c
                         THEN IsConn(conn'[c]) /\ conn'[c].op \in {"none", "read", "write"}
                         ELSE conn'[c] = conn[c]
  PROVE  ChainInv'
<1>1. thread \in [Threads -> Ready] /\ idle \in Ready /\ idle.c = 0 /\ idle.on # "accept"
  BY HandlerTypes DEF ChainInv, HandlerInv
<1>2. /\ thread'[t] = idle /\ \A u \in Threads \ {t} : thread'[u] = thread[u]
      /\ thread' \in [Threads -> Ready]
  BY <1>1
<1>3. HandlerInv'
  BY <1>2 DEF ChainInv, HandlerInv
<1>4. ASSUME NEW c \in Conns PROVE Unique(c)'
  <2>1. Unique(c) /\ c # 0
    BY ConnsType DEF ChainInv
  <2>2. CASE c = thread[t].c
    BY <1>1, <1>2, <2>1, <2>2 DEF Unique
  <2>3. CASE c # thread[t].c
    BY <1>1, <1>2, <2>1, <2>3 DEF Unique
  <2>. QED
    BY <2>2, <2>3
<1>5. AcceptInv'
  <2>1. AcceptInv /\ \A c \in Conns : c # 0
    BY ConnsType DEF ChainInv
  <2>2. \A c \in Conns : c > new_connection => Unused(c)'
    BY <1>1, <1>2, <2>1 DEF AcceptInv, Unused
  <2>3. \A u \in Threads : thread'[u].on = "accept" => thread'[u].c = new_connection
    BY <1>1, <1>2, <2>1 DEF AcceptInv
  <2>4. \A c \in Conns : conn'[c].op = "accept" => c = new_connection
    BY <2>1 DEF AcceptInv
  <2>5. new_connection \in Conns =>
           \/ \E u \in Threads : thread'[u].on = "accept"
           \/ \E i \in 1..Len(queue) : queue[i].on = "accept"
           \/ conn'[new_connection].op = "accept"
    <3>1. ASSUME new_connection \in Conns, conn[new_connection].op = "accept"
          PROVE  conn'[new_connection].op = "accept"
      BY <2>1, <3>1 DEF ChainInv, Unique
    <3>2. ASSUME NEW u \in Threads, thread[u].on = "accept"
          PROVE  \E v \in Threads : thread'[v].on = "accept"
      BY <1>2, <3>2
    <3>. QED
      BY <2>1, <3>1, <3>2 DEF AcceptInv
  <2>. QED
    BY <2>1, <2>2, <2>3, <2>4, <2>5 DEF AcceptInv
<1>. QED
  BY <1>3, <1>4, <1>5 DEF ChainInv

\* The handler of an accept starts the next one, in any case.
LEMMA AcceptStep ==
  ASSUME ChainInv, NEW t \in Threads, handle_accept(t)
  PROVE  ChainInv'
<1>. DEFINE c == thread[t].c
            next == IF thread[t].ok THEN c + 1 ELSE c
<1>0. AcceptInv /\ \A d \in Conns : Unique(d)
  BY DEF ChainInv
<1>1. /\ thread[t].on = "accept" /\ thread' = [thread EXCEPT ![t] = Waits] /\ queue' = queue
      /\ c \in Conns /\ c = new_connection
  BY <1>0 DEF handle_accept, Running, ChainInv, HandlerInv, Ready, Chain, AcceptInv
<1>2. /\ new_connection' = next
      /\ conn' = [d \in Conns |-> IF d = next THEN [New EXCEPT !.op = "accept"]
                                 ELSE IF d = c THEN [conn[c] EXCEPT !.op = "read"] ELSE conn[d]]
  BY <1>1 DEF handle_accept, start_accept, ChainInv, HandlerInv
<1>3. /\ thread'[t] = Waits /\ \A u \in Threads \ {t} : thread'[u] = thread[u]
      /\ thread' \in [Threads -> Ready]
  BY <1>1, HandlerTypes DEF ChainInv, HandlerInv
<1>4. Waits.c = 0 /\ Waits.on = "waits" /\ \A d \in Conns : d \in Nat /\ d # 0
  BY HandlerTypes, ConnsType
<1>5. IsConn([New EXCEPT !.op = "accept"]) /\ [New EXCEPT !.op = "accept"].op = "accept"
  BY EmptySeq DEF IsConn, New, Chain
<1>6. IsConn([conn[c] EXCEPT !.op = "read"]) /\ [conn[c] EXCEPT !.op = "read"].op = "read"
  BY <1>1 DEF ChainInv, HandlerInv, IsConn, Chain
<1>7. HandlerInv'
  BY <1>1, <1>2, <1>3, <1>5, <1>6 DEF ChainInv, HandlerInv
<1>8. next \in 1..(Len(Inputs) + 1) /\ (next = c \/ next = c + 1)
  BY <1>1, ConnsType
<1>9. (\A u \in Threads \ {t} : thread[u].c # c) /\ \A i \in 1..Len(queue) : queue[i].c # c
  BY <1>0, <1>1 DEF Unique
<1>10. next # c /\ next \in Conns => Unused(next)
  BY <1>0, <1>1, <1>4, <1>8 DEF AcceptInv
<1>. HIDE DEF next, c
<1>11. ASSUME NEW d \in Conns PROVE Unique(d)'
  <2>1. CASE d = c
    BY <1>0, <1>1, <1>3, <1>4, <1>9, <2>1 DEF Unique, c
  <2>2. CASE d = next /\ d # c
    BY <1>1, <1>3, <1>4, <1>10, <2>2 DEF Unique, Unused
  <2>3. CASE d # next /\ d # c
    <3>1. Unique(d) /\ conn'[d] = conn[d]
      BY <1>0, <1>2, <2>3
    <3>. QED
      BY <1>1, <1>3, <1>4, <3>1 DEF Unique
  <2>. QED
    BY <2>1, <2>2, <2>3
<1>12. AcceptInv'
  <2>1. ASSUME NEW d \in Conns, d > next PROVE Unused(d)'
    <3>1. d # next /\ d # c /\ d > new_connection
      BY <1>1, <1>4, <1>8, <2>1
    <3>. QED
      BY <1>0, <1>1, <1>2, <1>3, <1>4, <3>1 DEF AcceptInv, Unused
  <2>2. \A u \in Threads : thread'[u].on # "accept"
    BY <1>0, <1>1, <1>3, <1>4, <1>9 DEF AcceptInv
  <2>3. \A i \in 1..Len(queue) : queue[i].on # "accept"
    BY <1>0, <1>1, <1>9 DEF AcceptInv
  <2>4. \A d \in Conns : conn'[d].op = "accept" => d = next
    BY <1>0, <1>1, <1>2, <1>6 DEF AcceptInv
  <2>5. next \in Conns => conn'[next].op = "accept"
    BY <1>2, <1>5
  <2>. QED
    BY <1>1, <1>2, <1>8, <2>1, <2>2, <2>3, <2>4, <2>5 DEF AcceptInv
<1>. QED
  BY <1>7, <1>11, <1>12 DEF ChainInv

-----------------------------------------------------------------------------
(* The theorem *)

\* A handler that reads goes on, answers, or frees its connection.
LEMMA ReadStep ==
  ASSUME ChainInv, NEW t \in Threads, handle_read(t)
  PROVE  ChainInv'
<1>. DEFINE c == thread[t].c
<1>1. /\ thread[t].on = "read" /\ thread' = [thread EXCEPT ![t] = Waits]
      /\ UNCHANGED <<queue, new_connection>>
      /\ c \in Conns /\ IsConn(conn[c])
  BY ZenonT(40) DEF handle_read, Running, ChainInv, HandlerInv, Ready, Chain
<1>2. \/ conn' = [conn EXCEPT ![c] = New]
      \/ \E p, op, reply : /\ op \in {"read", "write"}
                          /\ conn' = [conn EXCEPT ![c].parser = p, ![c].op = op, ![c].reply = reply]
  <2>. DEFINE next(p, op, reply) ==
                conn' = [conn EXCEPT ![c].parser = p, ![c].op = op, ![c].reply = reply]
  <2>1. \/ conn' = [conn EXCEPT ![c] = New]
        \/ \E p : \/ \E status \in handle_request : next(p, "write", status)
                 \/ next(p, "write", "bad_request")
                 \/ next(p, "read", "none")
    BY DEF handle_read
  <2>. HIDE DEF next
  <2>2. (\E p, op, reply : op \in {"read", "write"} /\ next(p, op, reply))
          \/ conn' = [conn EXCEPT ![c] = New]
    BY <2>1
  <2>. QED
    BY <2>2, ZenonT(40) DEF next
<1>3. CASE conn' = [conn EXCEPT ![c] = New]
  <2>1. IsConn(New) /\ New.op = "none"
    BY EmptySeq DEF IsConn, New
  <2>. QED
    BY <1>1, <1>3, <2>1, HandlerEnds DEF ChainInv, HandlerInv
<1>4. ASSUME NEW p, NEW op \in {"read", "write"}, NEW reply,
             conn' = [conn EXCEPT ![c].parser = p, ![c].op = op, ![c].reply = reply]
      PROVE  ChainInv'
  <2>. DEFINE k == [conn[c] EXCEPT !.parser = p, !.op = op, !.reply = reply]
  <2>1. IsConn(k) /\ k.op = op
    BY <1>1 DEF IsConn, Chain
  <2>2. conn' = [conn EXCEPT ![c] = k]
    BY <1>4
  <2>. HIDE DEF k
  <2>. QED
    BY <1>1, <2>1, <2>2, HandlerEnds DEF ChainInv, HandlerInv
<1>. QED
  BY <1>2, <1>3, <1>4, ZenonT(40)

\* ChainInv is inductive.
LEMMA NextChainInv == ChainInv /\ [Next]_vars => ChainInv'
<1>. SUFFICES ASSUME ChainInv, [Next]_vars PROVE ChainInv'
  OBVIOUS
<1>0. /\ queue \in Seq(Ready) /\ thread \in [Threads -> Ready]
      /\ conn = [c \in Conns |-> conn[c]] /\ \A c \in Conns : IsConn(conn[c])
  BY DEF ChainInv, HandlerInv
<1>. DEFINE Closes(c, k) == conn' = [conn EXCEPT ![c] = k] /\ IsConn(k) /\ k.op = "none"
<1>1. ASSUME NEW c \in Conns, NEW op \in Chain, NEW ok \in BOOLEAN, NEW n \in Nat,
             Complete(c, op, Handler(op, c, ok, n)), UNCHANGED thread,
             \E k : Closes(c, k)
      PROVE  ChainInv'
  BY <1>0, <1>1, CompleteStep
<1>2. ASSUME NEW c \in Conns PROVE /\ IsConn([conn[c] EXCEPT !.op = "none"])
                                   /\ [conn[c] EXCEPT !.op = "none"].op = "none"
  BY <1>0 DEF IsConn
<1>3. ASSUME NEW c \in Conns, Accepted(c) PROVE ChainInv'
  <2>1. PICK s \in Inputs[c] : conn' = [conn EXCEPT ![c].op = "none", ![c].input = s]
    BY <1>3 DEF Accepted
  <2>2. s \in Seq(Char)
    BY <2>1, ConnsType, ElementOfSeq
  <2>3. Closes(c, [conn[c] EXCEPT !.op = "none", !.input = s])
    BY <1>0, <2>1, <2>2 DEF IsConn
  <2>. QED
    BY <1>1, <1>3, <2>3 DEF Accepted, Chain
<1>4. ASSUME NEW c \in Conns, AcceptFailed(c) \/ Written(c) \/ PeerGone(c) PROVE ChainInv'
  <2>1. Closes(c, [conn[c] EXCEPT !.op = "none"])
    BY <1>2, <1>4 DEF AcceptFailed, Written, PeerGone
  <2>. QED
    BY <1>1, <1>4, <2>1 DEF AcceptFailed, Written, PeerGone, Chain
<1>5. ASSUME NEW c \in Conns, NEW size \in ReadSizes, SomeRead(c, size) PROVE ChainInv'
  <2>. DEFINE rest == Len(conn[c].input) - conn[c].at
              n == Min({size, rest})
  <2>1. rest \in Nat /\ size \in Nat /\ conn[c].at \in Nat
    BY <1>0, <1>5 DEF SomeRead, IsConn
  <2>2. n \in Nat
    BY <2>1, ReadIsNat
  <2>3. /\ Complete(c, "read", Handler("read", c, TRUE, n)) /\ UNCHANGED thread
        /\ conn' = [conn EXCEPT ![c].op = "none", ![c].at = @ + n]
    BY <1>5 DEF SomeRead
  <2>. HIDE DEF n, rest
  <2>4. Closes(c, [conn[c] EXCEPT !.op = "none", !.at = @ + n])
    <3>1. conn[c].at + n \in Nat /\ IsConn(conn[c])
      BY <1>0, <2>1, <2>2
    <3>. DEFINE k == [conn[c] EXCEPT !.op = "none", !.at = @ + n]
    <3>2. IsConn(k) /\ k.op = "none"
      BY <3>1 DEF IsConn
    <3>3. conn' = [conn EXCEPT ![c] = k]
      BY <2>3
    <3>. QED
      BY <3>2, <3>3
  <2>. QED
    BY <1>1, <2>2, <2>3, <2>4 DEF Chain
<1>6. ASSUME Signal PROVE ChainInv'
  <2>. DEFINE h == Handler("stop", 0, TRUE, 0)
  <2>1. queue' = Append(queue, h) /\ UNCHANGED <<thread, conn, new_connection>>
    BY <1>6 DEF Signal
  <2>2. h \in Ready /\ h.c = 0 /\ h.on = "stop"
    BY HandlerTypes DEF Handler
  <2>. HIDE DEF h
  <2>3. /\ queue' \in Seq(Ready) /\ Len(queue') = Len(queue) + 1 /\ Len(queue) \in Nat
        /\ \A i \in 1..Len(queue) : queue'[i] = queue[i]
        /\ queue'[Len(queue) + 1] = h
    BY <1>0, <2>1, <2>2
  <2>4. ASSUME NEW c \in Conns PROVE Unique(c)'
    <3>1. Unique(c) /\ c # 0
      BY ConnsType DEF ChainInv
    <3>. QED
      BY <2>1, <2>2, <2>3, <3>1 DEF Unique
  <2>5. AcceptInv'
    <3>1. AcceptInv /\ \A c \in Conns : c # 0
      BY ConnsType DEF ChainInv
    <3>2. \A c \in Conns : c > new_connection => Unused(c)'
      BY <2>1, <2>2, <2>3, <3>1 DEF AcceptInv, Unused
    <3>. QED
      BY <2>1, <2>2, <2>3, <3>1, <3>2 DEF AcceptInv
  <2>. QED
    BY <1>0, <2>1, <2>3, <2>4, <2>5 DEF ChainInv, HandlerInv
<1>7. ASSUME NEW t \in Threads, Take(t) PROVE ChainInv'
  BY <1>7, TakeStep
<1>8. ASSUME NEW t \in Threads, Exit(t) \/ handle_stop(t) PROVE ChainInv'
  <2>1. \E idle \in {Waits, Exited} : thread' = [thread EXCEPT ![t] = idle]
    BY <1>8 DEF Exit, handle_stop, Running
  <2>2. thread[t].on \in {"waits", "stop"} /\ UNCHANGED <<queue, new_connection, conn>>
    BY <1>8, HandlerTypes DEF Exit, handle_stop, Running
  <2>3. \A c \in Conns : c # thread[t].c
    <3>1. thread[t] \in Ready /\ thread[t].on \notin Chain
      BY <1>0, <2>2 DEF Chain
    <3>2. thread[t].c = 0
      BY <3>1 DEF Ready
    <3>. QED
      BY <3>2, ConnsType
  <2>. QED
    BY <1>0, <2>1, <2>2, <2>3, HandlerEnds
<1>9. ASSUME NEW t \in Threads, handle_accept(t) PROVE ChainInv'
  BY <1>9, AcceptStep
<1>10. ASSUME NEW t \in Threads, handle_read(t) PROVE ChainInv'
  BY <1>10, ReadStep
<1>11. ASSUME NEW t \in Threads, handle_write(t) PROVE ChainInv'
  <2>1. /\ thread[t].on = "write" /\ thread' = [thread EXCEPT ![t] = Waits]
        /\ UNCHANGED <<queue, new_connection>> /\ conn' = [conn EXCEPT ![thread[t].c] = New]
    BY <1>11 DEF handle_write, Running
  <2>2. IsConn(New) /\ New.op = "none"
    BY EmptySeq DEF IsConn, New
  <2>. QED
    BY <1>0, <2>1, <2>2, HandlerEnds
<1>12. ASSUME UNCHANGED vars PROVE ChainInv'
  BY <1>12 DEF vars, ChainInv, HandlerInv, Unique, AcceptInv, Unused
<1>. QED
  BY <1>3, <1>4, <1>5, <1>6, <1>7, <1>8, <1>9, <1>10, <1>11, <1>12 DEF Next, Pool

LEMMA ChainInvHolds == Spec => []ChainInv
<1>1. Init => ChainInv
  <2>. SUFFICES ASSUME Init PROVE ChainInv
    OBVIOUS
  <2>1. /\ queue = <<>> /\ queue \in Seq(Ready) /\ Len(queue) = 0 /\ new_connection = 1
        /\ thread = [t \in Threads |-> Waits]
        /\ conn = [c \in Conns |-> IF c = 1 THEN [New EXCEPT !.op = "accept"] ELSE New]
    BY EmptySeq DEF Init
  <2>2. /\ IsConn(New) /\ New.op = "none"
        /\ IsConn([New EXCEPT !.op = "accept"]) /\ [New EXCEPT !.op = "accept"].op = "accept"
    BY EmptySeq DEF IsConn, New, Chain
  <2>3. HandlerInv
    BY <2>1, <2>2, HandlerTypes DEF HandlerInv
  <2>4. \A c \in Conns : Unique(c)
    BY <2>1, ConnsType, HandlerTypes DEF Unique
  <2>5. AcceptInv
    BY <2>1, <2>2, ConnsType, HandlerTypes DEF AcceptInv, Unused
  <2>. QED
    BY <2>3, <2>4, <2>5 DEF ChainInv
<1>. QED
  BY <1>1, NextChainInv, PTL DEF Spec

\* A set whose elements are all the same one counts one or none.
LEMMA AtMostOne ==
  ASSUME NEW S, \A x, y \in S : x = y
  PROVE  (S = {} /\ Cardinality(S) = 0) \/ (S # {} /\ Cardinality(S) = 1)
<1>1. CASE S = {}
  BY <1>1, FS_EmptySet
<1>2. CASE S # {}
  <2>1. PICK x \in S : S = {x}
    BY <1>2
  <2>2. Cardinality({x}) = 1
    BY FS_Singleton
  <2>. QED
    BY <1>2, <2>1, <2>2
<1>. QED
  BY <1>1, <1>2

\* Whatever the handlers' order, a connection has one operation or handler at a
\* time, and until all have connected exactly one accept is on its way.
THEOREM ChainsStaySingle == Spec => []OneChainEach
<1>1. ChainInv => OneChainEach
  <2>. SUFFICES ASSUME ChainInv PROVE OneChainEach
    OBVIOUS
  <2>0. queue \in Seq(Ready) /\ DOMAIN queue = 1..Len(queue)
    BY DEF ChainInv, HandlerInv
  <2>1. ASSUME NEW c \in Conns PROVE References(c) <= 1
    <3>. DEFINE T == {t \in Threads : thread[t].c = c}
                Q == {i \in DOMAIN queue : queue[i].c = c}
    <3>1. Unique(c)
      BY DEF ChainInv
    <3>2. (T = {} /\ Cardinality(T) = 0) \/ (T # {} /\ Cardinality(T) = 1)
      BY <3>1, AtMostOne DEF Unique
    <3>3. (Q = {} /\ Cardinality(Q) = 0) \/ (Q # {} /\ Cardinality(Q) = 1)
      BY <2>0, <3>1, AtMostOne DEF Unique
    <3>4. /\ T = {} \/ Q = {}
          /\ conn[c].op # "none" => T = {} /\ Q = {}
      BY <2>0, <3>1 DEF Unique
    <3>5. References(c) = Cardinality(T) + Cardinality(Q) + (IF conn[c].op = "none" THEN 0 ELSE 1)
      BY DEF References
    <3>. HIDE DEF T, Q
    <3>. QED
      BY <3>2, <3>3, <3>4, <3>5
  <2>2. ASSUME new_connection \in Conns PROVE Accepts = 1
    <3>. DEFINE T == {t \in Threads : thread[t].on = "accept"}
                Q == {i \in DOMAIN queue : queue[i].on = "accept"}
                C == {c \in Conns : conn[c].op = "accept"}
    <3>1. AcceptInv /\ Unique(new_connection)
      BY <2>2 DEF ChainInv
    <3>2. (T = {} /\ Cardinality(T) = 0) \/ (T # {} /\ Cardinality(T) = 1)
      <4>1. \A x, y \in T : x = y
        BY <3>1 DEF Unique, AcceptInv
      <4>. HIDE DEF T
      <4>. QED
        BY <4>1, AtMostOne
    <3>3. (Q = {} /\ Cardinality(Q) = 0) \/ (Q # {} /\ Cardinality(Q) = 1)
      <4>1. \A x, y \in Q : x = y
        BY <2>0, <3>1 DEF Unique, AcceptInv
      <4>. HIDE DEF Q
      <4>. QED
        BY <4>1, AtMostOne
    <3>4. (C = {} /\ Cardinality(C) = 0) \/ (C # {} /\ Cardinality(C) = 1)
      <4>1. \A x, y \in C : x = y
        BY <3>1 DEF AcceptInv
      <4>. HIDE DEF C
      <4>. QED
        BY <4>1, AtMostOne
    <3>5. T = {} \/ Q = {}
      BY <2>0, <3>1 DEF Unique, AcceptInv
    <3>6. C # {} => T = {} /\ Q = {}
      BY <2>0, <3>1 DEF Unique, AcceptInv
    <3>7. T # {} \/ Q # {} \/ C # {}
      BY <2>0, <2>2, <3>1 DEF AcceptInv
    <3>8. Accepts = Cardinality(T) + Cardinality(Q) + Cardinality(C)
      BY DEF Accepts
    <3>. HIDE DEF T, Q, C
    <3>. QED
      BY <3>2, <3>3, <3>4, <3>5, <3>6, <3>7, <3>8
  <2>. QED
    BY <2>1, <2>2 DEF OneChainEach
<1>. QED
  BY <1>1, ChainInvHolds, PTL

-----------------------------------------------------------------------------
(* What has been parsed *)

\* All that was read but for the last n characters was parsed, as if at once.
Parsed(k, n) ==
  n <= k.at /\ k.parser = parse(NewParser, SubSeq(k.input, 1, k.at - n))

\* A connection whose record is whole, and new while it is accepted.
Whole(k) ==
  /\ IsConn(k) /\ {"parser", "reply"} \subseteq DOMAIN k
  /\ k.at <= Len(k.input) /\ k.parser \in Parser
  /\ k.reply \in Statuses \cup {"none"} /\ (k.op = "write" => k.reply \in Statuses)
  /\ k.op = "accept" => k.at = 0 /\ k.parser = NewParser

\* The characters of a read that were not parsed are those of its handler.
HandlerOK(cs, h) ==
  /\ h.on # "read" => h.n = 0
  /\ h.c # 0 => Parsed(cs[h.c], h.n)

ParserInv ==
  /\ \A c \in Conns : Whole(conn[c])
  /\ \A t \in Threads : HandlerOK(conn, thread[t])
  /\ \A i \in 1..Len(queue) : HandlerOK(conn, queue[i])
  /\ \A c \in Conns :
       (\A t \in Threads : thread[t].c # c) /\ (\A i \in 1..Len(queue) : queue[i].c # c) => Parsed(conn[c], 0)

\* A connection before it is used, and one that is accepted.
LEMMA NewIsParsed ==
  /\ Whole(New) /\ Parsed(New, 0) /\ New.op = "none"
  /\ Whole([New EXCEPT !.op = "accept"]) /\ Parsed([New EXCEPT !.op = "accept"], 0)
<1>1. NewParser \in Parser
  BY States DEF NewParser, Parser
<1>2. <<>> \in Seq(Char) /\ Len(<<>>) = 0
  BY EmptySeq
<1>3. parse(NewParser, SubSeq(<<>>, 1, 0)) = NewParser
  <2>1. 0 \in 0..Len(<<>>) /\ 0 \in 0..0
    BY <1>2
  <2>2. \A t \in Seq(Char) : 0 \in 0..Len(t) => parse(NewParser, SubSeq(t, 1, 0)) = NewParser
    <3>. SUFFICES ASSUME NEW t \in Seq(Char), 0 \in 0..Len(t)
                  PROVE  parse(NewParser, SubSeq(t, 1, 0)) = NewParser
      OBVIOUS
    <3>1. 0 \in 0..Len(t)
      OBVIOUS
    <3>. QED
      BY <2>1, <3>1, ParseInTwo
  <2>. QED
    BY <1>2, <2>1, <2>2
<1>. QED
  BY <1>1, <1>2, <1>3 DEF New, Whole, IsConn, Parsed, Chain

\* An operation completes: its handler knows what was not parsed yet.
LEMMA CompleteParsed ==
  ASSUME ChainInv, ParserInv, NEW c \in Conns, NEW op \in Chain, NEW ok \in BOOLEAN, NEW n \in Nat,
         Complete(c, op, Handler(op, c, ok, n)), UNCHANGED thread,
         Whole(conn'[c]), Parsed(conn'[c], n), op # "read" => n = 0,
         \A d \in Conns \ {c} : conn'[d] = conn[d]
  PROVE  ParserInv'
<1>. DEFINE h == Handler(op, c, ok, n)
<1>1. /\ conn[c].op = op /\ queue' = Append(queue, h)
      /\ h \in Ready /\ h.c = c /\ h.on = op /\ h.n = n
  BY HandlerTypes DEF Complete, Handler
<1>. HIDE DEF h
<1>2. /\ queue \in Seq(Ready) /\ thread \in [Threads -> Ready]
      /\ Len(queue') = Len(queue) + 1 /\ Len(queue) \in Nat
      /\ \A i \in 1..Len(queue) : queue'[i] = queue[i] /\ queue[i] \in Ready
      /\ queue'[Len(queue) + 1] = h
  BY <1>1 DEF ChainInv, HandlerInv
<1>3. (\A t \in Threads : thread[t].c # c) /\ \A i \in 1..Len(queue) : queue[i].c # c
  BY <1>1 DEF ChainInv, Unique, Chain
<1>4. \A d \in Conns : Whole(conn'[d])
  BY DEF ParserInv
<1>5. ASSUME NEW g \in Ready, g.c # c, HandlerOK(conn, g) PROVE HandlerOK(conn', g)
  <2>1. g.c # 0 => conn'[g.c] = conn[g.c]
    BY <1>5 DEF Ready
  <2>. QED
    BY <1>5, <2>1 DEF HandlerOK
<1>6. \A t \in Threads : HandlerOK(conn', thread'[t])
  BY <1>2, <1>3, <1>5 DEF ParserInv
<1>7. HandlerOK(conn', h)
  BY <1>1 DEF HandlerOK
<1>8. \A i \in 1..Len(queue') : HandlerOK(conn', queue'[i])
  <2>1. \A i \in 1..Len(queue) : HandlerOK(conn', queue'[i])
    BY <1>2, <1>3, <1>5 DEF ParserInv
  <2>. QED
    BY <1>2, <1>7, <2>1
<1>9. ASSUME NEW d \in Conns, \A i \in 1..Len(queue') : queue'[i].c # d, \A t \in Threads : thread'[t].c # d
      PROVE  Parsed(conn'[d], 0)
  <2>1. d # c
    BY <1>1, <1>2, <1>9
  <2>2. \A i \in 1..Len(queue) : queue[i].c # d
    BY <1>2, <1>9
  <2>. QED
    BY <1>9, <2>1, <2>2 DEF ParserInv
<1>. QED
  BY <1>4, <1>6, <1>8, <1>9 DEF ParserInv

\* A handler passes from the queue to a thread.
LEMMA TakeParsed ==
  ASSUME ChainInv, ParserInv, NEW t \in Threads, Take(t)
  PROVE  ParserInv'
<1>1. /\ thread[t] = Waits /\ queue # <<>>
      /\ thread' = [thread EXCEPT ![t] = Head(queue)] /\ queue' = Tail(queue) /\ conn' = conn
  BY DEF Take
<1>2. queue \in Seq(Ready) /\ thread \in [Threads -> Ready]
  BY DEF ChainInv, HandlerInv
<1>3. /\ Head(queue) = queue[1] /\ Len(queue) \in Nat \ {0} /\ Len(queue') = Len(queue) - 1
      /\ \A i \in 1..Len(queue') : i + 1 \in 1..Len(queue) /\ queue'[i] = queue[i + 1]
  <2>1. Head(queue) = queue[1] /\ Len(queue) \in Nat \ {0}
    BY <1>1, <1>2, EmptySeq
  <2>2. /\ Len(Tail(queue)) = Len(queue) - 1
        /\ \A i \in 1..Len(Tail(queue)) : Tail(queue)[i] = queue[i + 1]
    BY <1>1, <1>2, HeadTailProperties
  <2>. QED
    BY <1>1, <2>1, <2>2
<1>4. thread'[t] = queue[1] /\ \A u \in Threads \ {t} : thread'[u] = thread[u]
  BY <1>1, <1>2, <1>3
<1>5. thread[t].c = 0 /\ 1 \in 1..Len(queue)
  BY <1>1, <1>3, HandlerTypes
<1>6. \A g : HandlerOK(conn, g) => HandlerOK(conn', g)
  BY <1>1 DEF HandlerOK
<1>7. \A u \in Threads : HandlerOK(conn', thread'[u])
  BY <1>4, <1>5, <1>6 DEF ParserInv
<1>8. \A i \in 1..Len(queue') : HandlerOK(conn', queue'[i])
  BY <1>3, <1>6 DEF ParserInv
<1>9. ASSUME NEW d \in Conns, \A i \in 1..Len(queue') : queue'[i].c # d, \A u \in Threads : thread'[u].c # d
      PROVE  Parsed(conn'[d], 0)
  <2>1. ASSUME NEW i \in 1..Len(queue) PROVE queue[i].c # d
    <3>1. CASE i = 1
      BY <1>4, <1>9, <3>1
    <3>2. CASE i # 1
      <4>1. i - 1 \in 1..Len(queue') /\ (i - 1) + 1 = i
        BY <1>3, <3>2
      <4>. QED
        BY <1>3, <1>9, <4>1
    <3>. QED
      BY <3>1, <3>2
  <2>2. \A u \in Threads : thread[u].c # d
    <3>1. d # 0
      BY ConnsType
    <3>. QED
      BY <1>4, <1>5, <1>9, <3>1
  <2>. QED
    BY <1>1, <2>1, <2>2 DEF ParserInv
<1>. QED
  BY <1>1, <1>7, <1>8, <1>9 DEF ParserInv

\* A handler ends: a connection it leaves, or changes, has no other handler and
\* is parsed up to what was read.
LEMMA EndParsed ==
  ASSUME ChainInv, ParserInv, NEW t \in Threads,
         NEW idle \in {Waits, Exited}, thread' = [thread EXCEPT ![t] = idle], queue' = queue,
         \A c \in Conns :
           \/ c # thread[t].c /\ conn'[c] = conn[c]
           \/ /\ Whole(conn'[c]) /\ Parsed(conn'[c], 0)
              /\ \A u \in Threads \ {t} : thread[u].c # c
              /\ \A i \in 1..Len(queue) : queue[i].c # c
  PROVE  ParserInv'
<1>1. /\ thread \in [Threads -> Ready] /\ idle.c = 0 /\ idle.on # "read" /\ idle.n = 0
      /\ \A i \in 1..Len(queue) : queue[i] \in Ready
  BY HandlerTypes, ElementOfSeq DEF ChainInv, HandlerInv, Waits, Exited, Handler
<1>2. thread'[t] = idle /\ \A u \in Threads \ {t} : thread'[u] = thread[u]
  BY <1>1
<1>3. \A c \in Conns : Whole(conn'[c])
  BY DEF ParserInv
<1>4. ASSUME NEW g \in Ready, HandlerOK(conn, g), g.c \in Conns => conn'[g.c] = conn[g.c]
      PROVE  HandlerOK(conn', g)
  BY <1>4 DEF HandlerOK, Ready
<1>5. ASSUME NEW u \in Threads PROVE HandlerOK(conn', thread'[u])
  <2>1. CASE u = t
    BY <1>1, <1>2, <2>1 DEF HandlerOK
  <2>2. CASE u # t
    <3>1. thread[u].c \in Conns => conn'[thread[u].c] = conn[thread[u].c]
      BY <2>2
    <3>. QED
      BY <1>1, <1>2, <1>4, <2>2, <3>1 DEF ParserInv
  <2>. QED
    BY <2>1, <2>2
<1>6. ASSUME NEW i \in 1..Len(queue) PROVE HandlerOK(conn', queue[i])
  <2>1. queue[i].c \in Conns => conn'[queue[i].c] = conn[queue[i].c]
    OBVIOUS
  <2>. QED
    BY <1>1, <1>4, <2>1 DEF ParserInv
<1>7. ASSUME NEW c \in Conns, \A i \in 1..Len(queue) : queue[i].c # c, \A u \in Threads : thread'[u].c # c
      PROVE  Parsed(conn'[c], 0)
  <2>1. CASE c # thread[t].c /\ conn'[c] = conn[c]
    <3>1. \A u \in Threads : thread[u].c # c
      BY <1>2, <1>7, <2>1
    <3>. QED
      BY <1>7, <2>1, <3>1 DEF ParserInv
  <2>2. CASE ~ (c # thread[t].c /\ conn'[c] = conn[c])
    BY <2>2
  <2>. QED
    BY <2>1, <2>2
<1>. QED
  BY <1>3, <1>5, <1>6, <1>7 DEF ParserInv

\* What a read brings is at least nothing and at most what there is.
LEMMA ReadIsBounded ==
  ASSUME NEW a \in Nat, NEW b \in Nat
  PROVE  Min({a, b}) <= b
<1>1. \E x \in {a, b} : \A y \in {a, b} : x <= y
  OBVIOUS
<1>. QED
  BY <1>1 DEF Min

\* The handler of a read parses what it read.
LEMMA ReadParsed ==
  ASSUME ChainInv, ParserInv, NEW t \in Threads, handle_read(t)
  PROVE  ParserInv'
<1>. DEFINE c == thread[t].c
            n == thread[t].n
            k == conn[c]
            p == parse(k.parser, SubSeq(k.input, k.at - n + 1, k.at))
            next(op, reply) == conn' = [conn EXCEPT ![c].parser = p, ![c].op = op, ![c].reply = reply]
<1>1. /\ thread[t].on = "read" /\ thread' = [thread EXCEPT ![t] = Waits]
      /\ UNCHANGED <<queue, new_connection>>
      /\ c \in Conns /\ c # 0 /\ IsConn(k) /\ n \in Nat /\ conn = [d \in Conns |-> conn[d]]
  BY ConnsType DEF handle_read, Running, ChainInv, HandlerInv, Ready, Chain
<1>2. (\A u \in Threads \ {t} : thread[u].c # c) /\ \A i \in 1..Len(queue) : queue[i].c # c
  BY <1>1 DEF ChainInv, Unique
<1>3. Whole(k) /\ Parsed(k, n)
  BY <1>1 DEF ParserInv, HandlerOK
<1>4. p \in Parser /\ p = parse(NewParser, SubSeq(k.input, 1, k.at))
  <2>. DEFINE m == k.at - n
  <2>1. /\ k.input \in Seq(Char) /\ k.at \in Nat /\ k.at <= Len(k.input) /\ n <= k.at
        /\ k.parser = parse(NewParser, SubSeq(k.input, 1, m))
    BY <1>1, <1>3 DEF Whole, IsConn, Parsed
  <2>2. m \in 0..Len(k.input) /\ k.at \in m..Len(k.input) /\ k.at - n + 1 = m + 1
    BY <1>1, <2>1, SMTT(40)
  <2>. DEFINE text == k.input
              at == k.at
  <2>3. text \in Seq(Char) /\ m \in 0..Len(text) /\ at \in m..Len(text)
    BY <2>1, <2>2
  <2>4. p = parse(parse(NewParser, SubSeq(text, 1, m)), SubSeq(text, m + 1, at))
    BY <2>1, <2>2
  <2>. HIDE DEF m, text, at, k, p
  <2>5. p = parse(NewParser, SubSeq(text, 1, at)) /\ parse(NewParser, SubSeq(text, 1, at)) \in Parser
    BY <2>3, <2>4, ParseInTwo
  <2>. QED
    BY <2>5 DEF text, at
<1>5. \/ conn' = [conn EXCEPT ![c] = New]
      \/ \E reply \in Statuses : next("write", reply)
      \/ next("read", "none")
  <2>. HIDE DEF next
  <2>1. \/ conn' = [conn EXCEPT ![c] = New]
        \/ \E q \in {p} : \/ q.state = "true" /\ \E status \in handle_request : next("write", status)
                          \/ q.state = "false" /\ next("write", "bad_request")
                          \/ q.state \notin {"true", "false"} /\ next("read", "none")
    BY DEF handle_read, next
  <2>. QED
    BY <2>1, SMTT(40) DEF handle_request, Statuses
<1>. HIDE DEF p
<1>6. ASSUME NEW new, conn' = [conn EXCEPT ![c] = new], Whole(new), Parsed(new, 0)
      PROVE  ParserInv'
  <2>1. conn'[c] = new /\ \A d \in Conns : d # c => conn'[d] = conn[d]
    BY <1>1, <1>6
  <2>2. Waits \in {Waits, Exited} /\ queue' = queue /\ thread' = [thread EXCEPT ![t] = Waits]
    BY <1>1
  <2>3. ASSUME NEW d \in Conns
        PROVE  \/ d # thread[t].c /\ conn'[d] = conn[d]
               \/ /\ Whole(conn'[d]) /\ Parsed(conn'[d], 0)
                  /\ \A u \in Threads \ {t} : thread[u].c # d
                  /\ \A i \in 1..Len(queue) : queue[i].c # d
    <3>1. CASE d = c
      BY <1>2, <1>6, <2>1, <3>1
    <3>2. CASE d # c
      BY <2>1, <3>2
    <3>. QED
      BY <3>1, <3>2
  <2>. QED
    BY <2>2, <2>3, EndParsed
<1>7. CASE conn' = [conn EXCEPT ![c] = New]
  BY <1>6, <1>7, NewIsParsed
<1>8. ASSUME NEW op \in {"read", "write"}, NEW reply \in Statuses \cup {"none"},
             op = "write" => reply \in Statuses, next(op, reply)
      PROVE  ParserInv'
  <2>. DEFINE new == [k EXCEPT !.parser = p, !.op = op, !.reply = reply]
  <2>1. conn' = [conn EXCEPT ![c] = new]
    BY <1>8
  <2>2. /\ new.op = op /\ new.parser = p /\ new.reply = reply /\ new.at = k.at /\ new.input = k.input
        /\ DOMAIN new = DOMAIN k
    BY <1>3 DEF Whole, IsConn
  <2>. HIDE DEF new
  <2>3. Whole(new)
    BY <1>3, <1>4, <1>8, <2>2 DEF Whole, IsConn, Chain
  <2>4. Parsed(new, 0)
    <3>1. k.at \in Nat /\ k.at - 0 = k.at
      BY <1>1 DEF IsConn
    <3>. QED
      BY <1>4, <2>2, <3>1 DEF Parsed
  <2>. QED
    BY <1>6, <2>1, <2>3, <2>4
<1>. HIDE DEF next
<1>. QED
  BY <1>5, <1>7, <1>8

\* The handler of an accept starts to read from a connection that is new, and
\* makes the next one new.
LEMMA AcceptParsed ==
  ASSUME ChainInv, ParserInv, NEW t \in Threads, handle_accept(t)
  PROVE  ParserInv'
<1>. DEFINE c == thread[t].c
            next == IF thread[t].ok THEN c + 1 ELSE c
            first == [conn[c] EXCEPT !.op = "read"]
            new == [New EXCEPT !.op = "accept"]
<1>0. AcceptInv /\ \A d \in Conns : Unique(d)
  BY DEF ChainInv
<1>1. /\ thread[t].on = "accept" /\ thread' = [thread EXCEPT ![t] = Waits] /\ queue' = queue
      /\ c \in Conns /\ c # 0 /\ c = new_connection /\ c \in Nat
  BY <1>0, ConnsType DEF handle_accept, Running, ChainInv, HandlerInv, Ready, Chain, AcceptInv
<1>2. conn' = [d \in Conns |-> IF d = next THEN new ELSE IF d = c THEN first ELSE conn[d]]
  BY <1>1 DEF handle_accept, start_accept, ChainInv, HandlerInv
<1>3. (\A u \in Threads \ {t} : thread[u].c # c) /\ \A i \in 1..Len(queue) : queue[i].c # c
  BY <1>0, <1>1 DEF Unique
<1>4. next \in Conns /\ next # c => Unused(next)
  BY <1>0, <1>1, ConnsType DEF AcceptInv
<1>5. Whole(new) /\ Parsed(new, 0)
  BY NewIsParsed
<1>6. Whole(first) /\ Parsed(first, 0)
  <2>1. Whole(conn[c]) /\ Parsed(conn[c], 0)
    BY <1>1 DEF ParserInv, HandlerOK
  <2>2. /\ first.op = "read" /\ first.parser = conn[c].parser /\ first.reply = conn[c].reply
        /\ first.at = conn[c].at /\ first.input = conn[c].input /\ DOMAIN first = DOMAIN conn[c]
    BY <2>1 DEF Whole, IsConn
  <2>. HIDE DEF first
  <2>. QED
    BY <2>1, <2>2 DEF Whole, IsConn, Chain, Parsed
<1>7. Waits \in {Waits, Exited}
  OBVIOUS
<1>. HIDE DEF next, first, new
<1>8. ASSUME NEW d \in Conns
      PROVE  \/ d # thread[t].c /\ conn'[d] = conn[d]
             \/ /\ Whole(conn'[d]) /\ Parsed(conn'[d], 0)
                /\ \A u \in Threads \ {t} : thread[u].c # d
                /\ \A i \in 1..Len(queue) : queue[i].c # d
  <2>1. CASE d = next
    BY <1>2, <1>3, <1>4, <1>5, <2>1 DEF Unused
  <2>2. CASE d # next /\ d = c
    BY <1>2, <1>3, <1>6, <2>2
  <2>3. CASE d # next /\ d # c
    BY <1>2, <2>3
  <2>. QED
    BY <2>1, <2>2, <2>3
<1>. QED
  BY <1>1, <1>7, <1>8, EndParsed

\* ParserInv is inductive, beside ChainInv.
LEMMA NextParserInv == ChainInv /\ ParserInv /\ [Next]_vars => ParserInv'
<1>. SUFFICES ASSUME ChainInv, ParserInv, [Next]_vars PROVE ParserInv'
  OBVIOUS
<1>0. /\ queue \in Seq(Ready) /\ thread \in [Threads -> Ready]
      /\ conn = [c \in Conns |-> conn[c]] /\ \A c \in Conns : IsConn(conn[c]) /\ Whole(conn[c])
  BY DEF ChainInv, HandlerInv, ParserInv
<1>1. ASSUME NEW c \in Conns, NEW op \in Chain, conn[c].op = op PROVE Parsed(conn[c], 0)
  BY <1>1 DEF ChainInv, Unique, Chain, ParserInv
<1>. DEFINE Closes(c, op, k, n) ==
              /\ conn' = [conn EXCEPT ![c] = k] /\ Whole(k) /\ k.op = "none" /\ Parsed(k, n)
              /\ op # "read" => n = 0
<1>2. ASSUME NEW c \in Conns, NEW op \in Chain, NEW ok \in BOOLEAN, NEW n \in Nat,
             Complete(c, op, Handler(op, c, ok, n)), UNCHANGED thread,
             \E k : Closes(c, op, k, n)
      PROVE  ParserInv'
  <2>1. PICK k : Closes(c, op, k, n)
    BY <1>2
  <2>2. conn'[c] = k /\ \A d \in Conns \ {c} : conn'[d] = conn[d]
    BY <1>0, <2>1
  <2>3. Whole(conn'[c]) /\ Parsed(conn'[c], n) /\ (op # "read" => n = 0)
    BY <2>1, <2>2
  <2>4. Complete(c, op, Handler(op, c, ok, n)) /\ UNCHANGED thread
    BY <1>2
  <2>. QED
    BY <2>2, <2>3, <2>4, CompleteParsed
<1>3. ASSUME NEW c \in Conns, Accepted(c) PROVE ParserInv'
  <2>1. PICK s \in Inputs[c] : conn' = [conn EXCEPT ![c].op = "none", ![c].input = s]
    BY <1>3 DEF Accepted
  <2>2. s \in Seq(Char)
    BY <2>1, ConnsType, ElementOfSeq
  <2>. DEFINE k == [conn[c] EXCEPT !.op = "none", !.input = s]
  <2>3. conn[c].op = "accept" /\ Complete(c, "accept", Handler("accept", c, TRUE, 0)) /\ UNCHANGED thread
    BY <1>3 DEF Accepted, Complete
  <2>4. conn[c].at = 0 /\ conn[c].parser = NewParser /\ Whole(conn[c])
    BY <1>0, <2>3 DEF Whole
  <2>5. /\ k.op = "none" /\ k.input = s /\ k.at = 0 /\ k.parser = NewParser /\ k.reply = conn[c].reply
        /\ DOMAIN k = DOMAIN conn[c] /\ conn' = [conn EXCEPT ![c] = k]
    BY <2>1, <2>4 DEF Whole, IsConn
  <2>. HIDE DEF k
  <2>6. Whole(k)
    BY <2>2, <2>4, <2>5 DEF Whole, IsConn
  <2>7. Parsed(k, 0)
    <3>1. parse(NewParser, SubSeq(s, 1, 0)) = NewParser
      <4>1. 0 \in 0..Len(s) /\ Len(s) \in 0..Len(s)
        BY <2>2
      <4>. QED
        BY <2>2, <4>1, ParseInTwo
    <3>. QED
      BY <2>5, <3>1 DEF Parsed
  <2>. QED
    <3>1. Closes(c, "accept", k, 0) /\ "accept" \in Chain /\ TRUE \in BOOLEAN /\ 0 \in Nat
      BY <2>5, <2>6, <2>7 DEF Chain
    <3>. HIDE DEF Closes
    <3>. QED
      BY <1>2, <2>3, <3>1
<1>4. ASSUME NEW c \in Conns, NEW op \in Chain, conn[c].op = op
      PROVE  LET k == [conn[c] EXCEPT !.op = "none"]
             IN  Whole(k) /\ k.op = "none" /\ Parsed(k, 0)
  <2>. DEFINE k == [conn[c] EXCEPT !.op = "none"]
  <2>1. Whole(conn[c]) /\ Parsed(conn[c], 0)
    BY <1>0, <1>1, <1>4
  <2>2. /\ k.op = "none" /\ k.parser = conn[c].parser /\ k.reply = conn[c].reply
        /\ k.at = conn[c].at /\ k.input = conn[c].input /\ DOMAIN k = DOMAIN conn[c]
    BY <2>1 DEF Whole, IsConn
  <2>. HIDE DEF k
  <2>3. Whole(k) /\ Parsed(k, 0)
    BY <2>1, <2>2 DEF Whole, IsConn, Parsed
  <2>. QED
    BY <2>2, <2>3 DEF k
<1>5. ASSUME NEW c \in Conns, AcceptFailed(c) \/ Written(c) \/ PeerGone(c) PROVE ParserInv'
  <2>. DEFINE k == [conn[c] EXCEPT !.op = "none"]
  <2>1. PICK op \in Chain, ok \in BOOLEAN :
          /\ conn[c].op = op /\ Complete(c, op, Handler(op, c, ok, 0)) /\ UNCHANGED thread
          /\ conn' = [conn EXCEPT ![c] = k]
    <3>1. CASE AcceptFailed(c)
      BY <3>1 DEF AcceptFailed, Complete, Chain
    <3>2. CASE Written(c)
      BY <3>2 DEF Written, Complete, Chain
    <3>3. CASE PeerGone(c)
      BY <3>3 DEF PeerGone, Complete, Chain
    <3>. QED
      BY <1>5, <3>1, <3>2, <3>3
  <2>2. Whole(k) /\ k.op = "none" /\ Parsed(k, 0)
    BY <1>4, <2>1
  <2>. HIDE DEF k
  <2>. QED
    <3>1. Closes(c, op, k, 0) /\ 0 \in Nat
      BY <2>1, <2>2
    <3>. HIDE DEF Closes
    <3>. QED
      BY <1>2, <2>1, <3>1
<1>6. ASSUME NEW c \in Conns, NEW size \in ReadSizes, SomeRead(c, size) PROVE ParserInv'
  <2>. DEFINE rest == Len(conn[c].input) - conn[c].at
              n == Min({size, rest})
              k == [conn[c] EXCEPT !.op = "none", !.at = @ + n]
  <2>0. Whole(conn[c]) /\ conn[c].input \in Seq(Char) /\ conn[c].at \in Nat
    BY <1>0 DEF IsConn
  <2>1. rest \in Nat /\ size \in Nat
    BY <1>6, <2>0 DEF SomeRead
  <2>2. n \in Nat /\ n <= rest
    BY <2>1, ReadIsNat, ReadIsBounded
  <2>3. /\ conn[c].op = "read" /\ Complete(c, "read", Handler("read", c, TRUE, n)) /\ UNCHANGED thread
        /\ conn' = [conn EXCEPT ![c] = k]
    BY <1>6, <2>0 DEF SomeRead, Complete
  <2>4. Parsed(conn[c], 0)
    BY <1>1, <2>3 DEF Chain
  <2>. HIDE DEF n
  <2>5. /\ k.op = "none" /\ k.parser = conn[c].parser /\ k.reply = conn[c].reply
        /\ k.at = conn[c].at + n /\ k.input = conn[c].input /\ DOMAIN k = DOMAIN conn[c]
    BY <2>0 DEF Whole, IsConn
  <2>. HIDE DEF k
  <2>6. Whole(k)
    BY <2>0, <2>1, <2>2, <2>5 DEF Whole, IsConn
  <2>7. Parsed(k, n)
    <3>1. n <= conn[c].at + n /\ (conn[c].at + n) - n = conn[c].at - 0
      BY <2>0, <2>2
    <3>. QED
      BY <2>4, <2>5, <3>1 DEF Parsed
  <2>. QED
    <3>1. Closes(c, "read", k, n) /\ "read" \in Chain /\ TRUE \in BOOLEAN /\ n \in Nat
      BY <2>2, <2>3, <2>5, <2>6, <2>7 DEF Chain
    <3>. HIDE DEF Closes
    <3>. QED
      BY <1>2, <2>3, <3>1
<1>7. ASSUME Signal PROVE ParserInv'
  <2>. DEFINE h == Handler("stop", 0, TRUE, 0)
  <2>1. queue' = Append(queue, h) /\ UNCHANGED <<thread, conn>>
    BY <1>7 DEF Signal
  <2>2. h.c = 0 /\ h.on = "stop" /\ h.n = 0 /\ h \in Ready
    BY HandlerTypes DEF Handler
  <2>. HIDE DEF h
  <2>3. /\ Len(queue') = Len(queue) + 1 /\ Len(queue) \in Nat
        /\ \A i \in 1..Len(queue) : queue'[i] = queue[i]
        /\ queue'[Len(queue) + 1] = h
    BY <1>0, <2>1, <2>2
  <2>4. HandlerOK(conn, h)
    BY <2>2 DEF HandlerOK
  <2>5. \A i \in 1..Len(queue') : HandlerOK(conn', queue'[i])
    <3>1. \A i \in 1..Len(queue) : HandlerOK(conn', queue'[i])
      BY <2>1, <2>3 DEF ParserInv
    <3>2. HandlerOK(conn', h)
      BY <2>1, <2>4
    <3>. QED
      BY <2>3, <3>1, <3>2
  <2>6. ASSUME NEW c \in Conns, \A t \in Threads : thread'[t].c # c,
               \A i \in 1..Len(queue') : queue'[i].c # c
        PROVE  Parsed(conn'[c], 0)
    <3>1. \A i \in 1..Len(queue) : queue[i].c # c
      BY <2>3, <2>6
    <3>. QED
      BY <2>1, <2>6, <3>1 DEF ParserInv
  <2>. QED
    BY <2>1, <2>5, <2>6 DEF ParserInv
<1>8. ASSUME NEW t \in Threads, Take(t) PROVE ParserInv'
  BY <1>8, TakeParsed
<1>9. ASSUME NEW t \in Threads, Exit(t) \/ handle_stop(t) PROVE ParserInv'
  <2>1. PICK idle \in {Waits, Exited} : thread' = [thread EXCEPT ![t] = idle]
    BY <1>9 DEF Exit, handle_stop, Running
  <2>2. thread[t].on \in {"waits", "stop"} /\ queue' = queue /\ conn' = conn
    BY <1>9, HandlerTypes DEF Exit, handle_stop, Running
  <2>3. \A c \in Conns : c # thread[t].c
    <3>1. thread[t] \in Ready /\ thread[t].on \notin Chain
      BY <1>0, <2>2 DEF Chain
    <3>2. thread[t].c = 0
      BY <3>1 DEF Ready
    <3>. QED
      BY <3>2, ConnsType
  <2>4. \A c \in Conns : c # thread[t].c /\ conn'[c] = conn[c]
    BY <2>2, <2>3
  <2>. QED
    BY <2>1, <2>2, <2>4, EndParsed
<1>10. ASSUME NEW t \in Threads, handle_accept(t) PROVE ParserInv'
  BY <1>10, AcceptParsed
<1>11. ASSUME NEW t \in Threads, handle_read(t) PROVE ParserInv'
  BY <1>11, ReadParsed
<1>12. ASSUME NEW t \in Threads, handle_write(t) PROVE ParserInv'
  <2>. DEFINE c == thread[t].c
  <2>1. /\ thread[t].on = "write" /\ thread' = [thread EXCEPT ![t] = Waits]
        /\ queue' = queue /\ conn' = [conn EXCEPT ![c] = New]
    BY <1>12 DEF handle_write, Running
  <2>2. c \in Conns /\ Unique(c)
    BY <1>0, <2>1 DEF Ready, Chain, ChainInv
  <2>3. conn'[c] = New /\ \A d \in Conns : d # c => conn'[d] = conn[d]
    BY <1>0, <2>1, <2>2
  <2>4. (\A u \in Threads \ {t} : thread[u].c # c) /\ \A i \in 1..Len(queue) : queue[i].c # c
    BY <2>2 DEF Unique
  <2>5. ASSUME NEW d \in Conns
        PROVE  \/ d # thread[t].c /\ conn'[d] = conn[d]
               \/ /\ Whole(conn'[d]) /\ Parsed(conn'[d], 0)
                  /\ \A u \in Threads \ {t} : thread[u].c # d
                  /\ \A i \in 1..Len(queue) : queue[i].c # d
    BY <2>3, <2>4, NewIsParsed
  <2>6. Waits \in {Waits, Exited}
    OBVIOUS
  <2>. QED
    BY <2>1, <2>5, <2>6, EndParsed
<1>13. ASSUME UNCHANGED vars PROVE ParserInv'
  BY <1>13 DEF vars, ParserInv
<1>. QED
  BY <1>3, <1>5, <1>6, <1>7, <1>8, <1>9, <1>10, <1>11, <1>12, <1>13 DEF Next, Pool

LEMMA ParserInvHolds == Spec => []ParserInv
<1>1. Init => ParserInv
  <2>. SUFFICES ASSUME Init PROVE ParserInv
    OBVIOUS
  <2>1. /\ Len(queue) = 0 /\ thread = [t \in Threads |-> Waits]
        /\ conn = [c \in Conns |-> IF c = 1 THEN [New EXCEPT !.op = "accept"] ELSE New]
    BY EmptySeq DEF Init
  <2>2. HandlerOK(conn, Waits)
    BY DEF HandlerOK, Waits, Handler
  <2>. QED
    BY <2>1, <2>2, NewIsParsed DEF ParserInv
<1>. QED
  BY <1>1, NextParserInv, ChainInvHolds, PTL DEF Spec

-----------------------------------------------------------------------------
(* The flags, and what follows *)

FlagsInv == signalled \in BOOLEAN /\ stopped \in BOOLEAN /\ errors \in 0..MaxErrors

LEMMA FlagsInvHolds == Spec => []FlagsInv
<1>1. Init => FlagsInv
  <2>. SUFFICES ASSUME Init PROVE FlagsInv
    OBVIOUS
  <2>1. signalled = FALSE /\ stopped = FALSE /\ errors = 0
    BY DEF Init
  <2>2. 0 \in 0..MaxErrors
    OBVIOUS
  <2>. QED
    BY <2>1, <2>2 DEF FlagsInv
<1>2. FlagsInv /\ [Next]_vars => FlagsInv'
  <2>. SUFFICES ASSUME FlagsInv, [Next]_vars PROVE FlagsInv'
    OBVIOUS
  <2>1. ASSUME NEW c \in Conns, AcceptFailed(c) PROVE FlagsInv'
    BY <2>1 DEF FlagsInv, AcceptFailed
  <2>2. CASE UNCHANGED <<signalled, errors>> /\ stopped' \in {stopped, TRUE}
    BY <2>2 DEF FlagsInv
  <2>3. ASSUME NEW c \in Conns, Accepted(c) \/ Written(c) \/ PeerGone(c) PROVE FlagsInv'
    BY <2>2, <2>3 DEF Accepted, Written, PeerGone
  <2>4. ASSUME NEW c \in Conns, NEW size \in ReadSizes, SomeRead(c, size) PROVE FlagsInv'
    BY <2>2, <2>4 DEF SomeRead
  <2>5. CASE Signal
    BY <2>5 DEF Signal, FlagsInv
  <2>6. ASSUME NEW t \in Threads, Pool(t) PROVE FlagsInv'
    <3>1. CASE Take(t)
      BY <2>2, <3>1 DEF Take
    <3>2. CASE Exit(t)
      BY <2>2, <3>2 DEF Exit
    <3>3. CASE handle_accept(t)
      BY <2>2, <3>3, SMTT(40) DEF handle_accept, Running
    <3>4. CASE handle_read(t)
      BY <2>2, <3>4 DEF handle_read, Running
    <3>5. CASE handle_write(t)
      BY <2>2, <3>5 DEF handle_write, Running
    <3>6. CASE handle_stop(t)
      BY <2>2, <3>6 DEF handle_stop, Running
    <3>. QED
      BY <2>6, <3>1, <3>2, <3>3, <3>4, <3>5, <3>6 DEF Pool
  <2>7. CASE UNCHANGED vars
    BY <2>2, <2>7 DEF vars
  <2>. QED
    BY <2>1, <2>3, <2>4, <2>5, <2>6, <2>7 DEF Next
<1>. QED
  BY <1>1, <1>2, PTL DEF Spec

\* The variables keep their types: no handler is for a connection that is not
\* there, no read goes past what the peer sent, the parser stays in its states,
\* and what is written is a reply (server, connection and request_parser).
THEOREM TypesHold == Spec => []TypeOK
<1>1. ChainInv /\ ParserInv /\ FlagsInv => TypeOK
  <2>. SUFFICES ASSUME ChainInv, ParserInv, FlagsInv PROVE TypeOK
    OBVIOUS
  <2>1. ASSUME NEW h \in ToSet(queue) \cup {thread[t] : t \in Threads}
        PROVE  /\ h.on \in {"waits", "exited", "accept", "read", "write", "stop"}
               /\ h.c \in Conns \cup {0} /\ h.ok \in BOOLEAN /\ h.n \in Nat
    <3>1. queue \in Seq(Ready) /\ thread \in [Threads -> Ready]
      BY DEF ChainInv, HandlerInv
    <3>2. CASE h \in ToSet(queue)
      <4>1. PICK i \in DOMAIN queue : h = queue[i]
        BY <3>2 DEF ToSet
      <4>. QED
        BY <3>1, <4>1, ElementOfSeq DEF Ready, Chain
    <3>3. CASE h \in {thread[t] : t \in Threads}
      BY <3>1, <3>3 DEF Ready, Chain
    <3>. QED
      BY <3>2, <3>3
  <2>2. ASSUME NEW c \in Conns
        PROVE  /\ conn[c].op \in {"none", "accept", "read", "write"}
               /\ conn[c].at \in 0..Len(conn[c].input)
               /\ conn[c].parser \in Parser
               /\ conn[c].reply \in (IF conn[c].op = "write" THEN Statuses ELSE Statuses \cup {"none"})
    BY DEF ParserInv, Whole, IsConn, Chain
  <2>3. new_connection \in Conns \cup {Cardinality(Conns) + 1}
    <3>1. Cardinality(Conns) = Len(Inputs)
      BY ConnsType, FS_Interval
    <3>. QED
      BY <3>1, ConnsType DEF ChainInv, AcceptInv
  <2>. QED
    BY <2>1, <2>2, <2>3 DEF TypeOK, FlagsInv
<1>. QED
  BY <1>1, ChainInvHolds, ParserInvHolds, FlagsInvHolds, PTL

\* Whatever the sizes of the reads and the order of the handlers, a connection
\* is answered when, and only when, what was read begins with a request, and is
\* refused only if no request can begin what its peer sends (handle_read and
\* the parse it calls with each buffer).
THEOREM VerdictsHold == Spec => []VerdictsAreTheGrammars
<1>1. ChainInv /\ ParserInv => VerdictsAreTheGrammars
  <2>. SUFFICES ASSUME ChainInv, ParserInv, NEW c \in Conns
                PROVE  LET k == conn[c]
                           parsed == SubSeq(k.input, 1, k.at)
                           quiet == k.op \in {"read", "write"}
                       IN  /\ k.parser.state = "true" => HasRequest(parsed)
                           /\ k.parser.state = "false" => ~HasRequest(k.input)
                           /\ k.parser.state \notin {"true", "false"} /\ quiet => ~HasRequest(parsed)
    BY DEF VerdictsAreTheGrammars
  <2>. DEFINE k == conn[c]
              quiet == k.op \in {"read", "write"}
  <2>1. k.input \in Seq(Char) /\ k.at \in Nat /\ k.at <= Len(k.input)
    BY DEF ParserInv, Whole, IsConn
  <2>2. PICK n \in Nat : Parsed(k, n) /\ (quiet => n = 0)
    <3>1. CASE (\A t \in Threads : thread[t].c # c) /\ \A i \in 1..Len(queue) : queue[i].c # c
      BY <3>1 DEF ParserInv
    <3>2. ASSUME NEW h \in Ready, h.c = c, HandlerOK(conn, h), ~quiet
          PROVE  \E n \in Nat : Parsed(k, n) /\ (quiet => n = 0)
      BY <3>2, ConnsType DEF HandlerOK, Ready
    <3>3. Unique(c) /\ queue \in Seq(Ready) /\ thread \in [Threads -> Ready]
      BY DEF ChainInv, HandlerInv
    <3>4. ASSUME NEW t \in Threads, thread[t].c = c
          PROVE  \E n \in Nat : Parsed(k, n) /\ (quiet => n = 0)
      <4>1. thread[t] \in Ready /\ HandlerOK(conn, thread[t]) /\ ~quiet
        BY <3>3, <3>4 DEF ParserInv, Unique
      <4>. QED
        BY <3>2, <3>4, <4>1
    <3>5. ASSUME NEW i \in 1..Len(queue), queue[i].c = c
          PROVE  \E n \in Nat : Parsed(k, n) /\ (quiet => n = 0)
      <4>1. queue[i] \in Ready /\ HandlerOK(conn, queue[i]) /\ ~quiet
        BY <3>3, <3>5, ElementOfSeq DEF ParserInv, Unique
      <4>. QED
        BY <3>2, <3>5, <4>1
    <3>. QED
      BY <3>1, <3>4, <3>5
  <2>. DEFINE t == k.input
              m == k.at - n
              at == k.at
  <2>3. /\ t \in Seq(Char) /\ m \in 0..Len(t) /\ at \in m..Len(t)
        /\ k.parser = parse(NewParser, SubSeq(t, 1, m)) /\ (quiet => m = at)
    BY <2>1, <2>2 DEF Parsed
  <2>. HIDE DEF k, m, at, t, quiet
  <2>4. /\ k.parser.state = "true" <=> HasRequest(SubSeq(t, 1, m))
        /\ k.parser.state = "true" => HasRequest(SubSeq(t, 1, at))
        /\ k.parser.state = "false" => ~HasRequest(t)
    BY <2>3, ParserIsTheGrammar
  <2>5. /\ k.parser.state = "true" => HasRequest(SubSeq(t, 1, at))
        /\ k.parser.state = "false" => ~HasRequest(t)
        /\ k.parser.state \notin {"true", "false"} /\ quiet => ~HasRequest(SubSeq(t, 1, at))
    BY <2>3, <2>4
  <2>. QED
    BY <2>5 DEF k, t, at, quiet
<1>. QED
  BY <1>1, ChainInvHolds, ParserInvHolds, PTL
=============================================================================
