------------------------------- MODULE MCHttp -------------------------------
(***************************************************************************)
(* A small instance of HttpServer for TLC.  One connection sends a request *)
(* with a folded header, that request with one character changed or left   *)
(* out, or a short request and more after it; the other connection sends a *)
(* malformed one.                                                          *)
(***************************************************************************)
EXTENDS HttpServer

Line    == <<"a", "SP", "/", "SP">> \o Literal \o <<"1", ".", "1", "CR", "LF">>
Field   == <<"a", ":", "SP", "a", "CR", "LF">>
Folded  == <<"SP", "a", "CR", "LF">>
End     == <<"CR", "LF">>

Request == Line \o Field \o Folded \o End

Changed(s) ==
  {ReplaceAt(s, i, c) : i \in 8..Len(s), c \in {":", "SP", "CR"}} \cup {RemoveAt(s, i) : i \in 1..Len(s)}
    \cup {ReplaceAt(s, i, "high") : i \in {1, 3, 18}}

MCInputs ==
  << {Request, Line \o Folded \o End, Line \o End \o <<"a">>} \cup Changed(Request), {<<"a", ":">>} >>
=============================================================================
