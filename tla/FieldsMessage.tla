--------------------------- MODULE FieldsMessage ---------------------------
(***************************************************************************)
(* ot/Message.hpp: a message as named fields, and as the text the sender   *)
(* encrypts.                                                               *)
(*                                                                         *)
(* A text is a sequence of pieces: a separator, or some characters without *)
(* separators.  A field is <<name, value>>, two texts.                     *)
(***************************************************************************)
EXTENDS Naturals, Sequences, SequencesExt

FIELD_SEP == ","
KV_SEP    == ":"

\* Nothing is escaped.
join_Fields(fields) ==
  LET pair(f) == f[1] \o <<KV_SEP>> \o f[2]
      join[i \in 0..Len(fields)] ==
        IF i = 0 THEN <<>>
        ELSE (IF i = 1 THEN <<>> ELSE join[i - 1] \o <<FIELD_SEP>>) \o pair(fields[i])
  IN join[Len(fields)]

\* The fields before the one that is read, and that one so far.
Unread == [fields |-> <<>>, k |-> <<>>, v |-> <<>>, isTurnOfKey |-> TRUE]

\* Variant: the value is kept when the next field begins.
ReadPieceKeeping(s, c) ==
  CASE c = FIELD_SEP -> [s EXCEPT !.fields = Append(@, <<s.k, s.v>>), !.k = <<>>,
                                  !.isTurnOfKey = TRUE]
    [] c = KV_SEP    -> [s EXCEPT !.isTurnOfKey = FALSE]
    [] OTHER         -> IF s.isTurnOfKey THEN [s EXCEPT !.k = Append(@, c)]
                                         ELSE [s EXCEPT !.v = Append(@, c)]

\* What precedes the first KV_SEP of a field is its name, what follows is its
\* value, without any further KV_SEP.
ReadPiece(s, c) ==
  CASE c = FIELD_SEP -> [Unread EXCEPT !.fields = Append(s.fields, <<s.k, s.v>>)]
    [] c = KV_SEP    -> [s EXCEPT !.isTurnOfKey = FALSE]
    [] OTHER         -> IF s.isTurnOfKey THEN [s EXCEPT !.k = Append(@, c)]
                                         ELSE [s EXCEPT !.v = Append(@, c)]

\* One pass over the text.
str2fieldsMessage(str) ==
  LET read[i \in 0..Len(str)] == IF i = 0 THEN Unread ELSE ReadPiece(read[i - 1], str[i])
      end == read[Len(str)]
  IN Append(end.fields, <<end.k, end.v>>)
=============================================================================
