----------------------------- MODULE MCMessages -----------------------------
(***************************************************************************)
(* A small instance of MessageObjects for TLC: a text and one that is not  *)
(* UTF-8, a number with the sign bit, an unknown fixed32 and a number in   *)
(* field 1.                                                                *)
(***************************************************************************)
EXTENDS MessageObjects, TLC

CONSTANTS r1, r2

MCRoots == {r1, r2}
RootsAlike == Permutations(MCRoots)
MCAddr == 1..5
MCTexts == {<<97>>, <<97, 200>>}
MCNumbers == {-128}
MCExtraFields == {Fixed32(13, 7), Varint(8, 1)}
=============================================================================
