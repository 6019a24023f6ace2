----------------------------- MODULE MCSession -----------------------------
(***************************************************************************)
(* Small instances of OTSession for TLC.                                   *)
(***************************************************************************)
EXTENDS OTSession, TLC

\* Calls and tokens are interchangeable; only the safety runs use this.
Symmetry == Permutations(Calls) \cup Permutations(Tokens)
=============================================================================
