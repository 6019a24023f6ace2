----------------------------- MODULE MCCipher -----------------------------
(***************************************************************************)
(* Small instances of OTCipher for TLC: bytes of three bits, of which      *)
(* printable characters leave the top bit 0, keys of two characters and    *)
(* ciphertexts of three bytes.                                             *)
(***************************************************************************)
EXTENDS OTCipher

MCBits == {"b0", "b1", "top"}

Low  == {"b0"}
High == {"b1"}
Both == {"b0", "b1"}

\* Messages shorter than, as long as, and longer than the key; one of them
\* begins like the key, so that their xor has zero bytes.
MCMessages == << <<Low>>, <<Low, High>>, <<High, Both, Low>> >>

MCRandoms == {<<Low, High>>, <<High, High>>, <<Both, Low>>}

MCKeys == {<<Low, High>>}

MCCiphertexts ==
  {<<a, b, c>> : a \in {{}, Low, {"b1", "top"}, MCBits}, b \in {{}, {"top"}, Both}, c \in {{}, Low, MCBits}}

MCJunk == <<High, Low>>
=============================================================================
