------------------------------ MODULE MCRedis ------------------------------
(***************************************************************************)
(* A small instance of RedisCli for TLC: a key with a ":" and one without, *)
(* a hash of two fields, one value with a separator, an empty string.      *)
(***************************************************************************)
EXTENDS RedisCli, TLC

KeyA == <<"user", ":", "1">>
KeyB == <<"b">>
MCKeys == {KeyA, KeyB}
MCHashes == {<<<<<<"name">>, <<"b", ":", "c">>>>, <<<<"b">>, <<>>>>>>}
MCErrorText == <<"WRONGTYPE">>
MCGarbage == <<"?", ",", "?">>
MCTypes == [k \in MCKeys |-> IF k = KeyA THEN {"hash", "list", "none"} ELSE {"hash", "string"}]
MCStrings == {<<"b">>}

CONSTANTS h1, h2
MCAsked == h1 :> <<KeyA, KeyB>> @@ h2 :> <<KeyB>>
=============================================================================
