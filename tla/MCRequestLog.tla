---------------------------- MODULE MCRequestLog ----------------------------
(* RequestLog for TLC.  In the first instance the cap is three bytes and   *)
(* bodies of one- and two-byte characters, and of halves of them, grow     *)
(* past it in chunks of all sizes.  In the second a byte stands for a      *)
(* block of 2,048: the cap of 64 KiB is 32 blocks, and a request with the  *)
(* 50 turns of 2,000 characters that ClassifyMessageInput allows, each     *)
(* with its JSON around it, takes 50.                                      *)
EXTENDS RequestLog, TLC

SmallChunks == UNION {[1..k -> Bytes] : k \in 1..2}

(* A JSON text begins and ends with an "x"; three of them nest too deep.   *)
SmallDeep == {<<"x", "x", "x">>}
SmallJson == {<<"x", "x">>} \cup {<<"x", g, "x">> : g \in Glyphs \ {"x"}}

Blocks(n) == [i \in 1..n |-> "block"]

BlockChunks == {Blocks(n) : n \in {1, 8, 25}}
BlockBodies == {Blocks(n) : n \in {1, 9, 50}}
=============================================================================
