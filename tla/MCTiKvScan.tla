----------------------------- MODULE MCTiKvScan -----------------------------
(* Bytes 0 to 2.  The first prefix ends in the largest byte, one of its keys  *)
(* is the prefix of another, and <<1>> is both its upper bound and the second *)
(* prefix.  <<0, 1, 2>> lies just below the first range.                      *)
EXTENDS TiKvScan

MCKeys == {<<0, 1, 2>>, <<0, 2, 0>>, <<0, 2, 0, 0>>, <<0, 2, 2>>, <<1, 0>>}
MCPrefixes == <<<<0, 2>>, <<1>>>>
=============================================================================
