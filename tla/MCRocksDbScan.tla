--------------------------- MODULE MCRocksDbScan ---------------------------
(***************************************************************************)
(* Bytes 0 to 3.  A key is an integer literal of two bytes, the high one   *)
(* first, and one byte for the rest of the quad; the terms that are looked *)
(* for are the integers 1 and 3.                                           *)
(***************************************************************************)
EXTENDS RocksDbScan

integer(n) == <<n \div (MaxByte + 1), n % (MaxByte + 1)>>

MCKeys == {Append(integer(n), 0) : n \in {1, 2, 3, 4, 8}}
MCPrefixes == {integer(1), integer(3)}

=============================================================================
