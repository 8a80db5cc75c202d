-------------------------------- MODULE MCCdc --------------------------------
(***************************************************************************)
(* Instances of Cdc for TLC.                                               *)
(***************************************************************************)
EXTENDS Cdc, TLC

\* The subscriptions, and the connections, are interchangeable.
MCSymmetry == Permutations(Subs) \cup Permutations(Conns)
=============================================================================
