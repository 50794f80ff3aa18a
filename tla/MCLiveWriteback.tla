-------------------------- MODULE MCLiveWriteback --------------------------
(* LiveWriteback with several writers.  A link is nothing but its identity: *)
(* the links of an instance are interchangeable.                            *)
EXTENDS LiveWriteback, TLC

LinkSymmetry == Permutations(Links)
=============================================================================
