-------------------------- MODULE MCSecondaryPools --------------------------
(* Instances of SecondaryPools for TLC; the values are in the .cfg files.   *)
EXTENDS SecondaryPools
=============================================================================
