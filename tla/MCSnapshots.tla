---------------------------- MODULE MCSnapshots ----------------------------
(***************************************************************************)
(* Instances of Snapshots for TLC.  The claims are those of MCIngestion;   *)
(* record identities are ordered by the path a claim reconstructs.         *)
(***************************************************************************)
EXTENDS Snapshots, MCIngestion

MCRank(r) == CHOOSE i \in 1 .. 3 : r[3] = <<"path2", "path1", "path3">>[i]

\* Builders are interchangeable: no action tells one from another.
MCBuilderSymmetry == Permutations(Builders)

MCChain == {MCClaim, MCReclaim, MCReclaimAgain}
=============================================================================
