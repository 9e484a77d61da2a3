------------------------------ MODULE MCSendJob ------------------------------
(* Small instances of SendJob.                                             *)
EXTENDS SendJob, TLC

PeerSymmetry == Permutations(Workers)
=============================================================================
