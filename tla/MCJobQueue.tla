----------------------------- MODULE MCJobQueue -----------------------------
(* Small instances of JobQueue for TLC. *)
EXTENDS JobQueue, TLC

CONSTANTS j1, j2, j3

WorkerSymmetry == Permutations(Workers)

KeyOfOne == j1 :> "scan"
KeyOfThree == j1 :> "scan" @@ j2 :> "scan" @@ j3 :> "copy"
=============================================================================
