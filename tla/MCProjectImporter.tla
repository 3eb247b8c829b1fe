-------------------------- MODULE MCProjectImporter --------------------------
(* Instances of ProjectImporter for TLC.  Calls are interchangeable; the     *)
(* symmetry is used only where no liveness is checked.                       *)
EXTENDS ProjectImporter, TLC

ImportSymmetry == Permutations(Imports)
=============================================================================
