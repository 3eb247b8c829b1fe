-------------------------- MODULE MCArtifactStore --------------------------
(* An instance of ArtifactStore for TLC.                                   *)
EXTENDS ArtifactStore

CONSTANTS t1, t2, t3, p1

\* Every thread in one process.
OneProcess == {p1}
Together == [t \in {t1, t2, t3} |-> p1]
=============================================================================
