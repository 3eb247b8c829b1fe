---------------------------- MODULE MCApplication ----------------------------
(* An instance of Application for TLC: one tool and one route, which a     *)
(* registry may miss, and one name that is in no default registry.         *)
EXTENDS Application
=============================================================================
