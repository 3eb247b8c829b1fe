--------------------------- MODULE MCFuzzCampaign ---------------------------
(* An instance of FuzzCampaign for TLC: a success, an error and two signals. *)
EXTENDS FuzzCampaign

Codes == {0, 1, -6, -11}
=============================================================================
