----------------------------- MODULE MCCampaign -----------------------------
(* Constants for the TLC run of Campaign.                                  *)
EXTENDS Campaign

MCWithHidden == {1}
=============================================================================
