------------------------- MODULE MCUpstreamBalance -------------------------
(* TLC instance of UpstreamBalance: three peers of weights 2, 1 and 1.     *)
EXTENDS UpstreamBalance

MCWeight == <<2, 1, 1>>
=============================================================================
