---------------------------- MODULE MCAffiliate ----------------------------
(* The smallest account for TLC: one referral that earns 1. *)
EXTENDS Affiliate, TLC

MCOneTotal == "o1" :> 2
=============================================================================
