----------------------------- MODULE HeadAdminMC -----------------------------
(* HeadAdmin for TLC: the ids other than the default one are alike. *)
EXTENDS HeadAdmin, TLC

CONSTANTS a, b, default

MCSymmetry == Permutations({a, b})
=============================================================================
