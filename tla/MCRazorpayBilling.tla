------------------------- MODULE MCRazorpayBilling -------------------------
(* Instances of RazorpayBilling for TLC. *)
EXTENDS RazorpayBilling, TLC

\* Mandates are interchangeable: for the runs that check no temporal property.
MandateSymmetry == Permutations(Mandates)
=============================================================================
