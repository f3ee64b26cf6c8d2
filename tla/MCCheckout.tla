----------------------------- MODULE MCCheckout -----------------------------
(* An instance of Checkout for TLC: checkouts that overlap, two webhook       *)
(* requests at a time.                                                        *)
EXTENDS Checkout, TLC
=============================================================================
