----------------------------- MODULE MCCheckout -----------------------------
(***************************************************************************)
(* A community, a bundle and a package, from two devices; one coupon, of   *)
(* one use or unlimited, which may lose its code or be removed.            *)
(***************************************************************************)
EXTENDS Checkout, TLC

\* One redemption lost to a dead request; orders need no bound, there are two.
RowsBound == \A c \in Rows : lost[c] <= 1

Symmetry == Permutations(Request) \cup Permutations(Orders) \cup Permutations(Rows)
=============================================================================
