---------------------------- MODULE MCSettlement ----------------------------
(***************************************************************************)
(* A small shop.  Ann buys a package, a bundle of two books and a hard     *)
(* copy.  Bob owns the referral code the bundle is attributed to; the      *)
(* package is bought under a code of Ann's own.                            *)
(***************************************************************************)
EXTENDS Settlement, TLC

CONSTANTS pkg, bundle, paper, tafsir, seerah, ann, bob

MCBuyer == [p \in Payments |-> ann]
MCCodeOwner == [p \in Payments |-> CASE p = bundle -> bob
                                     [] p = pkg -> ann
                                     [] OTHER -> NoUser]
OneBook == [o \in Orders |-> {tafsir}]
NobodyReferred == [p \in Payments |-> NoUser]
MCGoods == [o \in Orders |-> {tafsir, seerah}]

Symmetry == Permutations(Handlers) \cup Permutations(Items)
=============================================================================
