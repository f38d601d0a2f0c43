---------------------------- MODULE MCUserPosts ----------------------------
(* UserPosts for TLC: a set of posts that are alike. *)
EXTENDS UserPosts, TLC

CONSTANTS k1, k2, k3

MCKeys == {k1, k2}
MCThreeKeys == {k1, k2, k3}
KeySymmetry == Permutations(MCKeys)
=============================================================================
