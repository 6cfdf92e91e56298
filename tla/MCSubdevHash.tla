---------------------------- MODULE MCSubdevHash ----------------------------
(* Instances of SubdevHash for TLC: one device thread and one cloud thread, *)
(* as the comment on the lock in subdev_address_hash.c has it.              *)
EXTENDS SubdevHash, TLC

Symmetry == Permutations(Addresses) \cup Permutations(Entries)
=============================================================================
