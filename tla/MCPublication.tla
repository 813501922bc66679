--------------------------- MODULE MCPublication ---------------------------
(* Instances of Publication for TLC: identities are model values, and those  *)
(* of one kind are interchangeable.                                          *)
EXTENDS Publication, TLC

Symmetry == Permutations(Drafts) \union Permutations(Records)
              \union Permutations(Posts) \union Permutations(Web)

=============================================================================
