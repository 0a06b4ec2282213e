-------------------------- MODULE MCSupabaseBucket --------------------------
(* Overlapping calls at one key; their revisions are interchangeable. *)
EXTENDS SupabaseBucket, TLC

CONSTANTS c1, c2, c3, a, b

MCClients  == {c1, c2, c3}
MCContents == {a, b}
Symmetry   == Permutations(MCClients) \cup Permutations(MCContents)
=============================================================================
