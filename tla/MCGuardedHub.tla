---------------------------- MODULE MCGuardedHub ----------------------------
(* Instances of the hub behind its HTTP surface for TLC. *)
EXTENDS GuardedHubProps, TLC

\* told and published record what was said; no step reads them.
Unheard == <<conn, rows, staged, effect, applied, pc, req, cur, todo, ans, aborts,
             surface, trash, gone, listed, edits>>

Symmetry == Permutations(Connectors) \cup Permutations(EventIds)
=============================================================================
