--------------------------- MODULE MCSessionEngine --------------------------
(* Instance of SessionEngine for TLC: one session (sessions share nothing), *)
(* two paths, the idle cap shorter than the range of instants so that       *)
(* capped, clamped and uncapped ends all occur.                             *)
EXTENDS SessionEngine, TLC

PathSymmetry == Permutations(Paths)
=============================================================================
