--------------------------- MODULE MCSenderService ---------------------------
(* SenderService with two receivers; they are interchangeable. *)
EXTENDS SenderService, TLC

Receivers == Permutations(Conns)
=============================================================================
