---------------------------- MODULE MCTraceEngine ----------------------------
(* Writers are handlers at work on one request.                            *)
EXTENDS TraceEngine, TLC

WriterSymmetry == Permutations(Writers)

=============================================================================
