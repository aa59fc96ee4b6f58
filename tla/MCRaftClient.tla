---------------------------- MODULE MCRaftClient ----------------------------
(***************************************************************************)
(* RaftClient for TLC.  Application threads are interchangeable; the       *)
(* symmetry is used by runs that check no liveness.                        *)
(***************************************************************************)
EXTENDS RaftClient

Symmetry == Permutations(App)

=============================================================================
