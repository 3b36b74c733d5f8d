------------------------ MODULE MultiThreadHTTPServerMC ------------------------
(***************************************************************************)
(* Small instances of MultiThreadHTTPServer for TLC.                       *)
(***************************************************************************)
EXTENDS MultiThreadHTTPServer, TLC

\* sound for the counterexample, not for liveness
Symmetry == Permutations(Threads)
=============================================================================
