------------------------ MODULE MCCoordinatorThreads ------------------------
(* A TLC instance of the coordinator's threads: three connections, of      *)
(* which two are served at a time.                                         *)
EXTENDS CoordinatorThreads, TLC
=============================================================================
