-------------------------------- MODULE MCDaemon --------------------------------
(***************************************************************************)
(* Instances of Daemon: it has no images.                                  *)
(***************************************************************************)
EXTENDS Daemon

NoChunks == [i \in {} |-> 0]
=============================================================================
