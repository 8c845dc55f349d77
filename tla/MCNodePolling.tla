--------------------------- MODULE MCNodePolling ----------------------------
(* The node of NodePolling for TLC; see the .cfg files for the bounds.     *)
EXTENDS NodePolling

=============================================================================
