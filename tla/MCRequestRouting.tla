-------------------------- MODULE MCRequestRouting --------------------------
(* A node with channels so small that a few requests can overload them.    *)
EXTENDS RequestRouting

=============================================================================
