--------------------------- MODULE MCMediaController ---------------------------
(* Small instances of MediaController.                                     *)
EXTENDS MediaControllerInvariant, TLC

Symmetry == Permutations(Vms) \cup Permutations(Nonces)
===============================================================================
