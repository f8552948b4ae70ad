----------------------------- MODULE MCBringup -----------------------------
(* Bringup with two networks, clusters, images and certificate names.      *)
EXTENDS Bringup, TLC
=============================================================================
