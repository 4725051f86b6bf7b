----------------------------- MODULE MCXrWrite -----------------------------
(* Instances of XrWrite for TLC: the constants are given in the cfg files. *)
EXTENDS XrWrite
=============================================================================
