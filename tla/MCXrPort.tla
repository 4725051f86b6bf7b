------------------------------ MODULE MCXrPort ------------------------------
(* Instances of XrPort for TLC. *)
EXTENDS XrPort, TLC

CONSTANTS d1, d2, x1, x2, u1, u2

MCDevs == {d1, d2}
MCSplit == {d1}
MCTtys == {x1, x2}
MCTasks == {u1, u2}
OneMinor == {0}
=============================================================================
