------------------------------ MODULE MCXrLine ------------------------------
(* Instances of XrLine for TLC. *)
EXTENDS XrLine, TLC

CONSTANTS t1, t2

MCTasks == {t1, t2}
MCTermios ==
  {[rate |-> 9600, size |-> 8, flow |-> "hw"], [rate |-> 115200, size |-> 5, flow |-> "none"],
   [rate |-> 0, size |-> 8, flow |-> "sw"]}
Sym == Permutations(MCTasks)
=============================================================================
