--------------------------- MODULE MCTeknicSystem ---------------------------
(* Instances of TeknicSystem for TLC. *)
EXTENDS TeknicSystem

\* Two joints that differ in every parameter: the first is a writable axis
\* homed on each activation, the second is read only and homed once.
MCHoming == [j \in Joints |-> IF j = 1 THEN 2 ELSE 1]
MCHomingValid == [j \in Joints |-> TRUE]
MCReadOnly == [j \in Joints |-> j = 2]
MCAllOK == [j \in Joints |-> TRUE]
\* No joint's name occurs in another joint's name.
MCNames == [j \in Joints |-> {j}]

\* One controller, that commands the velocity of the first joint; or every
\* interface.
MCVelocityOnly == {<<1, "velocity">>}
MCAllKeys == Keys

\* Two writable joints that are not homed: the mode switch on its own.
MCNoHoming == [j \in Joints |-> 0]
MCWritable == [j \in Joints |-> FALSE]
=============================================================================
