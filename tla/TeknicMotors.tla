---------------------------- MODULE TeknicMotors ----------------------------
(***************************************************************************)
(* What TeknicSystemHardware promises to whoever stands next to the        *)
(* machine, whatever lifecycle transitions, mode switches, timeouts, SDK   *)
(* exceptions and node faults it meets: motors are energised only while it *)
(* is being activated, in the order of the joints, each after the ones     *)
(* before it are done; a joint homes while every other stands still; later *)
(* only an active component starts a motion, of a writable joint that is   *)
(* energised; and what ends activity without deenergising a motor is an    *)
(* error, that the component does not come back from.                      *)
(* TeknicSystem implements it.                                             *)
(***************************************************************************)
EXTENDS Naturals

CONSTANTS
  N,        \* joints
  Writable  \* those that are not read only

Joints == 1..N

VARIABLES
  phase,    \* "down", "inactive", "activating", "active", "finalized", "destroyed"
  powered,  \* the joints whose enable is requested
  doing,    \* joint -> "still", "homing", "commanded"
  lost      \* destroyed while a motor could not be reached

motorVars == <<phase, powered, doing, lost>>

Init ==
  /\ phase = "down" /\ powered = {} /\ lost = FALSE
  /\ doing = [j \in Joints |-> "still"]

Goes(from, to) == phase \in from /\ phase' = to

Still == \A j \in Joints : doing[j] = "still"

PowerOff(D) ==
  /\ powered' = powered \ D
  /\ doing' = [j \in Joints |-> IF j \in D THEN "still" ELSE doing[j]]

\* Transitions that leave the motors as they are; the last is an error or a
\* shutdown.
Configure == Goes({"down"}, "inactive") /\ UNCHANGED <<powered, doing, lost>>
CleanUp == Goes({"inactive"}, "down") /\ UNCHANGED <<powered, doing, lost>>
Begin == Goes({"inactive"}, "activating") /\ UNCHANGED <<powered, doing, lost>>
GiveUp ==
  /\ Goes({"down", "inactive", "activating", "active"}, "finalized")
  /\ UNCHANGED <<powered, doing, lost>>

\* The joints before j are done with.
Done(j) == {i \in Writable : i < j}

Enable(j) ==
  /\ phase = "activating" /\ Still /\ powered = Done(j)
  /\ powered' = powered \cup {j}
  /\ UNCHANGED <<phase, doing, lost>>

Home(j) ==
  /\ phase = "activating" /\ Still /\ powered = Done(j) \cup {j}
  /\ doing' = [doing EXCEPT ![j] = "homing"]
  /\ UNCHANGED <<phase, powered, lost>>

\* A read-only joint is deenergised again; after the last joint the
\* component is active.
Finish(j) ==
  /\ Goes({"activating"}, IF j = N THEN "active" ELSE "activating")
  /\ Still /\ powered = Done(j) \cup {j}
  /\ powered' = Done(j + 1)
  /\ UNCHANGED <<doing, lost>>

\* write(), that may fail after any of its moves.
Command(S) ==
  /\ phase = "active" /\ phase' \in {"active", "finalized"}
  /\ S \subseteq powered \cap Writable
  /\ doing' = [j \in Joints |-> IF j \in S THEN "commanded" ELSE doing[j]]
  /\ UNCHANGED <<powered, lost>>

\* A motion ends, or is ended by the node.
Stop(j) ==
  /\ doing' = [doing EXCEPT ![j] = "still"]
  /\ UNCHANGED <<phase, powered, lost>>

\* The joints are deenergised in their order; an error cuts it short.
Deactivate == Goes({"active"}, "inactive") /\ PowerOff(Joints) /\ UNCHANGED lost
DeactivateFails(last) ==
  /\ last < N
  /\ Goes({"active"}, "finalized") /\ PowerOff(1..last)
  /\ UNCHANGED lost

Destroy(last) ==
  /\ Goes({"down", "inactive", "active", "finalized"}, "destroyed")
  /\ PowerOff(1..last)
  /\ lost' \in BOOLEAN /\ (~lost' => powered' = {})

Next ==
  \/ Configure \/ CleanUp \/ Begin \/ GiveUp \/ Deactivate
  \/ \E j \in Joints : Enable(j) \/ Home(j) \/ Finish(j) \/ Stop(j)
  \/ \E S \in SUBSET Writable : Command(S)
  \/ \E last \in 0..N : DeactivateFails(last) \/ Destroy(last)

Spec == Init /\ [][Next]_motorVars
=============================================================================
