---------------------------- MODULE TeknicSystem ----------------------------
(***************************************************************************)
(* TeknicSystemHardware (src/src/system.cpp): the ros2_control plugin that *)
(* drives ClearPath-SC motors.  The resource manager serialises its calls  *)
(* (lifecycle transitions, read, write, mode switches); the motor nodes    *)
(* run on their own, so that on_activate, which polls each of them, is a   *)
(* loop of steps and every other callback is one step.  A callback that    *)
(* can throw mnErr half way through its loop chooses where it stops.       *)
(*                                                                         *)
(* Unit conversions are counted, not computed: scale[j] is how many times  *)
(* PositioningResolution has been multiplied into counts_conversions_[j];  *)
(* a value converted with scale 1 is in the units the URDF declares.       *)
(*                                                                         *)
(* A definition named ...Bug is the one that follows it with a plausible   *)
(* mistake; no specification uses it.                                      *)
(***************************************************************************)
EXTENDS Integers, Sequences, FiniteSets

CONSTANTS
  N,                \* info_.joints.size()
  Homing,           \* homing_          : joint -> 0..2
  HomingValid,      \* homing is set up in the drive : joint -> BOOLEAN
  ReadOnly,         \* read_only_       : joint -> BOOLEAN
  ParamsOK,         \* the URDF has every required parameter : joint -> BOOLEAN
  NameOccursIn,     \* joint -> the joints whose interface keys contain its name
  ControllerKeys,   \* the command interfaces the loaded controllers use
  SequentialClaims, \* may a second controller claim a joint's other interface?
  MaxActivations    \* bound on the activations explored

Joints == 1..N
Interfaces == {"position", "velocity"}
Keys == Joints \X Interfaces

ASSUME NAssumption == N \in Nat \ {0}
ASSUME ParamAssumption ==
  /\ Homing \in [Joints -> 0..2]
  /\ HomingValid \in [Joints -> BOOLEAN]
  /\ ReadOnly \in [Joints -> BOOLEAN]
  /\ ParamsOK \in [Joints -> BOOLEAN]
ASSUME NameAssumption ==
  /\ NameOccursIn \in [Joints -> SUBSET Joints]
  /\ \A j \in Joints : j \in NameOccursIn[j]
ASSUME PolicyAssumption ==
  /\ ControllerKeys \subseteq Keys
  /\ SequentialClaims \in BOOLEAN
  /\ MaxActivations \in Nat

VARIABLES
  lc,             \* lifecycle state kept by the resource manager
  step,           \* where on_activate is
  cur,            \* its loop index i
  portsOpen,      \* SysManager ports are open
  enableReq,      \* node -> Enable Request asserted
  ready,          \* node -> Motion.IsReady()
  wasHomed,       \* node -> Homing.WasHomed()
  motion,         \* node -> what it was last told to do since its last disable
  homedBy,        \* how the current activation satisfied the homing parameter
  scale,          \* counts_conversions_, as a power of the resolution
  limitScale,     \* the conversion VelLimit and AccLimit were set with
  hwState,        \* the conversion hw_states_* were read with, or NaN
  control_mode_, start_modes_, stop_modes_,
  cmd,            \* hw_commands_* : key -> "NaN" or "set"
  claimed,        \* keys claimed by active controllers
  request,        \* the switch prepared and not yet performed
  abandoned       \* the destructor's on_deactivate met an mnErr

lifeVars   == <<lc, portsOpen, abandoned>>
loopVars   == <<step, cur, homedBy>>
nodeVars   == <<enableReq, ready, wasHomed, motion>>
unitVars   == <<scale, limitScale, hwState>>
switchVars == <<control_mode_, start_modes_, stop_modes_, claimed, request>>
vars == <<lifeVars, loopVars, nodeVars, unitVars, switchVars, cmd>>

Modes == {"SPEED_LOOP", "POSITION_LOOP", "UNDEFINED"}
Motions == {"idle", "homing", "velocity", "position"}
Steps == {"idle", "enable", "waitReady", "homing", "waitHomed", "finish"}
NaN == -1
NoRequest == [start |-> {}, stop |-> {}]
Available == {"inactive", "active"}

Init ==
  /\ lc = "new"
  /\ step = "idle" /\ cur = 1
  /\ portsOpen = FALSE
  /\ enableReq = [j \in Joints |-> FALSE]
  /\ ready = [j \in Joints |-> FALSE]
  /\ wasHomed \in [Joints -> BOOLEAN]
  /\ motion = [j \in Joints |-> "idle"]
  /\ homedBy = [j \in Joints |-> "unset"]
  /\ scale = [j \in Joints |-> 0]
  /\ limitScale = [j \in Joints |-> 0]
  /\ hwState = [j \in Joints |-> NaN]
  /\ control_mode_ = [j \in Joints |-> "UNDEFINED"]
  /\ start_modes_ = <<>>
  /\ stop_modes_ = [j \in Joints |-> FALSE]
  /\ cmd = [k \in Keys |-> "NaN"]
  /\ claimed = {}
  /\ request = NoRequest
  /\ abandoned = FALSE

-----------------------------------------------------------------------------
(* The motor nodes (external): what a node does by itself.                 *)

\* What EnableReq(false) on every node of D does to the nodes.
Disable(D) ==
  /\ enableReq' = [j \in Joints |-> enableReq[j] /\ j \notin D]
  /\ ready' = [j \in Joints |-> ready[j] /\ j \notin D]
  /\ motion' = [j \in Joints |-> IF j \in D THEN "idle" ELSE motion[j]]
  /\ UNCHANGED wasHomed

\* A node whose Enable Request is asserted becomes ready, however late.
NodeReady(j) ==
  /\ enableReq[j] /\ ~ready[j]
  /\ ready' = [ready EXCEPT ![j] = TRUE]
  /\ UNCHANGED <<lifeVars, loopVars, enableReq, wasHomed, motion, unitVars, switchVars, cmd>>

\* An alert, a node stop or a loss of bus power: motion ends, the request
\* stays.  A node that lost its supply has also forgotten its home.
NodeFault(j) ==
  /\ ready[j]
  /\ ready' = [ready EXCEPT ![j] = FALSE]
  /\ motion' = [motion EXCEPT ![j] = "idle"]
  /\ \E home \in {wasHomed[j], FALSE} : wasHomed' = [wasHomed EXCEPT ![j] = home]
  /\ UNCHANGED <<lifeVars, loopVars, enableReq, unitVars, switchVars, cmd>>

HomingCompletes(j) ==
  /\ ready[j] /\ motion[j] = "homing"
  /\ wasHomed' = [wasHomed EXCEPT ![j] = TRUE]
  /\ motion' = [motion EXCEPT ![j] = "idle"]
  /\ UNCHANGED <<lifeVars, loopVars, enableReq, ready, unitVars, switchVars, cmd>>

-----------------------------------------------------------------------------
(* on_init, on_configure, on_cleanup.                                      *)

\* on_init: one joint with a missing or out-of-range parameter fails it.
OnInit ==
  /\ lc = "new"
  /\ lc' = IF \A j \in Joints : ParamsOK[j] THEN "unconfigured" ELSE "finalized"
  /\ UNCHANGED <<portsOpen, abandoned, loopVars, nodeVars, unitVars, switchVars, cmd>>

\* An mnErr closes the ports again and returns FAILURE: still unconfigured.
\* Left out: that PortsClose, inside the catch, throws a second one.
OnConfigure(ok) ==
  /\ lc = "unconfigured"
  /\ lc' = IF ok THEN "inactive" ELSE "unconfigured"
  /\ portsOpen' = ok
  /\ UNCHANGED <<abandoned, loopVars, nodeVars, unitVars, switchVars, cmd>>

\* FAILURE from on_cleanup goes to on_error, whose default ends in finalized.
OnCleanup(ok) ==
  /\ lc = "inactive" /\ step = "idle"
  /\ lc' = IF ok THEN "unconfigured" ELSE "finalized"
  /\ portsOpen' = (~ok /\ portsOpen)
  /\ UNCHANGED <<abandoned, loopVars, nodeVars, unitVars, switchVars, cmd>>

-----------------------------------------------------------------------------
(* on_activate: for each joint in order, enable, wait, home, convert,      *)
(* limit, and disable again when it is read only.                          *)

\* Entry of on_activate.
ActivateBegin ==
  /\ lc = "inactive" /\ step = "idle"
  /\ \A j \in Joints : scale[j] < MaxActivations
  /\ step' = "enable" /\ cur' = 1
  /\ homedBy' = [j \in Joints |-> "unset"]
  /\ UNCHANGED <<lifeVars, nodeVars, unitVars, switchVars, cmd>>

\* AlertsClear, NodeStopClear, EnableReq(true) and the start of the timeout.
EnableNode ==
  /\ step = "enable"
  /\ step' = "waitReady"
  /\ enableReq' = [enableReq EXCEPT ![cur] = TRUE]
  /\ UNCHANGED <<lifeVars, cur, homedBy, ready, wasHomed, motion, unitVars, switchVars, cmd>>

ReadySeen ==
  /\ step = "waitReady" /\ ready[cur]
  /\ step' = "homing"
  /\ UNCHANGED <<lifeVars, cur, homedBy, nodeVars, unitVars, switchVars, cmd>>

\* homing 0, or homing not set up in the drive: the node is not homed.
NoHoming ==
  /\ step = "homing"
  /\ Homing[cur] = 0 \/ ~HomingValid[cur]
  /\ step' = "finish"
  /\ UNCHANGED <<lifeVars, cur, homedBy, nodeVars, unitVars, switchVars, cmd>>

\* The condition under which a node keeps the home it has.
KeepsHomeBug(j) == Homing[j] >= 1 /\ wasHomed[j]
KeepsHome(j) == Homing[j] = 1 /\ wasHomed[j]

\* homing 1 and already homed: the node keeps its home.
SkipHoming ==
  /\ step = "homing"
  /\ Homing[cur] # 0 /\ HomingValid[cur]
  /\ KeepsHome(cur)
  /\ step' = "finish"
  /\ homedBy' = [homedBy EXCEPT ![cur] = "kept"]
  /\ UNCHANGED <<lifeVars, cur, nodeVars, unitVars, switchVars, cmd>>

\* Homing.Initiate(): the drive drops WasHomed and starts its sequence,
\* unless it has stopped being ready since it was asked.
InitiateHoming ==
  /\ step = "homing"
  /\ Homing[cur] # 0 /\ HomingValid[cur]
  /\ ~KeepsHome(cur)
  /\ step' = "waitHomed"
  /\ motion' = [motion EXCEPT ![cur] = IF ready[cur] THEN "homing" ELSE "idle"]
  /\ wasHomed' = [wasHomed EXCEPT ![cur] = FALSE]
  /\ UNCHANGED <<lifeVars, cur, homedBy, enableReq, ready, unitVars, switchVars, cmd>>

HomedSeen ==
  /\ step = "waitHomed" /\ wasHomed[cur]
  /\ step' = "finish"
  /\ homedBy' = [homedBy EXCEPT ![cur] = "run"]
  /\ UNCHANGED <<lifeVars, cur, nodeVars, unitVars, switchVars, cmd>>

\* FAILURE instead of ERROR would leave the component inactive.
ActivateErrorBug ==
  /\ lc' = "inactive" /\ step' = "idle"
  /\ UNCHANGED <<cur, homedBy, portsOpen, abandoned, nodeVars, switchVars, cmd>>

\* on_activate returns ERROR: the resource manager's error() finalizes the
\* component.  Nothing undoes what was already enabled or started.
ActivateError ==
  /\ lc' = "finalized" /\ step' = "idle"
  /\ UNCHANGED <<cur, homedBy, portsOpen, abandoned, nodeVars, switchVars, cmd>>

\* ENABLE_TIMEOUT expires while the node is not ready.
EnableTimeout ==
  /\ step = "waitReady" /\ ~ready[cur]
  /\ ActivateError /\ UNCHANGED unitVars

\* HOMING_TIMEOUT expires while the node is not homed.
HomingTimeoutBug == FALSE
HomingTimeout ==
  /\ step = "waitHomed" /\ ~wasHomed[cur]
  /\ ActivateError /\ UNCHANGED unitVars

\* Any SDK call of the loop throws; the one in "finish" may come after the
\* conversion was multiplied and before the limits were set.
ActivateFault ==
  /\ step # "idle"
  /\ \E extra \in IF step = "finish" THEN {0, 1} ELSE {0} :
       scale' = [scale EXCEPT ![cur] = @ + extra]
  /\ ActivateError /\ UNCHANGED <<limitScale, hwState>>

\* Where on_activate goes after the joint cur.
NextJointBug ==
  IF cur <= N
  THEN /\ step' = "enable" /\ cur' = cur + 1
       /\ UNCHANGED lc
  ELSE /\ step' = "idle" /\ cur' = 1
       /\ lc' = "active"

NextJoint ==
  IF cur < N
  THEN /\ step' = "enable" /\ cur' = cur + 1
       /\ UNCHANGED lc
  ELSE /\ step' = "idle" /\ cur' = 1
       /\ lc' = "active"

\* The conversion takes the node's resolution; the limits are set with it.
ConvertBug ==
  /\ scale' = [scale EXCEPT ![cur] = @ + 1]
  /\ limitScale' = [limitScale EXCEPT ![cur] = scale[cur]]

Convert ==
  /\ scale' = [scale EXCEPT ![cur] = @ + 1]
  /\ limitScale' = [limitScale EXCEPT ![cur] = scale'[cur]]

\* A read-only joint is disabled again.
DisableReadOnly == IF ReadOnly[cur] THEN Disable({cur}) ELSE UNCHANGED nodeVars

\* Interrupting moves on, conversion, units, limits; then the next joint.
FinishJoint ==
  /\ step = "finish"
  /\ Convert
  /\ DisableReadOnly
  /\ NextJoint
  /\ UNCHANGED <<homedBy, hwState, portsOpen, abandoned, switchVars, cmd>>

-----------------------------------------------------------------------------
(* on_deactivate, the default on_shutdown, the destructor.                 *)

\* The joints before the one whose SDK call throws (last + 1) are disabled.
OnDeactivate(last) ==
  /\ lc = "active"
  /\ Disable(1..last)
  /\ lc' = IF last = N THEN "inactive" ELSE "finalized"
  /\ UNCHANGED <<portsOpen, abandoned, loopVars, unitVars, switchVars, cmd>>

\* The class does not override on_shutdown: nothing is disabled.
OnShutdown ==
  /\ lc \in {"unconfigured", "inactive", "active"} /\ step = "idle"
  /\ lc' = "finalized"
  /\ UNCHANGED <<portsOpen, abandoned, loopVars, nodeVars, unitVars, switchVars, cmd>>

\* The destructor: on_deactivate, then on_cleanup, both results ignored.
\* With the ports closed the first Ports() call throws; after a failed on_init
\* nodes[i] may not exist either, which no motor is left to notice.
Destroy(last) ==
  /\ lc # "destroyed" /\ step = "idle"
  /\ ~portsOpen => last = 0
  /\ Disable(1..last)
  /\ lc' = "destroyed"
  /\ abandoned' = (portsOpen /\ last < N)
  /\ portsOpen' = FALSE
  /\ UNCHANGED <<loopVars, unitVars, switchVars, cmd>>

-----------------------------------------------------------------------------
(* prepare_command_mode_switch and perform_command_mode_switch.            *)

\* joint_interfaces and the stop test: keys are matched by substring.
JointInterfaces(j, start) == {k[2] : k \in {s \in start : s[1] \in NameOccursIn[j]}}
Stops(j, stop) == \E k \in stop : k[1] \in NameOccursIn[j]

StartModeBug(j, start, stop) ==
  CASE JointInterfaces(j, start) = {"velocity"} -> "SPEED_LOOP"
    [] JointInterfaces(j, start) = {"position"} -> "POSITION_LOOP"
    [] OTHER -> control_mode_[j]

StartMode(j, start, stop) ==
  CASE JointInterfaces(j, start) = {"velocity"} -> "SPEED_LOOP"
    [] JointInterfaces(j, start) = {"position"} -> "POSITION_LOOP"
    [] OTHER -> IF Stops(j, stop) THEN "UNDEFINED" ELSE control_mode_[j]

\* What the controller manager may ask for: it stops claimed interfaces and
\* starts free ones.  Without SequentialClaims no second controller takes
\* the other interface of a joint that stays claimed.
Requestable(start, stop) ==
  /\ stop \subseteq claimed
  /\ start \cap (claimed \ stop) = {}
  /\ start \cup stop # {}
  /\ ~SequentialClaims =>
       \A s \in start : \A k \in claimed \ stop : s[1] # k[1]

\* OK is returned when all N joints were given a start mode.
AcceptedBug(n) == TRUE
Accepted(n) == n = N

\* The loop stops with ERROR at the first joint asked to start both
\* interfaces (joint n + 1), leaving start_modes_ short.
PrepareCommandModeSwitch(start, stop) ==
  /\ lc \in Available /\ step = "idle" /\ request = NoRequest
  /\ Requestable(start, stop)
  /\ \E n \in 0..N :
       /\ \A j \in 1..n : JointInterfaces(j, start) # Interfaces
       /\ n < N => JointInterfaces(n + 1, start) = Interfaces
       /\ start_modes_' = [j \in 1..n |-> StartMode(j, start, stop)]
       /\ stop_modes_' = [j \in Joints |-> j <= n + 1 /\ Stops(j, stop)]
       /\ request' = IF Accepted(n) THEN [start |-> start, stop |-> stop] ELSE NoRequest
  /\ UNCHANGED <<lifeVars, loopVars, nodeVars, unitVars, control_mode_, claimed, cmd>>

\* Stopped joints lose both commands.
AfterSwitchBug(k) == IF stop_modes_[k[1]] /\ k[2] = "velocity" THEN "NaN" ELSE cmd[k]
AfterSwitch(k) == IF stop_modes_[k[1]] THEN "NaN" ELSE cmd[k]

\* Stopped joints are reset; every joint takes its start mode.
PerformCommandModeSwitch ==
  /\ lc # "destroyed" /\ step = "idle" /\ request # NoRequest
  /\ cmd' = [k \in Keys |-> AfterSwitch(k)]
  /\ control_mode_' = [j \in Joints |-> start_modes_[j]]
  /\ claimed' = (claimed \ request.stop) \cup request.start
  /\ request' = NoRequest
  /\ UNCHANGED <<lifeVars, loopVars, nodeVars, unitVars, start_modes_, stop_modes_>>

\* A controller writes through an interface it has claimed (external).
SetCommand(k) ==
  /\ lc \in Available /\ step = "idle"
  /\ k \in claimed
  /\ cmd' = [cmd EXCEPT ![k] = "set"]
  /\ UNCHANGED <<lifeVars, loopVars, nodeVars, unitVars, switchVars>>

-----------------------------------------------------------------------------
(* read and write.                                                         *)

\* The joints up to the one whose SDK call throws (last + 1) are refreshed.
Read(last) ==
  /\ lc \in Available /\ step = "idle"
  /\ hwState' = [j \in Joints |-> IF j <= last THEN scale[j] ELSE hwState[j]]
  /\ lc' = IF last = N THEN lc ELSE "finalized"
  /\ UNCHANGED <<portsOpen, abandoned, loopVars, nodeVars, scale, limitScale, switchVars, cmd>>

\* write() sends joint j the command of its control mode, unless it is
\* read only or the command is NaN.
MovesBug(j, f) ==
  /\ ~ReadOnly[j]
  /\ control_mode_[j] # "UNDEFINED"
  /\ f = "velocity"

Moves(j, f) ==
  /\ ~ReadOnly[j]
  /\ control_mode_[j] = IF f = "velocity" THEN "SPEED_LOOP" ELSE "POSITION_LOOP"
  /\ cmd[<<j, f>>] # "NaN"

\* Nodes that are not ready ignore the move; the rest execute it.
Write(last) ==
  /\ lc = "active"
  /\ motion' = [j \in Joints |->
                  CASE j <= last /\ ready[j] /\ Moves(j, "velocity") -> "velocity"
                    [] j <= last /\ ready[j] /\ Moves(j, "position") -> "position"
                    [] OTHER -> motion[j]]
  /\ lc' = IF last = N THEN lc ELSE "finalized"
  /\ UNCHANGED <<portsOpen, abandoned, loopVars, enableReq, ready, wasHomed, unitVars, switchVars, cmd>>

-----------------------------------------------------------------------------
\* The steps of a running on_activate that no SDK call throws out of.
ActivateStep ==
  \/ EnableNode \/ ReadySeen \/ NoHoming \/ SkipHoming \/ InitiateHoming
  \/ HomedSeen \/ EnableTimeout \/ HomingTimeout \/ FinishJoint

Lifecycle ==
  \/ OnInit \/ ActivateBegin \/ OnShutdown
  \/ \E ok \in BOOLEAN : OnConfigure(ok) \/ OnCleanup(ok)
  \/ \E last \in 0..N : OnDeactivate(last) \/ Destroy(last)

Cycle ==
  \/ \E last \in 0..N : Read(last) \/ Write(last)
  \/ \E k \in Keys : SetCommand(k)

ModeSwitch ==
  \/ \E start, stop \in SUBSET ControllerKeys : PrepareCommandModeSwitch(start, stop)
  \/ PerformCommandModeSwitch

Node == \E j \in Joints : NodeReady(j) \/ NodeFault(j) \/ HomingCompletes(j)

\* A destroyed component does nothing more.
Terminated == lc = "destroyed" /\ UNCHANGED vars

Next == ActivateStep \/ ActivateFault \/ Lifecycle \/ Cycle \/ ModeSwitch \/ Node \/ Terminated

Spec == Init /\ [][Next]_vars

\* on_activate's thread keeps running and its clock keeps advancing.
FairSpec == Spec /\ WF_vars(ActivateStep)

-----------------------------------------------------------------------------
(* Properties.                                                             *)

\* The values every variable keeps (system.hpp:73-103).
TypeOK ==
  /\ lc \in {"new", "unconfigured", "inactive", "active", "finalized", "destroyed"}
  /\ step \in Steps /\ cur \in Joints
  /\ portsOpen \in BOOLEAN /\ abandoned \in BOOLEAN
  /\ enableReq \in [Joints -> BOOLEAN] /\ ready \in [Joints -> BOOLEAN]
  /\ wasHomed \in [Joints -> BOOLEAN] /\ motion \in [Joints -> Motions]
  /\ homedBy \in [Joints -> {"unset", "kept", "run"}]
  /\ scale \in [Joints -> Nat] /\ limitScale \in [Joints -> Nat]
  /\ hwState \in [Joints -> Nat \cup {NaN}]
  /\ control_mode_ \in [Joints -> Modes]
  /\ \E n \in 0..N : start_modes_ \in [1..n -> Modes]
  /\ stop_modes_ \in [Joints -> BOOLEAN]
  /\ cmd \in [Keys -> {"NaN", "set"}]
  /\ claimed \subseteq Keys
  /\ request \in [start : SUBSET Keys, stop : SUBSET Keys]

\* Outside on_activate, an unconfigured or inactive component requests no
\* motor's enable: every way back from active or from a failed activation
\* (timeout, mnErr, deactivate cut short) either disabled them all or gave
\* up in finalized (system.cpp:311-317, 413, 419-444).
InactiveMeansDisabled ==
  lc \in {"unconfigured", "inactive"} /\ step = "idle" =>
    \A j \in Joints : ~enableReq[j] /\ motion[j] = "idle"

\* An active component holds exactly its writable motors enabled, and a
\* read-only one is neither enabled nor moved (system.cpp:304, 398-405, 504).
ActiveEnablesWritable ==
  lc = "active" =>
    \A j \in Joints : /\ enableReq[j] = ~ReadOnly[j]
                      /\ ReadOnly[j] => motion[j] = "idle"

\* When activation succeeds each joint was homed as its homing parameter
\* says (0 never, 1 unless already homed, 2 always) and no node is left in
\* the middle of a homing sequence that the first write would interrupt.
HomingHonoured ==
  lc = "active" =>
    \A j \in Joints :
      /\ motion[j] # "homing"
      /\ homedBy[j] = "kept" => Homing[j] = 1
      /\ (Homing[j] = 2 /\ HomingValid[j]) => homedBy[j] = "run"
      /\ (Homing[j] = 1 /\ HomingValid[j]) => homedBy[j] # "unset"
      /\ (Homing[j] = 0 \/ ~HomingValid[j]) => homedBy[j] = "unset"

\* Limits and commands of an active component use one conversion: the speed
\* limit in the drive is in the same counts as the moves sent to it
\* (system.cpp:374, 383, 385, 521, 533).
UnitsAgree ==
  lc = "active" => \A i, j \in Joints : limitScale[i] = scale[j]

\* The destructor leaves no motor with its enable requested unless the link
\* failed while it was disabling them, whatever state it found
\* (system.cpp:14-19).
DestroyedDisabled ==
  lc = "destroyed" /\ ~abandoned => \A j \in Joints : ~enableReq[j]

\* A command interface nobody has claimed holds NaN, so that the first
\* write for a new claimant never sends its predecessor's command
\* (system.cpp:273-277).
UnclaimedIsNaN == \A k \in Keys \ claimed : cmd[k] = "NaN"

\* With one interface claimed per joint, the control mode of each joint is
\* that of the interface claimed, and UNDEFINED when none is.
ModeMatchesClaim ==
  \A j \in Joints :
    control_mode_[j] =
      IF <<j, "velocity">> \in claimed THEN "SPEED_LOOP"
      ELSE IF <<j, "position">> \in claimed THEN "POSITION_LOOP"
      ELSE "UNDEFINED"

\* A joint starts a move only when it is writable, its component active and
\* the interface the move follows claimed and commanded (lines 497-543).
MovesAreClaimed ==
  [][\A j \in Joints : \A f \in Interfaces :
       motion[j] # f /\ motion'[j] = f =>
         lc = "active" /\ ~ReadOnly[j] /\ <<j, f>> \in claimed /\ cmd[<<j, f>>] = "set"]_vars

\* A switch that was accepted has a start mode for every joint: perform
\* never indexes start_modes_ past its end (system.cpp:260, 279).
SwitchIsComplete == request # NoRequest => Len(start_modes_) = N

\* Both interfaces of a joint are never claimed together (README.md:34).
NeverBothClaimed == \A j \in Joints : ~ (\A f \in Interfaces : <<j, f>> \in claimed)

\* vel_limit and acc_limit reach the drive in the units the README gives
\* them: converted with the resolution once (README.md:53-54).
LimitsInDeclaredUnits == lc = "active" => \A j \in Joints : limitScale[j] = 1

\* on_activate always returns, whatever the nodes do (system.cpp:307, 344).
ActivationReturns == (step # "idle") ~> (step = "idle")
-----------------------------------------------------------------------------
(* Refinement.                                                             *)

\* The component in the terms of TeknicMotors.
Phase ==
  IF step # "idle" THEN "activating"
  ELSE IF lc \in {"new", "unconfigured"} THEN "down" ELSE lc

Powered == {j \in Joints : enableReq[j]}

DoingOf(m) ==
  CASE m = "idle" -> "still" [] m = "homing" -> "homing" [] OTHER -> "commanded"
Doing == [j \in Joints |-> DoingOf(motion[j])]

Motors == INSTANCE TeknicMotors WITH
            Writable <- {j \in Joints : ~ReadOnly[j]}, phase <- Phase,
            powered <- Powered, doing <- Doing, lost <- abandoned

\* Motors are energised, homed, moved and deenergised only as TeknicMotors
\* allows, through every activation, timeout, exception and node fault
\* (system.cpp:14-19, 283-447, 497-543).
ImplementsMotors == Motors!Spec
=============================================================================
