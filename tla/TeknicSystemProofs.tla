------------------------- MODULE TeknicSystemProofs -------------------------
(***************************************************************************)
(* Theorems about TeknicSystem for every number of joints, every           *)
(* parameter the URDF can give them, and every number of activations.      *)
(***************************************************************************)
EXTENDS TeknicSystem, SequenceTheorems, TLAPS

-----------------------------------------------------------------------------
(* Types.                                                                  *)

LEMMA InitType == Init => TypeOK
<1> SUFFICES ASSUME Init PROVE TypeOK
  OBVIOUS
<1>1. 1 \in Joints /\ 0 \in 0..N /\ <<>> \in [1..0 -> Modes]
  BY NAssumption DEF Joints
<1>2. portsOpen \in BOOLEAN /\ abandoned \in BOOLEAN
  BY Zenon DEF Init
<1>3. request \in [start : SUBSET Keys, stop : SUBSET Keys]
  BY DEF Init, NoRequest
<1>4. \E n \in 0..N : start_modes_ \in [1..n -> Modes]
  BY <1>1 DEF Init
<1> QED
  BY <1>1, <1>2, <1>3, <1>4 DEF Init, TypeOK, Steps, Motions, Modes, NaN

\* A switch that was accepted and not yet performed: prepare visited every
\* joint, and nothing it looked at has changed since.
Prepared ==
  request # NoRequest =>
    /\ Requestable(request.start, request.stop)
    /\ \A j \in Joints : JointInterfaces(j, request.start) # Interfaces
    /\ start_modes_ = [j \in Joints |-> StartMode(j, request.start, request.stop)]
    /\ stop_modes_ = [j \in Joints |-> Stops(j, request.stop)]

LEMMA StartModeType ==
  ASSUME TypeOK, NEW j \in Joints, NEW start, NEW stop
  PROVE  StartMode(j, start, stop) \in Modes
  BY DEF StartMode, TypeOK, Modes

LEMMA NextType == TypeOK /\ Prepared /\ [Next]_vars => TypeOK'
<1> SUFFICES ASSUME TypeOK, Prepared, [Next]_vars PROVE TypeOK'
  OBVIOUS
<1> USE NAssumption DEF TypeOK, vars, lifeVars, loopVars, nodeVars, unitVars, switchVars
<1>1. CASE EnableNode
  BY <1>1 DEF EnableNode, Steps, Motions, Modes, Joints
<1>2. CASE ReadySeen
  BY <1>2 DEF ReadySeen, Steps, Motions, Modes, Joints
<1>3. CASE NoHoming
  BY <1>3 DEF NoHoming, Steps, Motions, Modes, Joints
<1>4. CASE SkipHoming
  BY <1>4 DEF SkipHoming, Steps, Motions, Modes, Joints
<1>5. CASE InitiateHoming
  BY <1>5 DEF InitiateHoming, Steps, Motions, Modes, Joints
<1>6. CASE HomedSeen
  BY <1>6 DEF HomedSeen, Steps, Motions, Modes, Joints
<1>7. CASE EnableTimeout
  BY <1>7 DEF EnableTimeout, ActivateError, Steps, Motions, Modes, Joints
<1>8. CASE HomingTimeout
  BY <1>8 DEF HomingTimeout, ActivateError, Steps, Motions, Modes, Joints
<1>9. CASE FinishJoint
  <2> USE <1>9 DEF FinishJoint
  <2>1. lc' \in {lc, "active"} /\ step' \in Steps /\ cur' \in Joints
    BY DEF NextJoint, Steps, Joints
  <2>2. scale' \in [Joints -> Nat] /\ limitScale' \in [Joints -> Nat]
    BY DEF Convert
  <2>3. /\ enableReq' \in [Joints -> BOOLEAN] /\ ready' \in [Joints -> BOOLEAN]
        /\ wasHomed' \in [Joints -> BOOLEAN] /\ motion' \in [Joints -> Motions]
    BY DEF DisableReadOnly, Disable, Motions
  <2> QED
    BY <2>1, <2>2, <2>3
<1>10. CASE ActivateFault
  <2> USE <1>10 DEF ActivateFault, ActivateError
  <2>1. scale' \in [Joints -> Nat]
    OBVIOUS
  <2> QED
    BY <2>1 DEF Steps
<1>11. CASE OnInit
  BY <1>11 DEF OnInit, Steps, Motions, Modes, Joints
<1>12. CASE ActivateBegin
  <2>1. 1 \in Joints
    BY DEF Joints
  <2> QED
    BY <1>12, <2>1 DEF ActivateBegin, Steps
<1>13. CASE OnShutdown
  BY <1>13 DEF OnShutdown, Steps, Motions, Modes, Joints
<1>14. ASSUME NEW ok \in BOOLEAN, OnConfigure(ok)
      PROVE  TypeOK'
  BY <1>14 DEF OnConfigure, Steps, Motions, Modes, Joints
<1>15. ASSUME NEW ok \in BOOLEAN, OnCleanup(ok)
      PROVE  TypeOK'
  BY <1>15 DEF OnCleanup, Steps, Motions, Modes, Joints
<1>16. ASSUME NEW last \in 0..N, OnDeactivate(last)
      PROVE  TypeOK'
  BY <1>16 DEF OnDeactivate, Disable, Steps, Motions, Modes, Joints
<1>17. ASSUME NEW last \in 0..N, Destroy(last)
      PROVE  TypeOK'
  BY <1>17 DEF Destroy, Disable, Steps, Motions, Modes, Joints
<1>18. ASSUME NEW last \in 0..N, Read(last)
      PROVE  TypeOK'
  BY <1>18 DEF Read, Steps, Motions, Modes, Joints
<1>19. ASSUME NEW last \in 0..N, Write(last)
      PROVE  TypeOK'
  BY <1>19 DEF Write, Moves, Steps, Motions, Modes, Joints
<1>20. ASSUME NEW k \in Keys, SetCommand(k)
      PROVE  TypeOK'
  BY <1>20 DEF SetCommand, Steps, Motions, Modes, Joints
<1>21. ASSUME NEW start \in SUBSET ControllerKeys, NEW stop \in SUBSET ControllerKeys,
             PrepareCommandModeSwitch(start, stop)
      PROVE  TypeOK'
  <2> USE <1>21 DEF PrepareCommandModeSwitch
  <2>1. PICK n \in 0..N :
          /\ start_modes_' = [j \in 1..n |-> StartMode(j, start, stop)]
          /\ stop_modes_' = [j \in Joints |-> j <= n + 1 /\ Stops(j, stop)]
          /\ request' = IF Accepted(n) THEN [start |-> start, stop |-> stop] ELSE NoRequest
    OBVIOUS
  <2>2. start_modes_' \in [1..n -> Modes]
    <3>1. \A j \in Joints : StartMode(j, start, stop) \in Modes
      BY StartModeType
    <3>2. 1..n \subseteq Joints
      BY DEF Joints
    <3> QED
      BY <2>1, <3>1, <3>2
  <2>3. stop_modes_' \in [Joints -> BOOLEAN]
    BY <2>1
  <2>4. request' \in [start : SUBSET Keys, stop : SUBSET Keys]
    BY <2>1, PolicyAssumption DEF NoRequest
  <2> QED
    BY <2>2, <2>3, <2>4
<1>22. CASE PerformCommandModeSwitch
  <2> USE <1>22 DEF PerformCommandModeSwitch
  <2>1. cmd' \in [Keys -> {"NaN", "set"}]
    BY DEF AfterSwitch
  <2>2. claimed' \subseteq Keys /\ request' \in [start : SUBSET Keys, stop : SUBSET Keys]
    BY DEF NoRequest
  <2>3. control_mode_' \in [Joints -> Modes]
    <3>1. start_modes_ = [j \in Joints |-> StartMode(j, request.start, request.stop)]
      BY DEF Prepared
    <3>2. \A j \in Joints : StartMode(j, request.start, request.stop) \in Modes
      BY StartModeType
    <3> QED
      BY <3>1, <3>2
  <2> QED
    BY <2>1, <2>2, <2>3
<1>23. ASSUME NEW j \in Joints, NodeReady(j)
      PROVE  TypeOK'
  BY <1>23 DEF NodeReady, Steps, Motions, Modes, Joints
<1>24. ASSUME NEW j \in Joints, NodeFault(j)
      PROVE  TypeOK'
  <2> USE <1>24 DEF NodeFault
  <2>1. ready' \in [Joints -> BOOLEAN]
    OBVIOUS
  <2>2. wasHomed' \in [Joints -> BOOLEAN]
    OBVIOUS
  <2>3. motion' \in [Joints -> Motions]
    BY DEF Motions
  <2> QED
    BY <2>1, <2>2, <2>3
<1>25. ASSUME NEW j \in Joints, HomingCompletes(j)
      PROVE  TypeOK'
  <2> USE <1>25 DEF HomingCompletes
  <2>1. wasHomed' \in [Joints -> BOOLEAN]
    OBVIOUS
  <2>2. motion' \in [Joints -> Motions]
    BY DEF Motions
  <2> QED
    BY <2>1, <2>2
<1>26. CASE UNCHANGED vars
  BY <1>26
<1> QED
  BY <1>1, <1>2, <1>3, <1>4, <1>5, <1>6, <1>7, <1>8, <1>9, <1>10, <1>11, <1>12, <1>13, <1>14, <1>15, <1>16, <1>17, <1>18, <1>19, <1>20, <1>21, <1>22, <1>23, <1>24, <1>25, <1>26
     DEF Next, ActivateStep, Lifecycle, Cycle, ModeSwitch, Node, Terminated

LEMMA NextPrepared == TypeOK /\ Prepared /\ [Next]_vars => Prepared'
<1> SUFFICES ASSUME TypeOK, Prepared, [Next]_vars PROVE Prepared'
  OBVIOUS
<1>1. ASSUME NEW start \in SUBSET ControllerKeys, NEW stop \in SUBSET ControllerKeys,
             PrepareCommandModeSwitch(start, stop)
      PROVE  Prepared'
  <2> USE <1>1 DEF PrepareCommandModeSwitch
  <2>1. PICK n \in 0..N :
          /\ \A j \in 1..n : JointInterfaces(j, start) # Interfaces
          /\ start_modes_' = [j \in 1..n |-> StartMode(j, start, stop)]
          /\ stop_modes_' = [j \in Joints |-> j <= n + 1 /\ Stops(j, stop)]
          /\ request' = IF Accepted(n) THEN [start |-> start, stop |-> stop] ELSE NoRequest
    OBVIOUS
  <2>2. SUFFICES ASSUME request' # NoRequest PROVE Prepared'
    BY DEF Prepared
  <2>3. n = N /\ request'.start = start /\ request'.stop = stop
    BY <2>1, <2>2 DEF Accepted
  <2>4. Requestable(start, stop)' /\ claimed' = claimed /\ control_mode_' = control_mode_
    BY DEF Requestable
  <2>5. start_modes_' = [j \in Joints |-> StartMode(j, start, stop)']
    BY <2>1, <2>3, <2>4 DEF StartMode, Joints
  <2>6. stop_modes_' = [j \in Joints |-> Stops(j, stop)]
    <3>1. \A j \in Joints : j <= n + 1
      BY <2>3, NAssumption DEF Joints
    <3>2. \A j \in Joints : (j <= n + 1 /\ Stops(j, stop)) = Stops(j, stop)
      BY <3>1, Zenon DEF Stops
    <3> QED
      BY <2>1, <3>2, Zenon
  <2> QED
    BY <2>1, <2>3, <2>4, <2>5, <2>6 DEF Prepared, Joints, StartMode, Requestable
<1>2. CASE PerformCommandModeSwitch
  BY <1>2 DEF PerformCommandModeSwitch, Prepared
<1>3. CASE UNCHANGED <<control_mode_, start_modes_, stop_modes_, claimed, request>>
  BY <1>3 DEF Prepared, StartMode, Requestable
<1> QED
  BY <1>1, <1>2, <1>3
     DEF Next, ActivateStep, EnableNode, ReadySeen, NoHoming, SkipHoming, InitiateHoming, HomedSeen,
         EnableTimeout, HomingTimeout, ActivateError, FinishJoint, ActivateFault, Lifecycle, OnInit,
         ActivateBegin, OnShutdown, OnConfigure, OnCleanup, OnDeactivate, Destroy, Cycle, Read, Write,
         SetCommand, ModeSwitch, Node, NodeReady, NodeFault, HomingCompletes, Terminated, switchVars,
         vars

LEMMA TypeInvariance == Spec => [](TypeOK /\ Prepared)
<1>1. Init => Prepared
  BY DEF Init, Prepared
<1> QED
  BY <1>1, InitType, NextType, NextPrepared, PTL DEF Spec

\* Every variable keeps its type; in particular perform_command_mode_switch
\* finds a mode in start_modes_ for every joint it assigns control_mode_ of.
THEOREM TypeCorrect == Spec => []TypeOK
  BY TypeInvariance, PTL

-----------------------------------------------------------------------------
(* The mode switch.                                                        *)

\* perform_command_mode_switch never reads start_modes_ past its end: a
\* prepare that stopped at a joint asked to start both interfaces is not
\* followed by a perform.
THEOREM SwitchComplete == Spec => []SwitchIsComplete
<1>1. TypeOK /\ Prepared => SwitchIsComplete
  <2> SUFFICES ASSUME TypeOK, Prepared, request # NoRequest
               PROVE  Len(start_modes_) = N
    BY DEF SwitchIsComplete
  <2>1. start_modes_ \in [1..N -> Modes]
    <3>1. start_modes_ = [j \in Joints |-> StartMode(j, request.start, request.stop)]
      BY DEF Prepared
    <3>2. \A j \in Joints : StartMode(j, request.start, request.stop) \in Modes
      BY StartModeType
    <3> QED
      BY <3>1, <3>2 DEF Joints
  <2>2. start_modes_ \in Seq(Modes)
    BY <2>1, NAssumption, SeqDef
  <2> QED
    BY <2>1, <2>2, NAssumption, LenProperties
<1> QED
  BY <1>1, TypeInvariance, PTL

\* A step that leaves the claims and the commands alone, sets one that is
\* claimed, or performs a switch: these are all the steps there are.
LEMMA SwitchSteps ==
  ASSUME [Next]_vars
  PROVE  \/ UNCHANGED <<control_mode_, claimed, cmd>>
         \/ \E k \in Keys : SetCommand(k)
         \/ PerformCommandModeSwitch
  BY DEF Next, ActivateStep, EnableNode, ReadySeen, NoHoming, SkipHoming, InitiateHoming, HomedSeen,
         EnableTimeout, HomingTimeout, ActivateError, FinishJoint, ActivateFault, Lifecycle, OnInit,
         ActivateBegin, OnShutdown, OnConfigure, OnCleanup, OnDeactivate, Destroy, Cycle, Read, Write,
         ModeSwitch, PrepareCommandModeSwitch, Node, NodeReady, NodeFault, HomingCompletes, Terminated,
         switchVars, vars

LEMMA NextUnclaimed ==
  ASSUME TypeOK, Prepared, UnclaimedIsNaN, [Next]_vars
  PROVE  UnclaimedIsNaN'
<1>1. CASE UNCHANGED <<control_mode_, claimed, cmd>>
  BY <1>1 DEF UnclaimedIsNaN
<1>2. ASSUME NEW k \in Keys, SetCommand(k)
      PROVE  UnclaimedIsNaN'
  BY <1>2 DEF SetCommand, UnclaimedIsNaN, switchVars, TypeOK
<1>3. CASE PerformCommandModeSwitch
  <2> SUFFICES ASSUME NEW k \in Keys, k \notin claimed'
               PROVE  cmd'[k] = "NaN"
    BY DEF UnclaimedIsNaN
  <2>1. cmd'[k] = AfterSwitch(k)
    BY <1>3 DEF PerformCommandModeSwitch
  <2>2. k \notin claimed \/ k \in request.stop
    BY <1>3 DEF PerformCommandModeSwitch
  <2>3. CASE k \notin claimed
    BY <2>1, <2>3 DEF AfterSwitch, UnclaimedIsNaN
  <2>4. CASE k \in request.stop
    <3>1. k[1] \in Joints /\ k[1] \in NameOccursIn[k[1]]
      BY NameAssumption DEF Keys
    <3>2. Stops(k[1], request.stop)
      BY <2>4, <3>1 DEF Stops
    <3>3. stop_modes_ = [j \in Joints |-> Stops(j, request.stop)]
      BY <1>3 DEF PerformCommandModeSwitch, Prepared
    <3> QED
      BY <2>1, <3>1, <3>2, <3>3 DEF AfterSwitch
  <2> QED
    BY <2>2, <2>3, <2>4
<1> QED
  BY <1>1, <1>2, <1>3, SwitchSteps

\* The inductive invariant of the mode switch.
LEMMA SwitchInvariance == Spec => [](TypeOK /\ Prepared /\ UnclaimedIsNaN)
<1>1. Init => UnclaimedIsNaN
  BY DEF Init, UnclaimedIsNaN
<1>2. TypeOK /\ Prepared /\ UnclaimedIsNaN /\ [Next]_vars => UnclaimedIsNaN'
  BY NextUnclaimed
<1> QED
  BY <1>1, <1>2, TypeInvariance, PTL DEF Spec

\* Whatever controllers start and stop, and however names overlap, a command
\* interface that nobody has claimed holds NaN.
THEOREM UnclaimedCommands == Spec => []UnclaimedIsNaN
  BY SwitchInvariance, PTL

\* No joint starts a move but an active component's writable one whose
\* interface is claimed and commanded.
THEOREM MovesClaimed == Spec => MovesAreClaimed
<1> DEFINE Claimed ==
      \A j \in Joints : \A f \in Interfaces :
        motion[j] # f /\ motion'[j] = f =>
          lc = "active" /\ ~ReadOnly[j] /\ <<j, f>> \in claimed /\ cmd[<<j, f>>] = "set"
<1>1. TypeOK /\ UnclaimedIsNaN /\ [Next]_vars => [Claimed]_vars
  <2> SUFFICES ASSUME TypeOK, UnclaimedIsNaN, Next, NEW j \in Joints, NEW f \in Interfaces,
                      motion[j] # f, motion'[j] = f
               PROVE  lc = "active" /\ ~ReadOnly[j] /\ <<j, f>> \in claimed /\ cmd[<<j, f>>] = "set"
    BY DEF vars
  <2>1. ASSUME NEW last \in 0..N, Write(last)
        PROVE  lc = "active" /\ ~ReadOnly[j] /\ <<j, f>> \in claimed /\ cmd[<<j, f>>] = "set"
    <3>1. lc = "active" /\ Moves(j, f)
      BY <2>1 DEF Write, Interfaces
    <3>2. <<j, f>> \in Keys
      BY DEF Keys
    <3> QED
      BY <3>1, <3>2 DEF Moves, UnclaimedIsNaN, TypeOK
  <2>2. CASE motion' = motion
    BY <2>2
  <2>3. CASE \A i \in Joints : motion'[i] \in {motion[i], "idle", "homing"}
    BY <2>3 DEF Interfaces
  <2>4. (\E D \in SUBSET Joints : Disable(D)) => \A i \in Joints : motion'[i] \in {motion[i], "idle"}
    BY DEF Disable
  <2>5. ASSUME NEW last \in 0..N, OnDeactivate(last) \/ Destroy(last)
        PROVE  \A i \in Joints : motion'[i] \in {motion[i], "idle"}
    <3>1. 1..last \in SUBSET Joints
      BY NAssumption DEF Joints
    <3> QED
      BY <2>4, <2>5, <3>1 DEF OnDeactivate, Destroy
  <2>6. FinishJoint => \A i \in Joints : motion'[i] \in {motion[i], "idle"}
    <3>1. {cur} \in SUBSET Joints
      BY DEF TypeOK
    <3> QED
      BY <2>4, <3>1 DEF FinishJoint, DisableReadOnly, nodeVars
  <2>7. InitiateHoming \/ (\E i \in Joints : NodeFault(i) \/ HomingCompletes(i))
          => \A i \in Joints : motion'[i] \in {motion[i], "idle", "homing"}
    BY DEF InitiateHoming, NodeFault, HomingCompletes, TypeOK
  <2>8. \/ motion' = motion
        \/ FinishJoint \/ InitiateHoming
        \/ \E last \in 0..N : Write(last) \/ OnDeactivate(last) \/ Destroy(last)
        \/ \E i \in Joints : NodeFault(i) \/ HomingCompletes(i)
    BY DEF Next, ActivateStep, EnableNode, ReadySeen, NoHoming, SkipHoming, HomedSeen,
           EnableTimeout, HomingTimeout, ActivateError, ActivateFault, Lifecycle, OnInit,
           ActivateBegin, OnShutdown, OnConfigure, OnCleanup, Cycle, Read, SetCommand,
           ModeSwitch, PrepareCommandModeSwitch, PerformCommandModeSwitch, Node, NodeReady,
           Terminated, nodeVars, vars
  <2> QED
    BY <2>1, <2>2, <2>3, <2>5, <2>6, <2>7, <2>8
<1> QED
  BY <1>1, SwitchInvariance, PTL DEF Spec, MovesAreClaimed

\* Each claim of a joint is exclusive and its control mode follows it.
Exclusive == NeverBothClaimed /\ ModeMatchesClaim

LEMMA NextExclusive ==
  ASSUME ~SequentialClaims, \A j \in Joints : NameOccursIn[j] = {j},
         TypeOK, Prepared, Exclusive, [Next]_vars
  PROVE  Exclusive'
<1>1. CASE UNCHANGED <<control_mode_, claimed, cmd>>
  BY <1>1 DEF Exclusive, NeverBothClaimed, ModeMatchesClaim
<1>2. ASSUME NEW k \in Keys, SetCommand(k)
      PROVE  Exclusive'
  BY <1>2 DEF SetCommand, Exclusive, NeverBothClaimed, ModeMatchesClaim, switchVars
<1>3. CASE PerformCommandModeSwitch
  <2> DEFINE start == request.start
             stop == request.stop
             v(j) == <<j, "velocity">>
             p(j) == <<j, "position">>
  <2>1. start \subseteq Keys /\ stop \subseteq Keys
    BY DEF TypeOK
  <2>2. Requestable(start, stop) /\ \A j \in Joints : JointInterfaces(j, start) # Interfaces
    BY <1>3 DEF PerformCommandModeSwitch, Prepared
  <2>3. claimed' = (claimed \ stop) \cup start
    BY <1>3 DEF PerformCommandModeSwitch
  <2>4. SUFFICES ASSUME NEW j \in Joints
                 PROVE  /\ ~ (v(j) \in claimed' /\ p(j) \in claimed')
                        /\ control_mode_'[j] = IF v(j) \in claimed' THEN "SPEED_LOOP"
                                               ELSE IF p(j) \in claimed' THEN "POSITION_LOOP"
                                               ELSE "UNDEFINED"
    BY DEF Exclusive, NeverBothClaimed, ModeMatchesClaim, Interfaces
  <2>5. control_mode_'[j] = StartMode(j, start, stop)
    BY <1>3 DEF PerformCommandModeSwitch, Prepared
  <2>6. ~ (v(j) \in claimed /\ p(j) \in claimed)
    BY DEF Exclusive, NeverBothClaimed, Interfaces
  <2>7. control_mode_[j] = IF v(j) \in claimed THEN "SPEED_LOOP"
                           ELSE IF p(j) \in claimed THEN "POSITION_LOOP"
                           ELSE "UNDEFINED"
    BY DEF Exclusive, ModeMatchesClaim
  <2>8. \A k \in Keys : k[1] \in NameOccursIn[j] <=> k \in {v(j), p(j)}
    <3>1. \A k \in Keys : k = <<k[1], k[2]>> /\ k[2] \in {"velocity", "position"}
      BY DEF Keys, Interfaces
    <3>2. NameOccursIn[j] = {j}
      OBVIOUS
    <3> QED
      BY <3>1, <3>2
  <2>9. JointInterfaces(j, start) = {k[2] : k \in start \cap {v(j), p(j)}}
    BY <2>1, <2>8 DEF JointInterfaces
  <2>10. Stops(j, stop) <=> (v(j) \in stop \/ p(j) \in stop)
    BY <2>1, <2>8 DEF Stops
  <2>11. /\ stop \subseteq claimed
         /\ \A s \in start : \A k \in claimed \ stop : s[1] # k[1]
    BY <2>2 DEF Requestable
  <2>12. v(j) \in start \/ p(j) \in start => v(j) \notin claimed \ stop /\ p(j) \notin claimed \ stop
    BY <2>11
  <2>13. JointInterfaces(j, start) # Interfaces
    BY <2>2
  <2>14. ~ (v(j) \in start /\ p(j) \in start)
    <3>1. v(j) \in start /\ p(j) \in start => JointInterfaces(j, start) = {v(j)[2], p(j)[2]}
      BY <2>9
    <3> QED
      BY <2>13, <3>1 DEF Interfaces
  <2>15. CASE v(j) \in start
    <3>1. JointInterfaces(j, start) = {"velocity"}
      BY <2>9, <2>14, <2>15
    <3> QED
      BY <2>3, <2>5, <2>12, <2>14, <2>15, <3>1 DEF StartMode
  <2>16. CASE p(j) \in start
    <3>1. JointInterfaces(j, start) = {"position"}
      BY <2>9, <2>14, <2>16
    <3> QED
      BY <2>3, <2>5, <2>12, <2>14, <2>16, <3>1 DEF StartMode
  <2>17. CASE v(j) \notin start /\ p(j) \notin start
    <3>1. JointInterfaces(j, start) = {}
      BY <2>9, <2>17
    <3>2. control_mode_'[j] = IF Stops(j, stop) THEN "UNDEFINED" ELSE control_mode_[j]
      BY <2>5, <3>1 DEF StartMode
    <3>3. v(j) \in claimed' <=> v(j) \in claimed \ stop
      BY <2>3, <2>17
    <3>4. p(j) \in claimed' <=> p(j) \in claimed \ stop
      BY <2>3, <2>17
    <3>5. CASE v(j) \in stop \/ p(j) \in stop
      BY <2>6, <2>10, <2>11, <3>2, <3>3, <3>4, <3>5
    <3>6. CASE v(j) \notin stop /\ p(j) \notin stop
      BY <2>6, <2>7, <2>10, <3>2, <3>3, <3>4, <3>6
    <3> QED
      BY <3>5, <3>6
  <2> QED
    BY <2>15, <2>16, <2>17
<1> QED
  BY <1>1, <1>2, <1>3, SwitchSteps

\* Where no second controller takes a joint's other interface and no joint's
\* name occurs in another's, the mode of a joint is that of its claim, and
\* README.md:34 holds: without these two assumptions it does not.
THEOREM ModeFollowsClaim ==
  ASSUME ~SequentialClaims, \A j \in Joints : NameOccursIn[j] = {j}
  PROVE  Spec => [](NeverBothClaimed /\ ModeMatchesClaim)
<1>1. Init => Exclusive
  BY DEF Init, Exclusive, NeverBothClaimed, ModeMatchesClaim, Interfaces
<1>2. TypeOK /\ Prepared /\ Exclusive /\ [Next]_vars => Exclusive'
  BY NextExclusive
<1> QED
  BY <1>1, <1>2, TypeInvariance, PTL DEF Spec, Exclusive
=============================================================================
