----------------------- MODULE TeknicLifecycleProofs -----------------------
(***************************************************************************)
(* Theorems about the lifecycle of TeknicSystem, for every number of       *)
(* joints, all their parameters and every number of activations.           *)
(*                                                                         *)
(* None of its properties is inductive: what on_activate has done to the   *)
(* joints before cur, and has not yet done to those from cur on, is        *)
(* (LoopOK), with what a node can be doing by itself (NodesOK).            *)
(***************************************************************************)
EXTENDS TeknicSystemProofs

\* A node moves only while it is ready, is ready only while its enable is
\* requested, and is not homed while it is homing.
NodesOK ==
  \A j \in Joints : /\ ready[j] => enableReq[j]
                    /\ motion[j] # "idle" => ready[j]
                    /\ motion[j] = "homing" => ~wasHomed[j]

\* The homing parameter of joint j has been honoured by this activation.
HomedOK(j) ==
  /\ homedBy[j] = "kept" => Homing[j] = 1
  /\ (Homing[j] = 2 /\ HomingValid[j]) => homedBy[j] = "run"
  /\ (Homing[j] = 1 /\ HomingValid[j]) => homedBy[j] # "unset"
  /\ (Homing[j] = 0 \/ ~HomingValid[j]) => homedBy[j] = "unset"

\* Joint j is as on_activate leaves it.
DoneOK(j) == (enableReq[j] <=> ~ReadOnly[j]) /\ HomedOK(j)

\* What holds of the joints while on_activate is at joint cur.
LoopOK ==
  step # "idle" =>
    /\ lc = "inactive"
    /\ \A j \in Joints : j < cur => DoneOK(j)
    /\ enableReq[cur] <=> step # "enable"
    /\ IF step = "finish" THEN HomedOK(cur) ELSE homedBy[cur] = "unset"
    /\ step = "waitHomed" => Homing[cur] # 0 /\ HomingValid[cur]
    /\ \A j \in Joints : j > cur => ~enableReq[j] /\ homedBy[j] = "unset"
    /\ \A j \in Joints :
         motion[j] = "idle" \/ (j = cur /\ step = "waitHomed" /\ motion[j] = "homing")

\* Nothing is enabled at rest, whatever is to be enabled when active.
RestOK ==
  /\ lc \in {"new", "unconfigured", "inactive"} /\ step = "idle" => \A j \in Joints : ~enableReq[j]
  /\ lc = "active" => \A j \in Joints : DoneOK(j) /\ motion[j] # "homing"

\* The ports are open while there is something to disable through them.
PortsOK ==
  /\ lc \in {"inactive", "active"} => portsOpen
  /\ ~portsOpen /\ lc # "destroyed" => \A j \in Joints : ~enableReq[j]

LifeInv == NodesOK /\ LoopOK /\ RestOK /\ PortsOK /\ DestroyedDisabled

\* A read-only joint is disabled after its homing, and no other joint is.
LEMMA DisabledAgain ==
  ASSUME TypeOK, DisableReadOnly
  PROVE  /\ \A j \in Joints : ~(j = cur /\ ReadOnly[j]) =>
              enableReq'[j] = enableReq[j] /\ ready'[j] = ready[j]
         /\ ReadOnly[cur] => ~enableReq'[cur] /\ ~ready'[cur]
         /\ \A j \in Joints : motion[j] = "idle" => motion'[j] = "idle"
         /\ wasHomed' = wasHomed
<1>1. CASE ~ReadOnly[cur]
  BY <1>1 DEF DisableReadOnly, nodeVars
<1>2. CASE ReadOnly[cur]
  <2>1. Disable({cur})
    BY <1>2 DEF DisableReadOnly
  <2>2. \A j \in Joints : j # cur => enableReq'[j] = enableReq[j] /\ ready'[j] = ready[j]
    BY <2>1 DEF Disable, TypeOK
  <2>3. ~enableReq'[cur] /\ ~ready'[cur]
    BY <2>1 DEF Disable, TypeOK
  <2>4. (\A j \in Joints : motion[j] = "idle" => motion'[j] = "idle") /\ wasHomed' = wasHomed
    BY <2>1 DEF Disable
  <2> QED
    BY <1>2, <2>2, <2>3, <2>4
<1> QED
  BY <1>1, <1>2
\* Init and every step keep the lifecycle's invariant.
LEMMA NextLife == TypeOK /\ LifeInv /\ [Next]_vars => LifeInv'
<1> SUFFICES ASSUME TypeOK, LifeInv, [Next]_vars PROVE LifeInv'
  OBVIOUS
<1> USE NAssumption, ParamAssumption
        DEF LifeInv, NodesOK, LoopOK, RestOK, PortsOK, DestroyedDisabled, DoneOK, HomedOK, TypeOK,
            Joints, lifeVars, loopVars, nodeVars
<1>1. CASE EnableNode
  BY <1>1 DEF EnableNode
<1>2. CASE ReadySeen
  BY <1>2 DEF ReadySeen
<1>3. CASE NoHoming
  BY <1>3 DEF NoHoming
<1>4. CASE SkipHoming
  BY <1>4 DEF SkipHoming, KeepsHome
<1>5. CASE InitiateHoming
  BY <1>5 DEF InitiateHoming, KeepsHome
<1>6. CASE HomedSeen
  <2> USE <1>6 DEF HomedSeen
  <2>1. motion[cur] = "idle" /\ Homing[cur] # 0 /\ HomingValid[cur]
    OBVIOUS
  <2>2. HomedOK(cur)'
    OBVIOUS
  <2>3. LoopOK'
    BY <2>1, <2>2
  <2> QED
    BY <2>3
<1>7. CASE EnableTimeout
  BY <1>7 DEF EnableTimeout, ActivateError
<1>8. CASE HomingTimeout
  BY <1>8 DEF HomingTimeout, ActivateError
<1>9. CASE FinishJoint
  <2> USE <1>9 DEF FinishJoint
  <2>1. /\ \A j \in Joints : ~(j = cur /\ ReadOnly[j]) =>
             enableReq'[j] = enableReq[j] /\ ready'[j] = ready[j]
        /\ ReadOnly[cur] => ~enableReq'[cur] /\ ~ready'[cur]
        /\ \A j \in Joints : motion'[j] = "idle"
        /\ wasHomed' = wasHomed
    BY DisabledAgain
  <2>2. NodesOK'
    BY <2>1
  <2>3. \A j \in Joints : j <= cur => DoneOK(j)'
    BY <2>1
  <2>4. PortsOK' /\ DestroyedDisabled'
    BY DEF NextJoint
  <2>5. CASE cur < N
    <3>1. step' = "enable" /\ cur' = cur + 1 /\ lc' = lc
      BY <2>5 DEF NextJoint
    <3>2. \A j \in Joints : j > cur => ~enableReq'[j] /\ homedBy'[j] = "unset"
      BY <2>1
    <3>3. LoopOK' /\ RestOK'
      BY <2>1, <2>3, <2>5, <3>1, <3>2
    <3> QED
      BY <2>2, <2>4, <3>3
  <2>6. CASE cur = N
    <3>1. step' = "idle" /\ lc' = "active"
      BY <2>6 DEF NextJoint
    <3>2. LoopOK' /\ RestOK'
      BY <2>1, <2>3, <2>6, <3>1
    <3> QED
      BY <2>2, <2>4, <3>2
  <2> QED
    BY <2>5, <2>6
<1>10. CASE ActivateFault
  BY <1>10 DEF ActivateFault, ActivateError
<1>11. CASE OnInit
  BY <1>11 DEF OnInit
<1>12. CASE ActivateBegin
  BY <1>12 DEF ActivateBegin
<1>13. CASE OnShutdown
  BY <1>13 DEF OnShutdown
<1>14. ASSUME NEW ok \in BOOLEAN, OnConfigure(ok)
      PROVE  LifeInv'
  BY <1>14 DEF OnConfigure
<1>15. ASSUME NEW ok \in BOOLEAN, OnCleanup(ok)
      PROVE  LifeInv'
  BY <1>15 DEF OnCleanup
<1>16. ASSUME NEW last \in 0..N, OnDeactivate(last)
      PROVE  LifeInv'
  BY <1>16 DEF OnDeactivate, Disable
<1>17. ASSUME NEW last \in 0..N, Destroy(last)
      PROVE  LifeInv'
  BY <1>17 DEF Destroy, Disable
<1>18. ASSUME NEW last \in 0..N, Read(last)
      PROVE  LifeInv'
  <2> USE <1>18 DEF Read
  <2>1. UNCHANGED <<step, cur, homedBy, portsOpen, abandoned, enableReq, ready, wasHomed, motion>>
    OBVIOUS
  <2>2. lc' \in {lc, "finalized"} /\ lc \in {"inactive", "active"} /\ step = "idle"
    BY DEF Available
  <2> QED
    BY <2>1, <2>2
<1>19. ASSUME NEW last \in 0..N, Write(last)
      PROVE  LifeInv'
  BY <1>19 DEF Write
<1>20. ASSUME NEW j \in Joints, NodeReady(j)
      PROVE  LifeInv'
  BY <1>20 DEF NodeReady
<1>21. ASSUME NEW j \in Joints, NodeFault(j)
      PROVE  LifeInv'
  BY <1>21 DEF NodeFault
<1>22. ASSUME NEW j \in Joints, HomingCompletes(j)
      PROVE  LifeInv'
  BY <1>22 DEF HomingCompletes
<1>23. CASE UNCHANGED <<lifeVars, loopVars, nodeVars>>
  BY <1>23
<1>24. ASSUME \/ \E k \in Keys : SetCommand(k)
              \/ \E start, stop \in SUBSET ControllerKeys : PrepareCommandModeSwitch(start, stop)
              \/ PerformCommandModeSwitch
              \/ Terminated \/ UNCHANGED vars
       PROVE  UNCHANGED <<lifeVars, loopVars, nodeVars>>
  BY <1>24 DEF SetCommand, PrepareCommandModeSwitch, PerformCommandModeSwitch, Terminated, vars
<1> QED
  BY <1>1, <1>2, <1>3, <1>4, <1>5, <1>6, <1>7, <1>8, <1>9, <1>10, <1>11, <1>12, <1>13, <1>14,
     <1>15, <1>16, <1>17, <1>18, <1>19, <1>20, <1>21, <1>22, <1>23, <1>24
     DEF Next, ActivateStep, Lifecycle, Cycle, ModeSwitch, Node

LEMMA LifeInvariance == Spec => [](TypeOK /\ LifeInv)
<1>1. Init => LifeInv
  BY DEF Init, LifeInv, NodesOK, LoopOK, RestOK, PortsOK, DestroyedDisabled
<1>2. TypeOK /\ LifeInv /\ [Next]_vars => LifeInv'
  BY NextLife
<1> QED
  BY <1>1, <1>2, TypeInvariance, PTL DEF Spec

\* Between callbacks an inactive component has no motor enabled, however its
\* last activation or deactivation ended.
THEOREM InactiveDisabled == Spec => []InactiveMeansDisabled
<1>1. LifeInv => InactiveMeansDisabled
  BY DEF LifeInv, NodesOK, RestOK, InactiveMeansDisabled
<1> QED
  BY <1>1, LifeInvariance, PTL

\* An active component has enabled exactly its writable motors, although
\* every read-only one was enabled for its homing.
THEOREM ActiveEnabled == Spec => []ActiveEnablesWritable
<1>1. TypeOK /\ LifeInv => ActiveEnablesWritable
  BY ParamAssumption DEF LifeInv, NodesOK, RestOK, DoneOK, ActiveEnablesWritable, TypeOK
<1> QED
  BY <1>1, LifeInvariance, PTL

\* Every joint of an active component was homed as its parameter says, in
\* this activation, and none is still homing.
THEOREM HomingDone == Spec => []HomingHonoured
<1>1. LifeInv => HomingHonoured
  BY DEF LifeInv, RestOK, DoneOK, HomedOK, HomingHonoured
<1> QED
  BY <1>1, LifeInvariance, PTL

\* The destructor leaves no motor enabled unless the link failed under it.
THEOREM DestructorDisables == Spec => []DestroyedDisabled
<1>1. LifeInv => DestroyedDisabled
  BY DEF LifeInv
<1> QED
  BY <1>1, LifeInvariance, PTL

-----------------------------------------------------------------------------
(* Units.                                                                  *)

\* Every joint has been converted equally often; on_activate is one ahead on
\* the joints before cur, whose limits it has set.  (A conversion cut short
\* by an mnErr ends in finalized, where nothing is promised.)
UnitInv ==
  /\ lc \in {"new", "unconfigured", "inactive", "active"} /\ step = "idle" =>
       \A i, j \in Joints : scale[i] = scale[j]
  /\ step # "idle" =>
       /\ \A i, j \in Joints : (i < cur <=> j < cur) => scale[i] = scale[j]
       /\ \A i, j \in Joints : i < cur /\ j >= cur => scale[i] = scale[j] + 1
       /\ \A i \in Joints : i < cur => limitScale[i] = scale[i]
  /\ lc = "active" => \A i \in Joints : limitScale[i] = scale[i]

LEMMA NextUnits == TypeOK /\ LifeInv /\ UnitInv /\ [Next]_vars => UnitInv'
<1> SUFFICES ASSUME TypeOK, LifeInv, UnitInv, [Next]_vars PROVE UnitInv'
  OBVIOUS
<1>0. step # "idle" => lc = "inactive"
  BY DEF LifeInv, LoopOK
<1> USE NAssumption DEF UnitInv, TypeOK, Joints
<1>1. CASE FinishJoint
  <2> USE <1>1, <1>0 DEF FinishJoint
  <2>1. /\ \A i \in Joints : scale'[i] = IF i = cur THEN scale[i] + 1 ELSE scale[i]
        /\ \A i \in Joints : limitScale'[i] = IF i = cur THEN scale[i] + 1 ELSE limitScale[i]
    BY DEF Convert
  <2>2. /\ cur \in Joints
        /\ \A i \in Joints : i < cur => scale[i] = scale[cur] + 1 /\ limitScale[i] = scale[i]
        /\ \A i \in Joints : i > cur => scale[i] = scale[cur]
    OBVIOUS
  <2>3. /\ \A i \in Joints : i <= cur => scale'[i] = scale[cur] + 1 /\ limitScale'[i] = scale'[i]
        /\ \A i \in Joints : i > cur => scale'[i] = scale[cur]
    <3> SUFFICES ASSUME NEW i \in Joints
                 PROVE  /\ i <= cur => scale'[i] = scale[cur] + 1 /\ limitScale'[i] = scale'[i]
                        /\ i > cur => scale'[i] = scale[cur]
      OBVIOUS
    <3>1. CASE i < cur
      BY <2>1, <2>2, <3>1
    <3>2. CASE i = cur
      BY <2>1, <3>2
    <3>3. CASE i > cur
      BY <2>1, <2>2, <3>3
    <3> QED
      BY <3>1, <3>2, <3>3
  <2>4. CASE cur < N
    <3>1. step' = "enable" /\ cur' = cur + 1 /\ lc' = "inactive"
      BY <2>4 DEF NextJoint
    <3>2. \A i \in Joints : i < cur' <=> i <= cur
      BY <3>1
    <3> HIDE <1>1 DEF TypeOK, FinishJoint
    <3> QED
      BY <2>2, <2>3, <3>1, <3>2
  <2>5. CASE cur = N
    <3>1. step' = "idle" /\ lc' = "active"
      BY <2>5 DEF NextJoint
    <3>2. \A i \in Joints : i <= cur
      BY <2>5
    <3> QED
      BY <2>3, <3>1, <3>2
  <2>6. cur < N \/ cur = N
    OBVIOUS
  <2> QED
    BY <2>4, <2>5, <2>6
<1>2. CASE ActivateBegin
  BY <1>2 DEF ActivateBegin, lifeVars, unitVars
<1>3. CASE EnableTimeout \/ HomingTimeout \/ ActivateFault
  BY <1>3 DEF EnableTimeout, HomingTimeout, ActivateFault, ActivateError
<1>4. CASE EnableNode \/ ReadySeen \/ NoHoming \/ SkipHoming \/ InitiateHoming \/ HomedSeen
  <2>1. UNCHANGED <<lc, cur, scale, limitScale>> /\ step # "idle" /\ step' # "idle"
    BY <1>4 DEF EnableNode, ReadySeen, NoHoming, SkipHoming, InitiateHoming, HomedSeen,
                lifeVars, unitVars
  <2> QED
    BY <1>0, <2>1
<1>5. CASE OnInit \/ OnShutdown \/ (\E ok \in BOOLEAN : OnConfigure(ok) \/ OnCleanup(ok))
  <2>1. UNCHANGED <<step, cur, scale, limitScale>> /\ lc' # "active" /\ lc # "finalized" /\ lc # "destroyed"
    BY <1>5 DEF OnInit, OnShutdown, OnConfigure, OnCleanup, loopVars, unitVars
  <2> QED
    BY <2>1
<1>6. ASSUME NEW last \in 0..N, OnDeactivate(last) \/ Destroy(last) \/ Read(last) \/ Write(last)
      PROVE  UnitInv'
  <2>1. /\ UNCHANGED <<step, cur, scale, limitScale>>
        /\ lc' \in {lc, "finalized", "destroyed"} \/ (lc = "active" /\ lc' = "inactive")
    BY <1>6 DEF OnDeactivate, Destroy, Read, Write, loopVars, unitVars
  <2> QED
    BY <1>0, <2>1
<1>7. CASE UNCHANGED <<lc, step, cur, scale, limitScale>>
  BY <1>7
<1>8. ASSUME \/ \E k \in Keys : SetCommand(k)
             \/ \E start, stop \in SUBSET ControllerKeys : PrepareCommandModeSwitch(start, stop)
             \/ PerformCommandModeSwitch
             \/ \E j \in Joints : NodeReady(j) \/ NodeFault(j) \/ HomingCompletes(j)
             \/ Terminated \/ UNCHANGED vars
      PROVE  UNCHANGED <<lc, step, cur, scale, limitScale>>
  BY <1>8 DEF SetCommand, PrepareCommandModeSwitch, PerformCommandModeSwitch, NodeReady, NodeFault,
              HomingCompletes, Terminated, vars, lifeVars, loopVars, unitVars
<1> QED
  BY <1>1, <1>2, <1>3, <1>4, <1>5, <1>6, <1>7, <1>8
     DEF Next, ActivateStep, Lifecycle, Cycle, ModeSwitch, Node

\* Limits and commands of an active component use the same conversion on
\* every joint, after any number of activations.
THEOREM UnitsAgreeAlways == Spec => []UnitsAgree
<1>1. Init => UnitInv
  BY DEF Init, UnitInv
<1>2. TypeOK /\ LifeInv /\ UnitInv /\ [Next]_vars => UnitInv'
  BY NextUnits
<1>3. LifeInv /\ UnitInv => UnitsAgree
  BY DEF LifeInv, LoopOK, UnitInv, UnitsAgree
<1> QED
  BY <1>1, <1>2, <1>3, LifeInvariance, PTL DEF Spec
-----------------------------------------------------------------------------
(* TeknicSystem implements TeknicMotors.                                   *)

\* Whatever leaves the motors' state alone leaves their image alone.
LEMMA MotorsSame == UNCHANGED nodeVars => UNCHANGED <<Powered, Doing>>
BY DEF nodeVars, Powered, Doing

\* Steps that change no more than the values moved about are invisible.
LEMMA MotorsStutter ==
  ASSUME UNCHANGED <<lc, abandoned, nodeVars>>, step = "idle" <=> step' = "idle"
  PROVE  UNCHANGED Motors!motorVars
BY MotorsSame DEF Motors!motorVars, Phase

\* While on_activate is at joint cur, the joints energised are the writable
\* ones before it, and cur itself once it has been enabled.
LEMMA LoopPowered ==
  ASSUME TypeOK, LifeInv, step # "idle"
  PROVE  /\ step = "enable" => Powered = Motors!Done(cur)
         /\ step # "enable" => Powered = Motors!Done(cur) \cup {cur}
<1> USE NAssumption DEF LifeInv, LoopOK, DoneOK, TypeOK, Joints, Powered, Motors!Done
<1>1. /\ cur \in 1..N
      /\ \A j \in 1..N : j < cur => (enableReq[j] <=> ~ReadOnly[j])
      /\ \A j \in 1..N : j > cur => ~enableReq[j]
      /\ enableReq[cur] <=> step # "enable"
  OBVIOUS
<1>2. \A j \in 1..N : j < cur \/ j = cur \/ j > cur
  BY <1>1
<1>3. CASE step = "enable"
  BY <1>1, <1>2, <1>3
<1>4. CASE step # "enable"
  BY <1>1, <1>2, <1>4
<1> QED
  BY <1>3, <1>4

\* No joint moves while on_activate is not waiting for one to home.
LEMMA LoopStill ==
  ASSUME TypeOK, LifeInv, step # "idle", step # "waitHomed"
  PROVE  Motors!Still
BY DEF LifeInv, LoopOK, Motors!Still, Motors!Joints, Joints, Doing, DoingOf

\* Disabling nodes deenergises and stops exactly those.
LEMMA DisablePowersOff ==
  ASSUME TypeOK, NEW D \in SUBSET Joints, Disable(D)
  PROVE  Motors!PowerOff(D)
<1> USE DEF TypeOK, Disable, Motors!Joints, Joints
<1>1. Powered' = Powered \ D
  BY DEF Powered
<1>2. Doing' = [j \in 1..N |-> IF j \in D THEN "still" ELSE Doing[j]]
  BY DEF Doing, DoingOf
<1> QED
  BY <1>1, <1>2 DEF Motors!PowerOff

\* The steps of on_activate.
LEMMA ActivateMotors ==
  ASSUME TypeOK, LifeInv, ActivateStep \/ ActivateFault
  PROVE  [Motors!Next]_(Motors!motorVars)
<1>0. (step # "idle" => lc = "inactive") /\ cur \in Joints /\ cur \in Motors!Joints
  BY DEF LifeInv, LoopOK, TypeOK, Joints, Motors!Joints
<1>1. CASE EnableNode
  <2> USE <1>1 DEF EnableNode
  <2>1. Powered = Motors!Done(cur) /\ Motors!Still
    BY LoopPowered, LoopStill
  <2>2. Powered' = Powered \cup {cur}
    BY <1>0 DEF Powered, TypeOK
  <2>3. Phase = "activating" /\ UNCHANGED <<Phase, Doing, abandoned>>
    BY DEF Phase, Doing, lifeVars
  <2>4. Motors!Enable(cur)
    BY <2>1, <2>2, <2>3 DEF Motors!Enable
  <2> QED
    BY <1>0, <2>4 DEF Motors!Next
<1>2. CASE InitiateHoming
  <2> USE <1>2 DEF InitiateHoming
  <2>1. Powered = Motors!Done(cur) \cup {cur} /\ Motors!Still
    BY LoopPowered, LoopStill
  <2>2. Phase = "activating" /\ UNCHANGED <<Phase, Powered, abandoned>>
    BY DEF Phase, Powered, lifeVars
  <2>3. motion[cur] = "idle"
    BY <1>0 DEF LifeInv, LoopOK
  <2>4. CASE ready[cur]
    <3>1. Doing' = [Doing EXCEPT ![cur] = "homing"]
      BY <1>0, <2>4 DEF Doing, DoingOf, TypeOK
    <3>2. Motors!Home(cur)
      BY <2>1, <2>2, <3>1 DEF Motors!Home
    <3> QED
      BY <1>0, <3>2 DEF Motors!Next
  <2>5. CASE ~ready[cur]
    <3>1. motion' = motion
      BY <2>3, <2>5 DEF TypeOK
    <3> QED
      BY <2>2, <3>1 DEF Motors!motorVars, Doing
  <2> QED
    BY <2>4, <2>5
<1>3. CASE FinishJoint
  <2> USE <1>3 DEF FinishJoint
  <2>1. Powered = Motors!Done(cur) \cup {cur} /\ Motors!Still
    BY LoopPowered, LoopStill
  <2>2. /\ \A j \in Joints : ~(j = cur /\ ReadOnly[j]) => enableReq'[j] = enableReq[j]
        /\ ReadOnly[cur] => ~enableReq'[cur]
        /\ \A j \in Joints : motion'[j] = "idle" /\ motion[j] = "idle"
    BY DisabledAgain DEF LifeInv, LoopOK
  <2>3. Doing' = Doing /\ abandoned' = abandoned
    BY <2>2 DEF Doing
  <2>4. Powered' = Motors!Done(cur + 1)
    <3>1. \A j \in Joints : enableReq'[j] <=> ~ReadOnly[j] /\ j < cur + 1
      <4> SUFFICES ASSUME NEW j \in Joints
                   PROVE  enableReq'[j] <=> ~ReadOnly[j] /\ j < cur + 1
        OBVIOUS
      <4>1. CASE j < cur
        <5>1. enableReq[j] <=> ~ReadOnly[j]
          BY <4>1 DEF LifeInv, LoopOK, DoneOK
        <5> QED
          BY <1>0, <2>2, <4>1, <5>1 DEF Joints
      <4>2. CASE j = cur
        <5>1. enableReq[cur]
          BY DEF LifeInv, LoopOK
        <5> QED
          BY <1>0, <2>2, <4>2, <5>1 DEF Joints
      <4>3. CASE j > cur
        <5>1. ~enableReq[j]
          BY <4>3 DEF LifeInv, LoopOK
        <5> QED
          BY <1>0, <2>2, <4>3, <5>1 DEF Joints
      <4> QED
        BY <1>0, <4>1, <4>2, <4>3 DEF Joints
    <3> QED
      BY <3>1 DEF Powered, Motors!Done
  <2>5. Phase = "activating" /\ Phase' = IF cur = N THEN "active" ELSE "activating"
    BY <1>0, NAssumption DEF Phase, NextJoint, Joints
  <2>6. Motors!Finish(cur)
    BY <2>1, <2>3, <2>4, <2>5 DEF Motors!Finish, Motors!Goes
  <2> QED
    BY <1>0, <2>6 DEF Motors!Next
<1>4. CASE EnableTimeout \/ HomingTimeout \/ ActivateFault
  <2>1. step # "idle" /\ ActivateError
    BY <1>4 DEF EnableTimeout, HomingTimeout, ActivateFault
  <2>2. Phase = "activating" /\ Phase' = "finalized" /\ UNCHANGED <<Powered, Doing, abandoned>>
    BY <2>1, MotorsSame DEF ActivateError, Phase
  <2>3. Motors!GiveUp
    BY <2>2 DEF Motors!GiveUp, Motors!Goes
  <2> QED
    BY <2>3 DEF Motors!Next
<1>5. CASE ReadySeen \/ NoHoming \/ SkipHoming \/ HomedSeen
  <2>1. UNCHANGED <<lc, abandoned, nodeVars>> /\ step # "idle" /\ step' # "idle"
    BY <1>5 DEF ReadySeen, NoHoming, SkipHoming, HomedSeen, lifeVars
  <2> QED
    BY <2>1, MotorsStutter
<1> QED
  BY <1>1, <1>2, <1>3, <1>4, <1>5 DEF ActivateStep

\* The lifecycle's transitions.
LEMMA LifecycleMotors ==
  ASSUME TypeOK, LifeInv, Lifecycle
  PROVE  [Motors!Next]_(Motors!motorVars)
<1>0. step # "idle" => lc = "inactive"
  BY DEF LifeInv, LoopOK
<1>1. CASE OnInit
  <2>1. /\ Phase = "down" /\ Phase' \in {"down", "finalized"}
        /\ UNCHANGED <<Powered, Doing, abandoned>>
    BY <1>0, <1>1, MotorsSame DEF OnInit, Phase, loopVars
  <2> QED
    BY <2>1 DEF Motors!Next, Motors!GiveUp, Motors!Goes, Motors!motorVars
<1>2. CASE ActivateBegin
  <2>1. /\ Phase = "inactive" /\ Phase' = "activating"
        /\ UNCHANGED <<Powered, Doing, abandoned>>
    BY <1>2, MotorsSame DEF ActivateBegin, Phase, lifeVars
  <2> QED
    BY <2>1 DEF Motors!Next, Motors!Begin, Motors!Goes
<1>3. CASE OnShutdown
  <2>1. /\ Phase \in {"down", "inactive", "active"} /\ Phase' = "finalized"
        /\ UNCHANGED <<Powered, Doing, abandoned>>
    BY <1>3, MotorsSame DEF OnShutdown, Phase, loopVars
  <2> QED
    BY <2>1 DEF Motors!Next, Motors!GiveUp, Motors!Goes
<1>4. ASSUME NEW ok \in BOOLEAN, OnConfigure(ok)
      PROVE  [Motors!Next]_(Motors!motorVars)
  <2>1. /\ Phase = "down" /\ Phase' \in {"down", "inactive"}
        /\ UNCHANGED <<Powered, Doing, abandoned>>
    BY <1>0, <1>4, MotorsSame DEF OnConfigure, Phase, loopVars
  <2> QED
    BY <2>1 DEF Motors!Next, Motors!Configure, Motors!Goes, Motors!motorVars
<1>5. ASSUME NEW ok \in BOOLEAN, OnCleanup(ok)
      PROVE  [Motors!Next]_(Motors!motorVars)
  <2>1. /\ Phase = "inactive" /\ Phase' \in {"down", "finalized"}
        /\ UNCHANGED <<Powered, Doing, abandoned>>
    BY <1>5, MotorsSame DEF OnCleanup, Phase, loopVars
  <2> QED
    BY <2>1 DEF Motors!Next, Motors!CleanUp, Motors!GiveUp, Motors!Goes
<1>6. ASSUME NEW last \in 0..N, OnDeactivate(last)
      PROVE  [Motors!Next]_(Motors!motorVars)
  <2>1. Motors!PowerOff(1..last) /\ abandoned' = abandoned
    BY <1>6, NAssumption, DisablePowersOff DEF OnDeactivate, Joints
  <2>2. Phase = "active" /\ Phase' = IF last = N THEN "inactive" ELSE "finalized"
    BY <1>0, <1>6 DEF OnDeactivate, Phase, loopVars
  <2>3. CASE last = N
    <3>1. Motors!Deactivate
      BY <2>1, <2>2, <2>3 DEF Motors!Deactivate, Motors!Goes, Motors!Joints
    <3> QED
      BY <3>1 DEF Motors!Next
  <2>4. CASE last # N
    <3>1. last < N
      BY <2>4, NAssumption
    <3>2. Motors!DeactivateFails(last)
      BY <2>1, <2>2, <2>4, <3>1 DEF Motors!DeactivateFails, Motors!Goes
    <3> QED
      BY <3>2 DEF Motors!Next
  <2> QED
    BY <2>3, <2>4
<1>7. ASSUME NEW last \in 0..N, Destroy(last)
      PROVE  [Motors!Next]_(Motors!motorVars)
  <2>1. Motors!PowerOff(1..last)
    BY <1>7, NAssumption, DisablePowersOff DEF Destroy, Joints
  <2>2. Phase \in {"down", "inactive", "active", "finalized"} /\ Phase' = "destroyed"
    BY <1>7 DEF Destroy, Phase, loopVars, TypeOK
  <2>3. abandoned' \in BOOLEAN /\ (~abandoned' => Powered' = {})
    <3>1. abandoned' = (portsOpen /\ last < N) /\ lc # "destroyed" /\ Disable(1..last)
      BY <1>7 DEF Destroy
    <3>2. CASE portsOpen /\ last < N
      BY <3>1, <3>2
    <3>3. CASE ~portsOpen
      BY <3>1, <3>3 DEF LifeInv, PortsOK, Disable, Powered, TypeOK
    <3>4. CASE last = N
      BY <3>1, <3>4 DEF Disable, Powered, Joints
    <3> QED
      BY <3>1, <3>2, <3>3, <3>4, NAssumption DEF TypeOK
  <2>4. Motors!Destroy(last)
    BY <2>1, <2>2, <2>3 DEF Motors!Destroy, Motors!Goes
  <2> QED
    BY <2>4 DEF Motors!Next
<1> QED
  BY <1>1, <1>2, <1>3, <1>4, <1>5, <1>6, <1>7 DEF Lifecycle
\* read, write and the controllers.
LEMMA CycleMotors ==
  ASSUME TypeOK, LifeInv, Cycle
  PROVE  [Motors!Next]_(Motors!motorVars)
<1>0. step # "idle" => lc = "inactive"
  BY DEF LifeInv, LoopOK
<1>1. ASSUME NEW last \in 0..N, Read(last)
      PROVE  [Motors!Next]_(Motors!motorVars)
  <2>1. /\ Phase \in {"inactive", "active"} /\ Phase' \in {Phase, "finalized"}
        /\ UNCHANGED <<Powered, Doing, abandoned>>
    BY <1>1, MotorsSame DEF Read, Phase, loopVars, Available
  <2> QED
    BY <2>1 DEF Motors!Next, Motors!GiveUp, Motors!Goes, Motors!motorVars
<1>2. ASSUME NEW last \in 0..N, Write(last)
      PROVE  [Motors!Next]_(Motors!motorVars)
  <2> DEFINE S == {j \in Joints : j <= last /\ ready[j] /\ (Moves(j, "velocity") \/ Moves(j, "position"))}
  <2>1. /\ Phase = "active" /\ Phase' \in {"active", "finalized"}
        /\ UNCHANGED <<Powered, abandoned>>
    BY <1>0, <1>2 DEF Write, Phase, Powered, loopVars
  <2>2. S \subseteq Powered \cap {j \in Joints : ~ReadOnly[j]}
    BY DEF LifeInv, NodesOK, Powered, Moves
  <2>3. Doing' = [j \in Joints |-> IF j \in S THEN "commanded" ELSE Doing[j]]
    <3>1. \A j \in Joints : /\ j \in S => motion'[j] \in {"velocity", "position"}
                            /\ j \notin S => motion'[j] = motion[j]
      BY <1>2 DEF Write
    <3>2. \A j \in Joints : DoingOf(motion'[j]) = IF j \in S THEN "commanded" ELSE DoingOf(motion[j])
      BY <3>1 DEF DoingOf
    <3> HIDE DEF S
    <3> QED
      BY <3>2 DEF Doing
  <2>4. Motors!Command(S)
    BY <2>1, <2>2, <2>3 DEF Motors!Command, Motors!Joints, Joints
  <2>5. S \in SUBSET {j \in Joints : ~ReadOnly[j]}
    BY <2>2
  <2> HIDE DEF S
  <2> QED
    BY <2>4, <2>5 DEF Motors!Next
<1>3. ASSUME NEW k \in Keys, SetCommand(k)
      PROVE  [Motors!Next]_(Motors!motorVars)
  <2>1. UNCHANGED <<lc, abandoned, nodeVars, step>>
    BY <1>3 DEF SetCommand, lifeVars, loopVars
  <2> QED
    BY <2>1, MotorsStutter
<1> QED
  BY <1>1, <1>2, <1>3 DEF Cycle

\* What the nodes do by themselves.
LEMMA NodeMotors ==
  ASSUME TypeOK, LifeInv, NEW j \in Joints, NodeReady(j) \/ NodeFault(j) \/ HomingCompletes(j)
  PROVE  [Motors!Next]_(Motors!motorVars)
<1>1. UNCHANGED <<Phase, Powered, abandoned>>
  BY DEF NodeReady, NodeFault, HomingCompletes, Phase, Powered, lifeVars, loopVars
<1>2. motion' = motion \/ motion' = [motion EXCEPT ![j] = "idle"]
  BY DEF NodeReady, NodeFault, HomingCompletes
<1>3. CASE motion' = motion
  BY <1>1, <1>3 DEF Motors!motorVars, Doing
<1>4. CASE motion' = [motion EXCEPT ![j] = "idle"]
  <2>1. Doing' = [Doing EXCEPT ![j] = "still"]
    BY <1>4 DEF Doing, DoingOf, TypeOK
  <2>2. Motors!Stop(j) /\ j \in Motors!Joints
    BY <1>1, <2>1 DEF Motors!Stop, Motors!Joints, Joints
  <2> QED
    BY <2>2 DEF Motors!Next
<1> QED
  BY <1>2, <1>3, <1>4

LEMMA SwitchMotors ==
  ASSUME ModeSwitch \/ Terminated \/ UNCHANGED vars
  PROVE  [Motors!Next]_(Motors!motorVars)
<1>1. UNCHANGED <<lc, abandoned, nodeVars, step>>
  <2>1. CASE ModeSwitch
    BY <2>1 DEF ModeSwitch, PrepareCommandModeSwitch, PerformCommandModeSwitch, lifeVars, loopVars
  <2>2. CASE UNCHANGED vars
    BY <2>2 DEF vars, lifeVars, loopVars
  <2> QED
    BY <2>1, <2>2 DEF Terminated
<1> QED
  BY <1>1, MotorsStutter

LEMMA InitMotors == Init => Motors!Init
BY DEF Init, Motors!Init, Phase, Powered, Doing, DoingOf, Motors!Joints, Joints

LEMMA StepMotors == TypeOK /\ LifeInv /\ [Next]_vars => [Motors!Next]_(Motors!motorVars)
<1> SUFFICES ASSUME TypeOK, LifeInv, [Next]_vars PROVE [Motors!Next]_(Motors!motorVars)
  OBVIOUS
<1>1. CASE ActivateStep \/ ActivateFault
  BY <1>1, ActivateMotors
<1>2. CASE Lifecycle
  BY <1>2, LifecycleMotors
<1>3. CASE Cycle
  BY <1>3, CycleMotors
<1>4. CASE ModeSwitch \/ Terminated \/ UNCHANGED vars
  BY <1>4, SwitchMotors
<1>5. CASE Node
  BY <1>5, NodeMotors DEF Node
<1> QED
  BY <1>1, <1>2, <1>3, <1>4, <1>5 DEF Next

\* Whatever transitions, timeouts, exceptions, mode switches and node faults
\* come, and in whatever order, the component energises, homes, moves and
\* deenergises motors only as TeknicMotors allows, and ends without having
\* deenergised them only in an error or with the link lost.
THEOREM SystemImplementsMotors == Spec => ImplementsMotors
<1>1. Init => Motors!Init
  BY InitMotors
<1>2. TypeOK /\ LifeInv /\ [Next]_vars => [Motors!Next]_(Motors!motorVars)
  BY StepMotors
<1> QED
  BY <1>1, <1>2, LifeInvariance, PTL DEF Spec, ImplementsMotors, Motors!Spec

-----------------------------------------------------------------------------
(* Progress of on_activate.                                                *)

\* How many sections of on_activate are left at most.
Left ==
  CASE step = "enable" -> 5 [] step = "waitReady" -> 4 [] step = "homing" -> 3
    [] step = "waitHomed" -> 2 [] step = "finish" -> 1 [] OTHER -> 0

Rank == IF step = "idle" THEN 0 ELSE 5 * (N - cur) + Left

LEMMA RankBound == TypeOK => Rank \in 0..(5 * N)
BY NAssumption DEF TypeOK, Rank, Left, Steps, Joints

LEMMA ActivateRank ==
  ASSUME TypeOK, ActivateStep \/ ActivateFault
  PROVE  Rank' < Rank
<1> USE NAssumption DEF TypeOK, Joints, Rank, Left, Steps
<1>1. CASE EnableNode \/ ReadySeen \/ NoHoming \/ SkipHoming \/ InitiateHoming \/ HomedSeen
  BY <1>1 DEF EnableNode, ReadySeen, NoHoming, SkipHoming, InitiateHoming, HomedSeen
<1>2. CASE EnableTimeout \/ HomingTimeout \/ ActivateFault
  BY <1>2 DEF EnableTimeout, HomingTimeout, ActivateFault, ActivateError
<1>3. CASE FinishJoint
  BY <1>3 DEF FinishJoint, NextJoint
<1> QED
  BY <1>1, <1>2, <1>3 DEF ActivateStep

\* Each step of a running on_activate brings it nearer its end, and nothing
\* that happens meanwhile takes it back: with at most 5 N sections to go it
\* neither loops nor starts over, whatever the nodes do (system.cpp:288-415).
\* What is left to fairness is that its thread runs.
THEOREM ActivationShortens ==
  Spec => [][/\ ActivateStep \/ ActivateFault => Rank' < Rank
             /\ step # "idle" => Rank' < Rank \/ UNCHANGED <<step, cur>>]_vars
<1> DEFINE Shortens == /\ ActivateStep \/ ActivateFault => Rank' < Rank
                       /\ step # "idle" => Rank' < Rank \/ UNCHANGED <<step, cur>>
<1>1. TypeOK /\ LifeInv /\ [Next]_vars => [Shortens]_vars
  <2> SUFFICES ASSUME TypeOK, LifeInv, Next PROVE Shortens
    OBVIOUS
  <2>1. step # "idle" => lc = "inactive"
    BY DEF LifeInv, LoopOK
  <2>2. CASE ActivateStep \/ ActivateFault
    BY <2>2, ActivateRank
  <2>3. CASE ~(ActivateStep \/ ActivateFault)
    <3>1. step # "idle" => UNCHANGED <<step, cur>>
      <4>1. CASE Lifecycle
        BY <2>1, <4>1 DEF Lifecycle, OnInit, ActivateBegin, OnShutdown, OnConfigure, OnCleanup,
                          OnDeactivate, Destroy, loopVars
      <4>2. CASE Cycle
        BY <4>2 DEF Cycle, Read, Write, SetCommand, loopVars
      <4>3. CASE ModeSwitch
        BY <4>3 DEF ModeSwitch, PrepareCommandModeSwitch, PerformCommandModeSwitch, loopVars
      <4>4. CASE Node
        BY <4>4 DEF Node, NodeReady, NodeFault, HomingCompletes, loopVars
      <4>5. CASE Terminated
        BY <4>5 DEF Terminated, vars, loopVars
      <4> QED
        BY <2>3, <4>1, <4>2, <4>3, <4>4, <4>5 DEF Next
    <3> QED
      BY <2>3, <3>1
  <2> QED
    BY <2>2, <2>3
<1> QED
  BY <1>1, LifeInvariance, PTL DEF Spec
=============================================================================
