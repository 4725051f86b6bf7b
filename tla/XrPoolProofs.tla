---------------------------- MODULE XrPoolProofs ----------------------------
(***************************************************************************)
(* XrWrite implements XrPool, for every number of buffers and interfaces:  *)
(* with the inductive invariant of XrWriteProofs, and that no write is     *)
(* with a device that sleeps (Asleep), the initial states map              *)
(* to the initial state of the pool, and every step to one of its steps or *)
(* to a stutter.                                                           *)
(***************************************************************************)
EXTENDS XrWriteProofs

\* A step that moves no buffer and leaves undoStore alone changes no owner.
Still ==
  /\ UNCHANGED <<use, inflight, delayed_wb, handoff>>
  /\ pc = "undoStore" <=> pc' = "undoStore"

LEMMA PortKeeps == Port => UNCHANGED <<wbVars, pc, susp_count>>
  BY DEF Port, ActivateGet, ActivateRefused, ActivateAwake, ActivatePut, ActivateDone,
     ShutdownGet, ShutdownAwake, ShutdownRefused, ShutdownKill, References, wbVars, pmVars

LEMMA StillOwners == Still => Owner' = Owner
<1> SUFFICES ASSUME Still PROVE Owner' = Owner
  OBVIOUS
<1>1. \A w \in Wbs : OwnerOf(w)' = OwnerOf(w)
  BY DEF Still, OwnerOf
<1>2. Wbs' = Wbs
  BY DEF Wbs
<1> QED
  BY <1>1 DEF Owner

\* A step that changes the owner of the buffer b only, to o.
LEMMA OneOwner ==
  ASSUME NEW b \in Wbs, NEW o, OwnerOf(b)' = o,
         \A w \in Wbs : w # b => OwnerOf(w)' = OwnerOf(w)
  PROVE  Owner' = [Owner EXCEPT ![b] = o]
<1>1. \A w \in Wbs : OwnerOf(w)' = IF w = b THEN o ELSE OwnerOf(w)
  OBVIOUS
<1>2. Owner' = [w \in Wbs |-> OwnerOf(w)']
  BY DEF Owner
<1> QED
  BY <1>1, <1>2 DEF Owner

LEMMA OwnedSets ==
  /\ \A o : Pool!Owned(o) = {w \in Wbs : OwnerOf(w) = o}
  /\ \A w \in Wbs : Owner[w] = OwnerOf(w)
  BY DEF Pool!Owned, Owner

\* A sleeping device has no write, of an open port or of a closed one.
Asleep == pc = "suspended" => inflight = {}

LEMMA NextAsleep == IInv /\ Asleep /\ [Next]_vars => Asleep'
<1> SUFFICES ASSUME IInv, Asleep, [Next]_vars, pc' = "suspended"
             PROVE  inflight' = {}
  BY DEF Asleep
<1> USE PoolAssumption
<1>1. CASE pc = "suspended"
  <2>1. inflight = {} /\ susp_count # 0
    BY <1>1 DEF Asleep, IInv, Core, SuspendPhase
  <2> QED
    BY <1>1, <2>1, PortKeeps DEF Next, Write, Softint, SuspendStep, ResumeStep, WriteNoRoom,
      WriteDirect, WriteDelayed, Complete, SuspendBegin, SuspendCheck, SuspendCount,
      SuspendStop, SuspendFlush, ResumeBegin, ResumeCount, ResumeInit, ResumeTake,
      ResumeLoad, ResumeStore, ResumeSubmit, ResumeUndoLoad, ResumeUndoStore, References,
      vars, pmVars, wbVars
<1>2. CASE pc # "suspended"
  <2>1. SuspendFlush
    BY <1>2, PortKeeps DEF Next, Write, Softint, SuspendStep, ResumeStep, WriteNoRoom,
      WriteDirect, WriteDelayed, Complete, SuspendBegin, SuspendCheck, SuspendCount,
      SuspendStop, NextSuspend, ResumeBegin, ResumeCount, ResumeInit, ResumeTake,
      ResumeLoad, ResumeStore, ResumeSubmit, ResumeUndoLoad, ResumeUndoStore, References,
      vars, pmVars
  <2> QED
    BY <2>1 DEF SuspendFlush, wbVars
<1> QED
  BY <1>1, <1>2

LEMMA InitPool == Init => Pool!PoolInit
<1> SUFFICES ASSUME Init PROVE Pool!PoolInit
  OBVIOUS
<1>1. \A w \in Wbs : OwnerOf(w) = "nobody"
  BY DEF Init, OwnerOf, Wbs, None
<1>2. Awake = TRUE
  BY DEF Init, Awake
<1> QED
  BY <1>1, <1>2 DEF Pool!PoolInit, Owner

LEMMA StepPool == IInv /\ Asleep /\ [Next]_vars => [Pool!PoolNext]_(Pool!poolVars)
<1> SUFFICES ASSUME IInv, Asleep, [Next]_vars PROVE Pool!PoolNext \/ UNCHANGED Pool!poolVars
  OBVIOUS
<1> USE PoolAssumption DEF IInv, None
<1>a. TypeOK /\ HandoffPhase /\ SuspendPhase /\ NoBufferReuse
  BY DEF Core
<1>b. ASSUME Still, Awake' = Awake
      PROVE  UNCHANGED Pool!poolVars
  BY <1>b, StillOwners DEF Pool!poolVars
<1>1. ASSUME NEW got \in BOOLEAN, NEW ok \in BOOLEAN, WriteDirect(got, ok)
      PROVE  Pool!PoolNext \/ UNCHANGED Pool!poolVars
  <2>1. PICK b \in Wbs : b = Allocated /\ b \notin use
    BY <1>1, AllocatedIsFree DEF WriteDirect
  <2>2. UNCHANGED <<delayed_wb, handoff, pc>> /\ pc # "suspended"
    BY <1>1, <1>a DEF WriteDirect, wbVars, pmVars, SuspendPhase
  <2>3. CASE ok
    <3>1. use' = use \cup {b} /\ inflight' = inflight \cup {b}
      BY <1>1, <2>1, <2>3 DEF WriteDirect
    <3>2. OwnerOf(b) = "nobody" /\ OwnerOf(b)' = "controller"
      <4>1. OwnerOf(b) = "nobody"
        BY <1>a, <2>1, <3>1 DEF OwnerOf, NoBufferReuse, Wbs
      <4>2. OwnerOf(b)' = "controller"
        BY <1>a, <2>1, <2>2, <3>1 DEF OwnerOf, NoBufferReuse, Wbs
      <4> QED
        BY <4>1, <4>2
    <3>3. \A w \in Wbs : w # b => OwnerOf(w)' = OwnerOf(w)
      BY <2>2, <3>1 DEF OwnerOf
    <3>4. Pool!Submit(b)
      BY <2>1, <2>2, <3>2, <3>3, OneOwner, OwnedSets DEF Pool!Submit, Pool!Pass, Awake
    <3> QED
      BY <2>1, <3>4 DEF Pool!PoolNext
  <2>4. CASE ~ok
    BY <1>1, <1>b, <2>2, <2>4 DEF WriteDirect, Still, Awake
  <2> QED
    BY <2>3, <2>4
<1>2. ASSUME NEW got \in BOOLEAN, WriteDelayed(got)
      PROVE  Pool!PoolNext \/ UNCHANGED Pool!poolVars
  <2>1. PICK b \in Wbs : b = Allocated /\ b \notin use
    BY <1>2, AllocatedIsFree DEF WriteDelayed
  <2>2. UNCHANGED <<inflight, handoff, pc>> /\ use' = use \cup {b}
    BY <1>2, <2>1 DEF WriteDelayed, pmVars
  <2>3. handoff = None
    BY <1>2, <1>a DEF WriteDelayed, SuspendPhase, HandoffPhase
  <2>4. OwnerOf(b) = "nobody"
    BY <1>a, <2>1, <2>3 DEF OwnerOf, NoBufferReuse, Wbs
  <2>5. CASE delayed_wb = None
    <3>1. delayed_wb' = b
      BY <1>2, <2>1, <2>5 DEF WriteDelayed, Park
    <3>2. OwnerOf(b)' = "parked"
      BY <1>a, <2>1, <2>2, <2>3, <3>1 DEF OwnerOf, NoBufferReuse, Wbs
    <3>3. \A w \in Wbs : w # b => OwnerOf(w)' = OwnerOf(w)
      BY <2>2, <2>5, <3>1 DEF OwnerOf, Wbs
    <3>4. Pool!Owned("parked") = {}
      BY <2>5, OwnedSets DEF OwnerOf, Wbs
    <3>5. Pool!ParkOne(b)
      BY <2>1, <2>2, <2>4, <3>2, <3>3, <3>4, OneOwner, OwnedSets
         DEF Pool!ParkOne, Pool!Pass, Awake
    <3> QED
      BY <2>1, <3>5 DEF Pool!PoolNext
  <2>6. CASE delayed_wb # None
    <3>1. delayed_wb' = delayed_wb
      BY <1>2, <2>1, <2>6 DEF WriteDelayed, Park
    <3>2. OwnerOf(b)' = "stranded"
      BY <1>a, <2>1, <2>2, <2>3, <2>6, <3>1 DEF OwnerOf, NoBufferReuse, Wbs
    <3>3. \A w \in Wbs : w # b => OwnerOf(w)' = OwnerOf(w)
      BY <2>2, <3>1 DEF OwnerOf
    <3>4. OwnerOf(delayed_wb) = "parked" /\ delayed_wb \in Wbs
      BY <1>a, <2>6 DEF OwnerOf, NoBufferReuse, TypeOK
    <3>5. Pool!Owned("parked") # {}
      BY <3>4, OwnedSets
    <3>6. Pool!Strand(b)
      BY <2>1, <2>2, <2>4, <3>2, <3>3, <3>5, OneOwner, OwnedSets
         DEF Pool!Strand, Pool!Pass, Awake
    <3> QED
      BY <2>1, <3>6 DEF Pool!PoolNext
  <2> QED
    BY <2>5, <2>6
<1>3. ASSUME NEW b \in Wbs, Complete(b)
      PROVE  Pool!PoolNext \/ UNCHANGED Pool!poolVars
  <2>1. /\ UNCHANGED <<delayed_wb, handoff, pc>> /\ b \in inflight
        /\ use' = use \ {b} /\ inflight' = inflight \ {b}
    BY <1>3 DEF Complete, pmVars
  <2>2. pc # "suspended"
    BY <1>3 DEF Complete, Asleep
  <2>3. OwnerOf(b) = "controller" /\ OwnerOf(b)' = "nobody"
    BY <1>a, <2>1 DEF OwnerOf, NoBufferReuse, Wbs
  <2>4. \A w \in Wbs : w # b => OwnerOf(w)' = OwnerOf(w)
    BY <2>1 DEF OwnerOf
  <2>5. Pool!Finish(b)
    BY <2>1, <2>2, <2>3, <2>4, OneOwner, OwnedSets DEF Pool!Finish, Pool!Pass, Awake
  <2> QED
    BY <2>5 DEF Pool!PoolNext
<1>4. ASSUME SuspendFlush
      PROVE  Pool!PoolNext \/ UNCHANGED Pool!poolVars
  <2>1. /\ UNCHANGED <<use, inflight, delayed_wb, handoff>> /\ inflight = {}
        /\ pc = "flush" /\ pc' = "suspended"
    BY <1>4 DEF SuspendFlush, wbVars
  <2>2. handoff = None
    BY <1>a, <2>1 DEF HandoffPhase, StartWbPCs
  <2>3. Owner' = Owner
    BY <2>1, StillOwners DEF Still
  <2>4. Pool!Owned("controller") = {} /\ Pool!Owned("resume") = {}
    BY <2>1, <2>2, OwnedSets DEF OwnerOf, Wbs
  <2>5. Pool!FallAsleep
    BY <2>1, <2>3, <2>4 DEF Pool!FallAsleep, Awake
  <2> QED
    BY <2>5 DEF Pool!PoolNext
<1>5. ASSUME ResumeBegin
      PROVE  Pool!PoolNext \/ UNCHANGED Pool!poolVars
  <2>1. UNCHANGED <<use, inflight, delayed_wb, handoff>> /\ pc = "suspended" /\ pc' = "resume"
    BY <1>5 DEF ResumeBegin, wbVars
  <2>2. Owner' = Owner
    BY <2>1, StillOwners DEF Still
  <2>3. Pool!WakeUp
    BY <2>1, <2>2 DEF Pool!WakeUp, Awake
  <2> QED
    BY <2>3 DEF Pool!PoolNext
<1>6. ASSUME ResumeTake
      PROVE  Pool!PoolNext \/ UNCHANGED Pool!poolVars
  <2>1. /\ UNCHANGED <<use, inflight>> /\ pc = "take" /\ pc' \in {"active", "load"}
        /\ handoff' = delayed_wb /\ delayed_wb' = None
    BY <1>6 DEF ResumeTake
  <2>2. handoff = None
    BY <1>a, <2>1 DEF HandoffPhase, StartWbPCs
  <2>3. CASE delayed_wb = None
    BY <1>b, <2>1, <2>2, <2>3 DEF Still, Awake
  <2>4. CASE delayed_wb # None
    <3>1. PICK b \in Wbs : b = delayed_wb /\ b \in use \ inflight
      BY <1>a, <2>4 DEF TypeOK, NoBufferReuse
    <3>2. OwnerOf(b) = "parked" /\ OwnerOf(b)' = "resume"
      <4>1. OwnerOf(b) = "parked"
        BY <2>1, <2>2, <2>4, <3>1 DEF OwnerOf, Wbs
      <4>2. OwnerOf(b)' = "resume"
        BY <2>1, <2>4, <3>1 DEF OwnerOf
      <4> QED
        BY <4>1, <4>2
    <3>3. \A w \in Wbs : w # b => OwnerOf(w)' = OwnerOf(w)
      BY <2>1, <2>2, <3>1 DEF OwnerOf, Wbs
    <3>4. Pool!Owned("resume") = {}
      BY <2>2, OwnedSets DEF OwnerOf, Wbs
    <3>5. Owner' = [Owner EXCEPT ![b] = "resume"]
      BY <3>1, <3>2, <3>3, OneOwner
    <3>6. Pool!Take(b)
      BY <2>1, <3>1, <3>2, <3>4, <3>5, OwnedSets DEF Pool!Take, Pool!Pass, Awake
    <3> QED
      BY <3>1, <3>6 DEF Pool!PoolNext
  <2> QED
    BY <2>3, <2>4
<1>7. ASSUME NEW ok \in BOOLEAN, ResumeSubmit(ok)
      PROVE  Pool!PoolNext \/ UNCHANGED Pool!poolVars
  <2>1. UNCHANGED <<use, delayed_wb>> /\ pc = "submit"
    BY <1>7 DEF ResumeSubmit
  <2>2. handoff \in Wbs /\ handoff \in use \ inflight /\ handoff # delayed_wb
    BY <1>a, <2>1 DEF HandoffPhase, StartWbPCs, NoBufferReuse, TypeOK
  <2>3. CASE ok
    <3>1. PICK b \in Wbs : b = handoff
      BY <2>2
    <3>2. inflight' = inflight \cup {b} /\ handoff' = None /\ pc' = "active"
      BY <1>7, <2>3, <3>1 DEF ResumeSubmit
    <3>3. OwnerOf(b) = "resume" /\ OwnerOf(b)' = "controller"
      <4>1. OwnerOf(b) = "resume"
        BY <2>1, <2>2, <3>1, <3>2 DEF OwnerOf
      <4>2. OwnerOf(b)' = "controller"
        BY <2>1, <2>2, <3>1, <3>2 DEF OwnerOf, Wbs
      <4> QED
        BY <4>1, <4>2
    <3>4. \A w \in Wbs : w # b => OwnerOf(w)' = OwnerOf(w)
      BY <2>1, <3>1, <3>2 DEF OwnerOf, Wbs
    <3>5. Pool!Resubmit(b)
      BY <2>1, <3>2, <3>3, <3>4, OneOwner, OwnedSets DEF Pool!Resubmit, Pool!Pass, Awake
    <3> QED
      BY <3>5 DEF Pool!PoolNext
  <2>4. CASE ~ok
    BY <1>7, <1>b, <2>1, <2>4 DEF ResumeSubmit, Still, Awake
  <2> QED
    BY <2>3, <2>4
<1>8. ASSUME ResumeUndoLoad
      PROVE  Pool!PoolNext \/ UNCHANGED Pool!poolVars
  <2>1. UNCHANGED <<inflight, delayed_wb, handoff>> /\ pc = "undoLoad" /\ pc' = "undoStore"
    BY <1>8 DEF ResumeUndoLoad
  <2>2. handoff \in Wbs /\ handoff \in use \ inflight /\ handoff # delayed_wb
    BY <1>a, <2>1 DEF HandoffPhase, StartWbPCs, NoBufferReuse, TypeOK
  <2>3. PICK b \in Wbs : b = handoff
    BY <2>2
  <2>4. use' = use \ {b}
    BY <1>8, <2>3 DEF ResumeUndoLoad
  <2>5. OwnerOf(b) = "resume" /\ OwnerOf(b)' = "nobody"
    BY <2>1, <2>2, <2>3, <2>4 DEF OwnerOf
  <2>6. \A w \in Wbs : w # b => OwnerOf(w)' = OwnerOf(w)
    BY <2>1, <2>3, <2>4 DEF OwnerOf
  <2>7. Pool!GiveUp(b)
    BY <2>1, <2>5, <2>6, OneOwner, OwnedSets DEF Pool!GiveUp, Pool!Pass, Awake
  <2> QED
    BY <2>7 DEF Pool!PoolNext
<1>9. ASSUME ResumeUndoStore
      PROVE  Pool!PoolNext \/ UNCHANGED Pool!poolVars
  <2>1. /\ UNCHANGED <<use, inflight, delayed_wb>> /\ pc = "undoStore" /\ pc' = "active"
        /\ handoff' = None
    BY <1>9 DEF ResumeUndoStore
  <2>2. \A w \in Wbs : OwnerOf(w)' = OwnerOf(w)
    BY <2>1 DEF OwnerOf, Wbs
  <2>3. Owner' = Owner
    BY <2>2 DEF Owner
  <2> QED
    BY <2>1, <2>3 DEF Pool!poolVars, Awake
<1>10. WriteNoRoom => UNCHANGED Pool!poolVars
  <2> SUFFICES ASSUME WriteNoRoom PROVE Still /\ Awake' = Awake
    BY <1>b
  <2> QED
    BY <1>a DEF WriteNoRoom, Still, Awake, SuspendPhase, HandoffPhase, StartWbPCs, TypeOK, PCs, NextSuspend, vars, pmVars, wbVars
<1>11. Softint => UNCHANGED Pool!poolVars
  <2> SUFFICES ASSUME Softint PROVE Still /\ Awake' = Awake
    BY <1>b
  <2> QED
    BY <1>a DEF Softint, Still, Awake, SuspendPhase, HandoffPhase, StartWbPCs, TypeOK, PCs, NextSuspend, vars, pmVars, wbVars
<1>12. SuspendCheck => UNCHANGED Pool!poolVars
  <2> SUFFICES ASSUME SuspendCheck PROVE Still /\ Awake' = Awake
    BY <1>b
  <2> QED
    BY <1>a DEF SuspendCheck, Still, Awake, SuspendPhase, HandoffPhase, StartWbPCs, TypeOK, PCs, NextSuspend, vars, pmVars, wbVars
<1>13. SuspendCount => UNCHANGED Pool!poolVars
  <2> SUFFICES ASSUME SuspendCount PROVE Still /\ Awake' = Awake
    BY <1>b
  <2> QED
    BY <1>a DEF SuspendCount, Still, Awake, SuspendPhase, HandoffPhase, StartWbPCs, TypeOK, PCs, NextSuspend, vars, pmVars, wbVars
<1>14. SuspendStop => UNCHANGED Pool!poolVars
  <2> SUFFICES ASSUME SuspendStop PROVE Still /\ Awake' = Awake
    BY <1>b
  <2> QED
    BY <1>a DEF SuspendStop, Still, Awake, SuspendPhase, HandoffPhase, StartWbPCs, TypeOK, PCs, NextSuspend, vars, pmVars, wbVars
<1>15. ResumeCount => UNCHANGED Pool!poolVars
  <2> SUFFICES ASSUME ResumeCount PROVE Still /\ Awake' = Awake
    BY <1>b
  <2> QED
    BY <1>a DEF ResumeCount, Still, Awake, SuspendPhase, HandoffPhase, StartWbPCs, TypeOK, PCs, NextSuspend, vars, pmVars, wbVars
<1>16. ResumeInit => UNCHANGED Pool!poolVars
  <2> SUFFICES ASSUME ResumeInit PROVE Still /\ Awake' = Awake
    BY <1>b
  <2> QED
    BY <1>a DEF ResumeInit, Still, Awake, SuspendPhase, HandoffPhase, StartWbPCs, TypeOK, PCs, NextSuspend, vars, pmVars, wbVars
<1>17. ResumeLoad => UNCHANGED Pool!poolVars
  <2> SUFFICES ASSUME ResumeLoad PROVE Still /\ Awake' = Awake
    BY <1>b
  <2> QED
    BY <1>a DEF ResumeLoad, Still, Awake, SuspendPhase, HandoffPhase, StartWbPCs, TypeOK, PCs, NextSuspend, vars, pmVars, wbVars
<1>18. ResumeStore => UNCHANGED Pool!poolVars
  <2> SUFFICES ASSUME ResumeStore PROVE Still /\ Awake' = Awake
    BY <1>b
  <2> QED
    BY <1>a DEF ResumeStore, Still, Awake, SuspendPhase, HandoffPhase, StartWbPCs, TypeOK, PCs, NextSuspend, vars, pmVars, wbVars
<1>19. Port => UNCHANGED Pool!poolVars
  <2> SUFFICES ASSUME Port PROVE Still /\ Awake' = Awake
    BY <1>b
  <2> QED
    BY PortKeeps DEF Still, Awake, wbVars
<1>20. ASSUME NEW isAuto \in BOOLEAN, SuspendBegin(isAuto)
      PROVE  UNCHANGED Pool!poolVars
  <2>1. Still /\ Awake' = Awake
    BY <1>20 DEF SuspendBegin, Still, Awake, vars, pmVars, wbVars
  <2> QED
    BY <1>b, <2>1
<1>21. CASE UNCHANGED vars
  <2>1. Still /\ Awake' = Awake
    BY <1>21 DEF Still, Awake, vars, pmVars, wbVars
  <2> QED
    BY <1>b, <2>1
<1> QED
  BY <1>1, <1>2, <1>3, <1>4, <1>5, <1>6, <1>7, <1>8, <1>9, <1>10, <1>11, <1>12, <1>13, <1>14, <1>15, <1>16, <1>17, <1>18, <1>19, <1>20, <1>21
     DEF Next, Write, SuspendStep, ResumeStep

\* Every write buffer changes hands only as XrPool allows, for every number
\* of buffers and interfaces.
THEOREM WriteImplementsPool == Spec => ImplementsPool
<1>1. Init => Pool!PoolInit
  BY InitPool
<1>2. IInv /\ Asleep /\ [Next]_vars => [Pool!PoolNext]_(Pool!poolVars)
  BY StepPool
<1>3. Init => Asleep
  BY DEF Init, Asleep
<1> QED
  BY <1>1, <1>2, <1>3, NextAsleep, Invariance, PTL DEF Spec, ImplementsPool, Pool!PoolSpec
=============================================================================
