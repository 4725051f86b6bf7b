---------------------------- MODULE XrWriteProofs ----------------------------
(***************************************************************************)
(* Theorems about XrWrite for every number of buffers and interfaces.      *)
(*                                                                         *)
(* The safety properties are not inductive as they stand.  What they miss  *)
(* is the bookkeeping of the USB core's transitions: which interfaces are  *)
(* suspended at each pc (SuspendPhase), that resume holds a buffer exactly *)
(* while it is inside start_wb (HandoffPhase), that the tty core's flag    *)
(* follows the port (InitializedPhase), and that a port is quiet from its  *)
(* first suspended interface, or the kills of its close, on (QuietPhase).  *)
(***************************************************************************)
EXTENDS XrWrite, FiniteSetTheorems, WellFoundedInduction, TLAPS

StartWbPCs == {"load", "store", "submit", "undoLoad", "undoStore"}

HandoffPhase == (handoff # None) <=> pc \in StartWbPCs

SuspendPhase ==
  /\ pc \in {"check", "count"} => susp_count \in 0..(NIntf - 1)
  /\ pc \in {"stop", "resume"} => susp_count \in 1..NIntf
  /\ pc \in {"flush", "suspended"} => susp_count = NIntf
  /\ pc \in {"active", "init", "take"} \cup StartWbPCs => susp_count = 0

InitializedPhase == initialized = (port = "open")

QuietPhase ==
  /\ port = "open" /\ susp_count # 0 /\ pc # "stop" => inflight = {}
  /\ port \notin {"open", "closing"} => pc \notin {"take"} \cup StartWbPCs
  /\ port \notin {"open", "closing", "killing"} => inflight = {}

Core == TypeOK /\ HandoffPhase /\ SuspendPhase /\ InitializedPhase

IInv == Core /\ NoBufferReuse /\ QuietPhase

-----------------------------------------------------------------------------
\* A non-empty set of numbers has a least element: the intervals 1..n for
\* its members n are finite sets, on which strict inclusion is well founded.
LEMMA LeastElement ==
  ASSUME NEW S \in SUBSET (Nat \ {0}), S # {}
  PROVE  \E m \in S : \A n \in S : m <= n
<1> DEFINE F == FiniteSubsetsOf(Nat)
           R == StrictSubsetOrdering(Nat)
           T == {1..n : n \in S}
<1>1. IsWellFoundedOn(R, F)
  BY FS_StrictSubsetOrderingWellFounded
<1>2. \A n \in S : 1..n \in F
  BY FS_Interval DEF FiniteSubsetsOf
<1>3. T \subseteq F /\ T # {}
  BY <1>2
<1>4. PICK x \in T : \A y \in T : <<y, x>> \notin R
  <2> HIDE DEF F, R, T
  <2> QED
    BY <1>1, <1>3, WFMin
<1>5. PICK m \in S : x = 1..m
  BY <1>4
<1>6. ASSUME NEW n \in S, n < m
      PROVE  FALSE
  <2>1. 1..n \subseteq 1..m /\ m \in 1..m /\ m \notin 1..n
    BY <1>6
  <2>2. 1..n \in SUBSET Nat /\ 1..m \in SUBSET Nat
    OBVIOUS
  <2>3. <<1..n, 1..m>> \in R
    BY <2>1, <2>2 DEF StrictSubsetOrdering
  <2> QED
    BY <1>4, <1>5, <2>3
<1> QED
  BY <1>6

\* wb_alloc returns a buffer that was not in use.
LEMMA AllocatedIsFree ==
  ASSUME Free # {}
  PROVE  Allocated \in Wbs \ use
<1>1. Free \in SUBSET (Nat \ {0})
  BY PoolAssumption DEF Free, Wbs
<1>2. \E w \in Free : \A v \in Free : w <= v
  BY <1>1, LeastElement
<1> QED
  BY <1>2 DEF Allocated, Free
-----------------------------------------------------------------------------
\* Init and every step keep the inductive invariant.
LEMMA InitIInv == Init => IInv
<1> SUFFICES ASSUME Init PROVE IInv
  OBVIOUS
<1> USE PoolAssumption DEF Init, None
<1>1. TypeOK
  <2>1. port \in {"closed"} /\ initialized \in BOOLEAN
    BY Zenon
  <2>2. auto \in BOOLEAN /\ work \in BOOLEAN /\ waiting \in BOOLEAN
    BY Zenon
  <2>3. use \subseteq Wbs /\ inflight \subseteq Wbs
    OBVIOUS
  <2>4. susp_count \in 0..NIntf /\ pc \in PCs
    BY DEF PCs
  <2> QED
    BY <2>1, <2>2, <2>3, <2>4 DEF TypeOK
<1>2. HandoffPhase /\ SuspendPhase
  BY DEF HandoffPhase, SuspendPhase, StartWbPCs
<1>3. InitializedPhase
  BY DEF InitializedPhase
<1>4. NoBufferReuse /\ QuietPhase
  BY DEF NoBufferReuse, QuietPhase, StartWbPCs
<1> QED
  BY <1>1, <1>2, <1>3, <1>4 DEF IInv, Core

LEMMA NextIInv == IInv /\ [Next]_vars => IInv'
<1> SUFFICES ASSUME IInv, [Next]_vars PROVE IInv'
  OBVIOUS
<1> USE PoolAssumption DEF IInv, None
<1>1. CASE WriteNoRoom
  <2> USE <1>1 DEF WriteNoRoom, vars, refVars, References, Holds, pmVars, wbVars, ttyVars
  <2>1. Core'
    BY DEF Core, TypeOK, HandoffPhase, SuspendPhase, InitializedPhase, PCs, StartWbPCs, Wbs
  <2>2. NoBufferReuse'
    BY DEF Core, TypeOK, HandoffPhase, NoBufferReuse, StartWbPCs, Wbs
  <2>3. QuietPhase'
    BY DEF Core, TypeOK, SuspendPhase, InitializedPhase, QuietPhase, StartWbPCs
  <2> QED
    BY <2>1, <2>2, <2>3
<1>2. ASSUME NEW got \in BOOLEAN, NEW ok \in BOOLEAN, WriteDirect(got, ok)
        PROVE  IInv'
  <2> USE <1>2 DEF WriteDirect, vars, refVars, References, Holds, pmVars, wbVars, ttyVars
  <2>0. Allocated \in Wbs \ use
    BY AllocatedIsFree
  <2>1. Core'
    <3>1. TypeOK'
      <4>1. initialized' \in BOOLEAN /\ auto' \in BOOLEAN /\ work' \in BOOLEAN /\ waiting' \in BOOLEAN
        BY Zenon DEF Core, TypeOK
      <4>2. use' \subseteq Wbs /\ inflight' \subseteq Wbs /\ transmitting' \in Int /\ pm' \in Int /\ unbacked' \in Nat
        BY <2>0 DEF Core, TypeOK
      <4>3. port' \in {"open", "closing"}
        BY DEF Core, TypeOK
      <4> QED
        BY <4>1, <4>2, <4>3 DEF Core, TypeOK, PCs
    <3>2. HandoffPhase' /\ SuspendPhase'
      BY DEF Core, TypeOK, HandoffPhase, SuspendPhase, StartWbPCs
    <3>3. InitializedPhase'
      BY DEF Core, InitializedPhase
    <3> QED
      BY <3>1, <3>2, <3>3 DEF Core
  <2>2. NoBufferReuse'
    BY <2>0 DEF Core, TypeOK, HandoffPhase, NoBufferReuse, StartWbPCs, Wbs
  <2>3. QuietPhase'
    BY DEF Core, TypeOK, SuspendPhase, InitializedPhase, QuietPhase, StartWbPCs
  <2> QED
    BY <2>1, <2>2, <2>3
<1>3. ASSUME NEW got \in BOOLEAN, WriteDelayed(got)
        PROVE  IInv'
  <2> USE <1>3 DEF WriteDelayed, vars, refVars, References, Holds, pmVars, wbVars, ttyVars, Park
  <2>0. Allocated \in Wbs \ use
    BY AllocatedIsFree
  <2>1. Core'
    BY <2>0 DEF Core, TypeOK, HandoffPhase, SuspendPhase, InitializedPhase, PCs, StartWbPCs, Wbs
  <2>2. NoBufferReuse'
    BY <2>0 DEF Core, TypeOK, HandoffPhase, NoBufferReuse, StartWbPCs, Wbs
  <2>3. QuietPhase'
    BY DEF Core, TypeOK, SuspendPhase, InitializedPhase, QuietPhase, StartWbPCs
  <2> QED
    BY <2>1, <2>2, <2>3
<1>4. ASSUME NEW w \in Wbs, Complete(w)
        PROVE  IInv'
  <2> USE <1>4 DEF Complete, vars, refVars, References, Holds, pmVars, wbVars, ttyVars
  <2>1. Core'
    BY DEF Core, TypeOK, HandoffPhase, SuspendPhase, InitializedPhase, PCs, StartWbPCs, Wbs
  <2>2. NoBufferReuse'
    BY DEF Core, TypeOK, HandoffPhase, NoBufferReuse, StartWbPCs, Wbs
  <2>3. QuietPhase'
    BY DEF Core, TypeOK, SuspendPhase, InitializedPhase, QuietPhase, StartWbPCs
  <2> QED
    BY <2>1, <2>2, <2>3
<1>5. CASE Softint
  <2> USE <1>5 DEF Softint, vars, refVars, References, Holds, pmVars, wbVars, ttyVars
  <2>1. Core'
    BY DEF Core, TypeOK, HandoffPhase, SuspendPhase, InitializedPhase, PCs, StartWbPCs, Wbs
  <2>2. NoBufferReuse'
    BY DEF Core, TypeOK, HandoffPhase, NoBufferReuse, StartWbPCs, Wbs
  <2>3. QuietPhase'
    BY DEF Core, TypeOK, SuspendPhase, InitializedPhase, QuietPhase, StartWbPCs
  <2> QED
    BY <2>1, <2>2, <2>3
<1>6. ASSUME NEW isAuto \in BOOLEAN, SuspendBegin(isAuto)
        PROVE  IInv'
  <2> USE <1>6 DEF SuspendBegin, vars, refVars, References, Holds, pmVars, wbVars, ttyVars
  <2>1. Core'
    BY DEF Core, TypeOK, HandoffPhase, SuspendPhase, InitializedPhase, PCs, StartWbPCs, Wbs
  <2>2. NoBufferReuse'
    BY DEF Core, TypeOK, HandoffPhase, NoBufferReuse, StartWbPCs, Wbs
  <2>3. QuietPhase'
    BY DEF Core, TypeOK, SuspendPhase, InitializedPhase, QuietPhase, StartWbPCs
  <2> QED
    BY <2>1, <2>2, <2>3
<1>7. CASE SuspendCheck
  <2> USE <1>7 DEF SuspendCheck, vars, refVars, References, Holds, pmVars, wbVars, ttyVars
  <2>1. Core'
    BY DEF Core, TypeOK, HandoffPhase, SuspendPhase, InitializedPhase, PCs, StartWbPCs, Wbs
  <2>2. NoBufferReuse'
    BY DEF Core, TypeOK, HandoffPhase, NoBufferReuse, StartWbPCs, Wbs
  <2>3. QuietPhase'
    BY DEF Core, TypeOK, SuspendPhase, InitializedPhase, QuietPhase, StartWbPCs
  <2> QED
    BY <2>1, <2>2, <2>3
<1>8. CASE SuspendCount
  <2> USE <1>8 DEF SuspendCount, vars, refVars, References, Holds, pmVars, wbVars, ttyVars, NextSuspend
  <2>1. Core'
    BY DEF Core, TypeOK, HandoffPhase, SuspendPhase, InitializedPhase, PCs, StartWbPCs, Wbs
  <2>2. NoBufferReuse'
    BY DEF Core, TypeOK, HandoffPhase, NoBufferReuse, StartWbPCs, Wbs
  <2>3. QuietPhase'
    BY DEF Core, TypeOK, SuspendPhase, InitializedPhase, QuietPhase, StartWbPCs
  <2> QED
    BY <2>1, <2>2, <2>3
<1>9. CASE SuspendStop
  <2> USE <1>9 DEF SuspendStop, vars, refVars, References, Holds, pmVars, wbVars, ttyVars, NextSuspend
  <2>1. Core'
    <3>1. TypeOK'
      BY DEF Core, TypeOK, SuspendPhase, PCs, StartWbPCs, Wbs
    <3>2. HandoffPhase' /\ SuspendPhase'
      BY DEF Core, TypeOK, HandoffPhase, SuspendPhase, StartWbPCs
    <3>3. InitializedPhase'
      BY DEF Core, InitializedPhase
    <3> QED
      BY <3>1, <3>2, <3>3 DEF Core
  <2>2. NoBufferReuse'
    BY DEF Core, TypeOK, HandoffPhase, NoBufferReuse, StartWbPCs, Wbs
  <2>3. QuietPhase'
    BY DEF Core, TypeOK, SuspendPhase, InitializedPhase, QuietPhase, StartWbPCs
  <2> QED
    BY <2>1, <2>2, <2>3
<1>10. CASE SuspendFlush
  <2> USE <1>10 DEF SuspendFlush, vars, refVars, References, Holds, pmVars, wbVars, ttyVars
  <2>1. Core'
    BY DEF Core, TypeOK, HandoffPhase, SuspendPhase, InitializedPhase, PCs, StartWbPCs, Wbs
  <2>2. NoBufferReuse'
    BY DEF Core, TypeOK, HandoffPhase, NoBufferReuse, StartWbPCs, Wbs
  <2>3. QuietPhase'
    BY DEF Core, TypeOK, SuspendPhase, InitializedPhase, QuietPhase, StartWbPCs
  <2> QED
    BY <2>1, <2>2, <2>3
<1>11. CASE ResumeBegin
  <2> USE <1>11 DEF ResumeBegin, vars, refVars, References, Holds, pmVars, wbVars, ttyVars
  <2>1. Core'
    BY DEF Core, TypeOK, HandoffPhase, SuspendPhase, InitializedPhase, PCs, StartWbPCs, Wbs
  <2>2. NoBufferReuse'
    BY DEF Core, TypeOK, HandoffPhase, NoBufferReuse, StartWbPCs, Wbs
  <2>3. QuietPhase'
    BY DEF Core, TypeOK, SuspendPhase, InitializedPhase, QuietPhase, StartWbPCs
  <2> QED
    BY <2>1, <2>2, <2>3
<1>12. CASE ResumeCount
  <2> USE <1>12 DEF ResumeCount, vars, refVars, References, Holds, pmVars, wbVars, ttyVars
  <2>1. Core'
    BY DEF Core, TypeOK, HandoffPhase, SuspendPhase, InitializedPhase, PCs, StartWbPCs, Wbs
  <2>2. NoBufferReuse'
    BY DEF Core, TypeOK, HandoffPhase, NoBufferReuse, StartWbPCs, Wbs
  <2>3. QuietPhase'
    BY DEF Core, TypeOK, SuspendPhase, InitializedPhase, QuietPhase, StartWbPCs
  <2> QED
    BY <2>1, <2>2, <2>3
<1>13. CASE ResumeInit
  <2> USE <1>13 DEF ResumeInit, vars, refVars, References, Holds, pmVars, wbVars, ttyVars
  <2>1. Core'
    BY DEF Core, TypeOK, HandoffPhase, SuspendPhase, InitializedPhase, PCs, StartWbPCs, Wbs
  <2>2. NoBufferReuse'
    BY DEF Core, TypeOK, HandoffPhase, NoBufferReuse, StartWbPCs, Wbs
  <2>3. QuietPhase'
    BY DEF Core, TypeOK, SuspendPhase, InitializedPhase, QuietPhase, StartWbPCs
  <2> QED
    BY <2>1, <2>2, <2>3
<1>14. CASE ResumeTake
  <2> USE <1>14 DEF ResumeTake, vars, refVars, References, Holds, pmVars, wbVars, ttyVars
  <2>1. Core'
    BY DEF Core, TypeOK, HandoffPhase, SuspendPhase, InitializedPhase, PCs, StartWbPCs, Wbs
  <2>2. NoBufferReuse'
    BY DEF Core, TypeOK, HandoffPhase, NoBufferReuse, StartWbPCs, Wbs
  <2>3. QuietPhase'
    BY DEF Core, TypeOK, SuspendPhase, InitializedPhase, QuietPhase, StartWbPCs
  <2> QED
    BY <2>1, <2>2, <2>3
<1>15. CASE ResumeLoad
  <2> USE <1>15 DEF ResumeLoad, vars, refVars, References, Holds, pmVars, wbVars, ttyVars
  <2>1. Core'
    BY DEF Core, TypeOK, HandoffPhase, SuspendPhase, InitializedPhase, PCs, StartWbPCs, Wbs
  <2>2. NoBufferReuse'
    BY DEF Core, TypeOK, HandoffPhase, NoBufferReuse, StartWbPCs, Wbs
  <2>3. QuietPhase'
    BY DEF Core, TypeOK, SuspendPhase, InitializedPhase, QuietPhase, StartWbPCs
  <2> QED
    BY <2>1, <2>2, <2>3
<1>16. CASE ResumeStore
  <2> USE <1>16 DEF ResumeStore, vars, refVars, References, Holds, pmVars, wbVars, ttyVars
  <2>1. Core'
    BY DEF Core, TypeOK, HandoffPhase, SuspendPhase, InitializedPhase, PCs, StartWbPCs, Wbs
  <2>2. NoBufferReuse'
    BY DEF Core, TypeOK, HandoffPhase, NoBufferReuse, StartWbPCs, Wbs
  <2>3. QuietPhase'
    BY DEF Core, TypeOK, SuspendPhase, InitializedPhase, QuietPhase, StartWbPCs
  <2> QED
    BY <2>1, <2>2, <2>3
<1>17. ASSUME NEW ok \in BOOLEAN, ResumeSubmit(ok)
        PROVE  IInv'
  <2> USE <1>17 DEF ResumeSubmit, vars, refVars, References, Holds, pmVars, wbVars, ttyVars
  <2>1. Core'
    BY DEF Core, TypeOK, HandoffPhase, SuspendPhase, InitializedPhase, PCs, StartWbPCs, Wbs
  <2>2. NoBufferReuse'
    BY DEF Core, TypeOK, HandoffPhase, NoBufferReuse, StartWbPCs, Wbs
  <2>3. QuietPhase'
    BY DEF Core, TypeOK, SuspendPhase, InitializedPhase, QuietPhase, StartWbPCs
  <2> QED
    BY <2>1, <2>2, <2>3
<1>18. CASE ResumeUndoLoad
  <2> USE <1>18 DEF ResumeUndoLoad, vars, refVars, References, Holds, pmVars, wbVars, ttyVars
  <2>1. Core'
    BY DEF Core, TypeOK, HandoffPhase, SuspendPhase, InitializedPhase, PCs, StartWbPCs, Wbs
  <2>2. NoBufferReuse'
    BY DEF Core, TypeOK, HandoffPhase, NoBufferReuse, StartWbPCs, Wbs
  <2>3. QuietPhase'
    BY DEF Core, TypeOK, SuspendPhase, InitializedPhase, QuietPhase, StartWbPCs
  <2> QED
    BY <2>1, <2>2, <2>3
<1>19. CASE ResumeUndoStore
  <2> USE <1>19 DEF ResumeUndoStore, vars, refVars, References, Holds, pmVars, wbVars, ttyVars
  <2>1. Core'
    BY DEF Core, TypeOK, HandoffPhase, SuspendPhase, InitializedPhase, PCs, StartWbPCs, Wbs
  <2>2. NoBufferReuse'
    BY DEF Core, TypeOK, HandoffPhase, NoBufferReuse, StartWbPCs, Wbs
  <2>3. QuietPhase'
    BY DEF Core, TypeOK, SuspendPhase, InitializedPhase, QuietPhase, StartWbPCs
  <2> QED
    BY <2>1, <2>2, <2>3
<1>20. CASE ActivateGet
  <2> USE <1>20 DEF ActivateGet, vars, refVars, References, Holds, pmVars, wbVars, ttyVars
  <2>1. Core'
    BY DEF Core, TypeOK, HandoffPhase, SuspendPhase, InitializedPhase, PCs, StartWbPCs, Wbs
  <2>2. NoBufferReuse'
    BY DEF Core, TypeOK, HandoffPhase, NoBufferReuse, StartWbPCs, Wbs
  <2>3. QuietPhase'
    BY DEF Core, TypeOK, SuspendPhase, InitializedPhase, QuietPhase, StartWbPCs
  <2> QED
    BY <2>1, <2>2, <2>3
<1>21. ASSUME NEW readFails \in BOOLEAN, ActivateDone(readFails)
        PROVE  IInv'
  <2> USE <1>21 DEF ActivateDone, vars, refVars, References, Holds, pmVars, wbVars, ttyVars
  <2>1. Core'
    <3>1. TypeOK'
      BY DEF Core, TypeOK, SuspendPhase, PCs, StartWbPCs, Wbs
    <3>2. HandoffPhase' /\ SuspendPhase'
      BY DEF Core, TypeOK, HandoffPhase, SuspendPhase, StartWbPCs
    <3>3. InitializedPhase'
      BY DEF Core, InitializedPhase
    <3> QED
      BY <3>1, <3>2, <3>3 DEF Core
  <2>2. NoBufferReuse'
    BY DEF Core, TypeOK, HandoffPhase, NoBufferReuse, StartWbPCs, Wbs
  <2>3. QuietPhase'
    BY DEF Core, TypeOK, SuspendPhase, InitializedPhase, QuietPhase, StartWbPCs
  <2> QED
    BY <2>1, <2>2, <2>3
<1>22. CASE ShutdownGet
  <2> USE <1>22 DEF ShutdownGet, vars, refVars, References, Holds, pmVars, wbVars, ttyVars
  <2>1. Core'
    <3>1. TypeOK'
      <4>1. initialized' \in BOOLEAN /\ auto' \in BOOLEAN /\ work' \in BOOLEAN /\ waiting' \in BOOLEAN
        BY Zenon DEF Core, TypeOK
      <4>2. use' \subseteq Wbs /\ inflight' \subseteq Wbs /\ transmitting' \in Int /\ pm' \in Int /\ unbacked' \in Nat
        BY DEF Core, TypeOK
      <4>3. port' \in {"open", "closing"}
        BY DEF Core, TypeOK
      <4> QED
        BY <4>1, <4>2, <4>3 DEF Core, TypeOK, PCs
    <3>2. HandoffPhase' /\ SuspendPhase'
      BY DEF Core, TypeOK, HandoffPhase, SuspendPhase, StartWbPCs
    <3>3. InitializedPhase'
      BY DEF Core, InitializedPhase
    <3> QED
      BY <3>1, <3>2, <3>3 DEF Core
  <2>2. NoBufferReuse'
    BY DEF Core, TypeOK, HandoffPhase, NoBufferReuse, StartWbPCs, Wbs
  <2>3. QuietPhase'
    BY DEF Core, TypeOK, SuspendPhase, InitializedPhase, QuietPhase, StartWbPCs
  <2> QED
    BY <2>1, <2>2, <2>3
<1>23. CASE ShutdownKill
  <2> USE <1>23 DEF ShutdownKill, vars, refVars, References, Holds, pmVars, wbVars, ttyVars
  <2>1. Core'
    BY DEF Core, TypeOK, HandoffPhase, SuspendPhase, InitializedPhase, PCs, StartWbPCs, Wbs
  <2>2. NoBufferReuse'
    BY DEF Core, TypeOK, HandoffPhase, NoBufferReuse, StartWbPCs, Wbs
  <2>3. QuietPhase'
    BY DEF Core, TypeOK, SuspendPhase, InitializedPhase, QuietPhase, StartWbPCs
  <2> QED
    BY <2>1, <2>2, <2>3
<1>24. CASE ActivateRefused
  <2> USE <1>24 DEF ActivateRefused, vars, refVars, References, Holds, pmVars, wbVars, ttyVars
  <2>1. Core'
    BY DEF Core, TypeOK, HandoffPhase, SuspendPhase, InitializedPhase, PCs, StartWbPCs, Wbs
  <2>2. NoBufferReuse'
    BY DEF Core, TypeOK, HandoffPhase, NoBufferReuse, StartWbPCs, Wbs
  <2>3. QuietPhase'
    BY DEF Core, TypeOK, SuspendPhase, InitializedPhase, QuietPhase, StartWbPCs
  <2> QED
    BY <2>1, <2>2, <2>3
<1>26. CASE ActivateAwake
  <2> USE <1>26 DEF ActivateAwake, vars, refVars, References, Holds, pmVars, wbVars, ttyVars
  <2>1. Core'
    BY DEF Core, TypeOK, HandoffPhase, SuspendPhase, InitializedPhase, PCs, StartWbPCs, Wbs
  <2>2. NoBufferReuse'
    BY DEF Core, TypeOK, HandoffPhase, NoBufferReuse, StartWbPCs, Wbs
  <2>3. QuietPhase'
    BY DEF Core, TypeOK, SuspendPhase, InitializedPhase, QuietPhase, StartWbPCs
  <2> QED
    BY <2>1, <2>2, <2>3
<1>27. CASE ActivatePut
  <2> USE <1>27 DEF ActivatePut, vars, refVars, References, Holds, pmVars, wbVars, ttyVars
  <2>1. Core'
    BY DEF Core, TypeOK, HandoffPhase, SuspendPhase, InitializedPhase, PCs, StartWbPCs, Wbs
  <2>2. NoBufferReuse'
    BY DEF Core, TypeOK, HandoffPhase, NoBufferReuse, StartWbPCs, Wbs
  <2>3. QuietPhase'
    BY DEF Core, TypeOK, SuspendPhase, InitializedPhase, QuietPhase, StartWbPCs
  <2> QED
    BY <2>1, <2>2, <2>3
<1>28. CASE ShutdownAwake
  <2> USE <1>28 DEF ShutdownAwake, vars, refVars, References, Holds, pmVars, wbVars, ttyVars
  <2>1. Core'
    BY DEF Core, TypeOK, HandoffPhase, SuspendPhase, InitializedPhase, PCs, StartWbPCs, Wbs
  <2>2. NoBufferReuse'
    BY DEF Core, TypeOK, HandoffPhase, NoBufferReuse, StartWbPCs, Wbs
  <2>3. QuietPhase'
    BY DEF Core, TypeOK, SuspendPhase, InitializedPhase, QuietPhase, StartWbPCs
  <2> QED
    BY <2>1, <2>2, <2>3
<1>29. CASE ShutdownRefused
  <2> USE <1>29 DEF ShutdownRefused, vars, refVars, References, Holds, pmVars, wbVars, ttyVars
  <2>1. Core'
    BY DEF Core, TypeOK, HandoffPhase, SuspendPhase, InitializedPhase, PCs, StartWbPCs, Wbs
  <2>2. NoBufferReuse'
    BY DEF Core, TypeOK, HandoffPhase, NoBufferReuse, StartWbPCs, Wbs
  <2>3. QuietPhase'
    BY DEF Core, TypeOK, SuspendPhase, InitializedPhase, QuietPhase, StartWbPCs
  <2> QED
    BY <2>1, <2>2, <2>3
<1>25. CASE UNCHANGED vars
  BY <1>25 DEF vars, refVars, pmVars, wbVars, ttyVars, Core, TypeOK, HandoffPhase, SuspendPhase,
     InitializedPhase, NoBufferReuse, QuietPhase
<1> QED
  BY <1>1, <1>2, <1>3, <1>4, <1>5, <1>6, <1>7, <1>8, <1>9, <1>10, <1>11, <1>12, <1>13,
     <1>14, <1>15, <1>16, <1>17, <1>18, <1>19, <1>20, <1>21, <1>22, <1>23, <1>24, <1>25,
     <1>26, <1>27, <1>28, <1>29
     DEF Next, Write, Port, SuspendStep, ResumeStep

\* The inductive invariant holds in every reachable state.
LEMMA Invariance == Spec => []IInv
  BY InitIInv, NextIInv, PTL DEF Spec

-----------------------------------------------------------------------------
\* Every variable keeps its type: susp_count stays within the interfaces and
\* no buffer index is out of the pool, whatever suspend and resume meet.
THEOREM TypeCorrect == Spec => []TypeOK
<1>1. IInv => TypeOK
  BY DEF IInv, Core
<1> QED
  BY <1>1, Invariance, PTL

\* No buffer that is in flight, parked or being handed over is free for
\* tty_write to take, and none of them is two of these at once.
THEOREM BuffersNotReused == Spec => []NoBufferReuse
<1>1. IInv => NoBufferReuse
  BY DEF IInv
<1> QED
  BY <1>1, Invariance, PTL

\* Once suspend has returned for every interface of an open port, no write
\* is in flight, however the writes and the suspend interleaved.
THEOREM SuspendIsQuiet == Spec => []QuietWhenSuspended
<1>1. IInv => QuietWhenSuspended
  BY PoolAssumption DEF IInv, Core, SuspendPhase, QuietPhase, QuietWhenSuspended
<1> QED
  BY <1>1, Invariance, PTL

\* A closed port has no write with the host controller or on its way there,
\* even when its close was refused the device and met a resume.
THEOREM ClosedStaysQuiet == Spec => []ClosedIsQuiet
<1>1. IInv => ClosedIsQuiet
  BY DEF IInv, Core, HandoffPhase, QuietPhase, ClosedIsQuiet
<1> QED
  BY <1>1, Invariance, PTL

\* A parked write leaves delayed_wb only by being handed to start_wb.
THEOREM DelayedKept == Spec => DelayedNotDropped
<1> DEFINE Kept == delayed_wb # None /\ delayed_wb' # delayed_wb =>
                     delayed_wb' = None /\ handoff' = delayed_wb
<1>1. [Next]_vars => [Kept]_vars
  <2> SUFFICES ASSUME Next, delayed_wb # None, delayed_wb' # delayed_wb
               PROVE  delayed_wb' = None /\ handoff' = delayed_wb
    BY DEF vars
  <2>1. CASE \E got \in BOOLEAN : WriteDelayed(got)
    BY <2>1 DEF WriteDelayed, Park
  <2>2. CASE ResumeTake
    BY <2>2 DEF ResumeTake
  <2>3. CASE ~(\E got \in BOOLEAN : WriteDelayed(got)) /\ ~ResumeTake
    BY <2>3 DEF Next, Write, WriteNoRoom, WriteDirect, Complete, Softint, Port, ActivateGet,
         ActivateRefused, ActivateAwake, ActivatePut, ActivateDone, ShutdownGet, ShutdownAwake,
         ShutdownRefused, ShutdownKill, SuspendBegin, SuspendStep, SuspendCheck,
         SuspendCount, SuspendStop, SuspendFlush, ResumeBegin, ResumeStep, ResumeCount, ResumeInit,
         ResumeLoad, ResumeStore, ResumeSubmit, ResumeUndoLoad, ResumeUndoStore, wbVars
  <2> QED
    BY <2>1, <2>2, <2>3
<1> QED
  BY <1>1, PTL DEF Spec, DelayedNotDropped

-----------------------------------------------------------------------------
\* Counting the writes in flight.
LEMMA InflightCount ==
  ASSUME TypeOK
  PROVE  /\ IsFiniteSet(inflight) /\ Cardinality(inflight) \in Nat
         /\ \A w \in inflight : Cardinality(inflight \ {w}) = Cardinality(inflight) - 1
         /\ \A w : w \notin inflight => Cardinality(inflight \cup {w}) = Cardinality(inflight) + 1
<1>1. IsFiniteSet(Wbs)
  BY FS_Interval, PoolAssumption DEF Wbs
<1>2. IsFiniteSet(inflight)
  BY <1>1, FS_Subset DEF TypeOK
<1> QED
  BY <1>2, FS_CardinalityType, FS_AddElement, FS_RemoveElement

\* A refused get is missing from the count once and for all.
LEMMA ReferencesCount ==
  ASSUME TypeOK, NEW n \in Int, NEW got \in BOOLEAN, References(n, got)
  PROVE  /\ pm' \in Int /\ unbacked' \in Nat /\ unbacked' >= unbacked
         /\ pm' + unbacked' = pm + unbacked + n
BY DEF TypeOK, References, Holds

\* A step keeps the references balanced: what the count lacks is what
\* unbacked gains.
LEMMA NextBalance ==
  ASSUME IInv, PMBalance, [Next]_vars
  PROVE  PMBalance'
<1> DEFINE count == pm + unbacked
           Asked == {"opening", "held", "closing", "killing"}
<1> USE DEF PMBalance, Holds, None
<1>0. TypeOK /\ HandoffPhase /\ NoBufferReuse
  BY DEF IInv, Core
<1>c. /\ Cardinality(inflight) \in Nat
      /\ \A w \in inflight : Cardinality(inflight \ {w}) = Cardinality(inflight) - 1
      /\ \A w : w \notin inflight => Cardinality(inflight \cup {w}) = Cardinality(inflight) + 1
  BY <1>0, InflightCount
<1>t. count \in Int
  BY <1>0 DEF TypeOK
<1>r. ASSUME NEW n \in Int, NEW got \in BOOLEAN, References(n, got)
      PROVE  count' = count + n
  BY <1>0, <1>r, ReferencesCount DEF TypeOK
<1> HIDE DEF count
<1>b. PMBalance <=> count = Cardinality(inflight) + Holds(delayed_wb # None) + Holds(handoff # None)
                              + Holds(port \in Asked)
  BY DEF count
<1>b2. PMBalance' <=> count' = Cardinality(inflight') + Holds(delayed_wb' # None) + Holds(handoff' # None)
                              + Holds(port' \in Asked)
  BY DEF count
<1> HIDE DEF PMBalance, Asked
<1>1. ASSUME NEW got \in BOOLEAN, NEW ok \in BOOLEAN, WriteDirect(got, ok)
      PROVE  PMBalance'
  <2>1. Allocated \notin inflight
    BY <1>0, <1>1, AllocatedIsFree DEF WriteDirect, NoBufferReuse
  <2>2. UNCHANGED <<delayed_wb, handoff, port>>
    BY <1>1 DEF WriteDirect
  <2>3. CASE ok
    <3>1. count' = count + 1 /\ Cardinality(inflight') = Cardinality(inflight) + 1
      BY <1>1, <1>c, <1>r, <2>1, <2>3 DEF WriteDirect
    <3> QED
      BY <1>b, <1>b2, <1>c, <1>t, <2>2, <3>1
  <2>4. CASE ~ok
    <3>1. count' = count /\ UNCHANGED inflight
      BY <1>1, <1>r, <1>t, <2>4 DEF WriteDirect
    <3> QED
      BY <1>b, <1>b2, <1>c, <1>t, <2>2, <3>1
  <2> QED
    BY <2>3, <2>4
<1>2. ASSUME NEW got \in BOOLEAN, WriteDelayed(got)
      PROVE  PMBalance'
  <2>1. Allocated # None
    BY <1>2, AllocatedIsFree, PoolAssumption DEF WriteDelayed, Wbs
  <2>2. UNCHANGED <<inflight, handoff, port>>
    BY <1>2 DEF WriteDelayed
  <2>3. CASE delayed_wb = None
    <3>1. count' = count + 1 /\ delayed_wb' # None
      BY <1>2, <1>r, <2>1, <2>3 DEF WriteDelayed, Park
    <3> QED
      BY <1>b, <1>b2, <1>c, <1>t, <2>2, <2>3, <3>1
  <2>4. CASE delayed_wb # None
    <3>1. count' = count /\ UNCHANGED delayed_wb
      BY <1>2, <1>r, <1>t, <2>4 DEF WriteDelayed, Park
    <3> QED
      BY <1>b, <1>b2, <1>c, <1>t, <2>2, <3>1
  <2> QED
    BY <2>3, <2>4
<1>3. ASSUME NEW w \in Wbs, Complete(w)
      PROVE  PMBalance'
  <2>1. count' = count - 1
    BY <1>0, <1>3 DEF Complete, References, TypeOK, count
  <2>3. Cardinality(inflight') = Cardinality(inflight) - 1
    BY <1>3, <1>c DEF Complete, References
  <2>2. UNCHANGED <<delayed_wb, handoff, port>>
    BY <1>3 DEF Complete, References
  <2> QED
    BY <1>b, <1>b2, <1>c, <1>t, <2>1, <2>2, <2>3
<1>4. CASE ResumeTake
  <2>1. handoff = None
    BY <1>0, <1>4 DEF ResumeTake, HandoffPhase, StartWbPCs
  <2>2. UNCHANGED <<count, inflight, port>> /\ handoff' = delayed_wb /\ delayed_wb' = None
    BY <1>4 DEF ResumeTake, refVars, count
  <2> QED
    BY <1>b, <1>b2, <1>c, <1>t, <2>1, <2>2
<1>5. ASSUME NEW ok \in BOOLEAN, ResumeSubmit(ok)
      PROVE  PMBalance'
  <2>1. handoff # None /\ handoff \notin inflight
    BY <1>0, <1>5 DEF ResumeSubmit, HandoffPhase, NoBufferReuse, StartWbPCs
  <2>2. UNCHANGED <<delayed_wb, count, port>>
    BY <1>5 DEF ResumeSubmit, refVars, count
  <2>3. CASE ok
    <3>1. handoff' = None /\ Cardinality(inflight') = Cardinality(inflight) + 1
      BY <1>5, <1>c, <2>1, <2>3 DEF ResumeSubmit
    <3> QED
      BY <1>b, <1>b2, <1>c, <1>t, <2>1, <2>2, <3>1
  <2>4. CASE ~ok
    <3>1. UNCHANGED <<inflight, handoff>>
      BY <1>5, <2>4 DEF ResumeSubmit
    <3> QED
      BY <1>b, <1>b2, <2>2, <3>1
  <2> QED
    BY <2>3, <2>4
<1>6. CASE ResumeUndoStore
  <2>1. handoff # None /\ handoff' = None
    BY <1>0, <1>6 DEF ResumeUndoStore, HandoffPhase, StartWbPCs, References
  <2>2. count' = count - 1 /\ UNCHANGED <<inflight, delayed_wb, port>>
    BY <1>0, <1>6 DEF ResumeUndoStore, References, TypeOK, count
  <2> QED
    BY <1>b, <1>b2, <1>c, <1>t, <2>1, <2>2
<1>7. CASE ActivateGet \/ ShutdownGet
  <2>1. count' = count + 1 /\ UNCHANGED <<inflight, delayed_wb, handoff>>
    BY <1>0, <1>7 DEF ActivateGet, ShutdownGet, References, wbVars, TypeOK, count
  <2>2. port \notin Asked /\ port' \in Asked
    BY <1>7 DEF ActivateGet, ShutdownGet, References, Asked
  <2> QED
    BY <1>b, <1>b2, <1>c, <1>t, <2>1, <2>2
<1>8. CASE ActivateRefused \/ ActivatePut \/ ShutdownKill
  <2>1. count' = count - 1 /\ UNCHANGED <<inflight, delayed_wb, handoff>>
    BY <1>0, <1>8 DEF ActivateRefused, ActivatePut, ShutdownKill, References, wbVars, TypeOK, count
  <2>2. port \in Asked /\ port' \notin Asked
    BY <1>8 DEF ActivateRefused, ActivatePut, ShutdownKill, References, Asked
  <2> QED
    BY <1>b, <1>b2, <1>c, <1>t, <2>1, <2>2
<1>9. CASE ShutdownRefused \/ \E readFails \in BOOLEAN : ActivateDone(readFails)
  <2>2. count' = count /\ UNCHANGED <<inflight, delayed_wb, handoff>>
    BY <1>0, <1>9 DEF ShutdownRefused, ActivateDone, References, wbVars, TypeOK, count
  <2>3. port \in Asked <=> port' \in Asked
    BY <1>9 DEF ShutdownRefused, ActivateDone, References, Asked
  <2> QED
    BY <1>b, <1>b2, <1>c, <1>t, <2>2, <2>3
<1>10. CASE ActivateAwake \/ ShutdownAwake
  <2>1. UNCHANGED <<count, inflight, delayed_wb, handoff>>
    BY <1>10 DEF ActivateAwake, ShutdownAwake, refVars, wbVars, count
  <2>2. port \in Asked /\ port' \in Asked
    BY <1>10 DEF ActivateAwake, ShutdownAwake, Asked
  <2> QED
    BY <1>b, <1>b2, <2>1, <2>2
<1>11. CASE UNCHANGED <<refVars, inflight, delayed_wb, handoff, port>>
  BY <1>11, <1>b, <1>b2 DEF refVars, count
<1>12. WriteNoRoom \/ Softint \/ ResumeBegin \/ ResumeCount \/ ResumeInit \/ ResumeLoad
         \/ ResumeStore \/ ResumeUndoLoad \/ SuspendStep \/ UNCHANGED vars
         \/ (\E isAuto \in BOOLEAN : SuspendBegin(isAuto))
         => UNCHANGED <<refVars, inflight, delayed_wb, handoff, port>>
  BY DEF WriteNoRoom, Softint, ResumeBegin, ResumeCount, ResumeInit, ResumeLoad, ResumeStore,
     ResumeUndoLoad, SuspendStep, SuspendCheck, SuspendCount, SuspendStop, SuspendFlush,
     SuspendBegin, vars, wbVars
<1> QED
  BY <1>1, <1>2, <1>3, <1>4, <1>5, <1>6, <1>7, <1>8, <1>9, <1>10, <1>11, <1>12
     DEF Next, Write, Port, ResumeStep

\* The usage count of the interface, on every path through writers, resume,
\* open and close: each reference has one owner, and the count is short of
\* the owners by exactly the gets whose refusal the driver ignored (lines
\* 688, 755) and the activations that put twice (650 after 633).
THEOREM ReferencesBalance == Spec => []PMBalance
<1>1. Init => PMBalance
  BY FS_EmptySet DEF Init, PMBalance, Holds, None
<1>2. IInv /\ PMBalance /\ [Next]_vars => PMBalance'
  BY NextBalance
<1> QED
  BY <1>1, <1>2, Invariance, PTL DEF Spec

-----------------------------------------------------------------------------
(* XrWrite implements XrPower.                                             *)

\* A step that touches neither the port, nor the core's suspend or resume,
\* nor the references.
LEMMA PowerSame ==
  UNCHANGED <<port, pc, susp_count, unbacked>> => UNCHANGED PowerOf!powerVars
BY DEF PowerOf!powerVars, Level

\* A reference of a write is granted or refused, the latter to an open port.
LEMMA WritePower ==
  ASSUME IInv, Write \/ Softint \/ (\E w \in Wbs : Complete(w)) \/ UNCHANGED vars
  PROVE  [PowerOf!Next]_(PowerOf!powerVars)
<1>1. UNCHANGED <<port, pc, susp_count>>
  BY DEF Write, WriteNoRoom, WriteDelayed, WriteDirect, Softint, Complete, vars, pmVars
<1>2. CASE unbacked' = unbacked
  BY <1>1, <1>2, PowerSame
<1>3. CASE unbacked' # unbacked
  <2>1. TypeOK
    BY DEF IInv, Core
  <2>2. PICK got \in BOOLEAN : WriteDelayed(got) \/ \E ok \in BOOLEAN : WriteDirect(got, ok)
    <3>1. ~(WriteNoRoom \/ Softint \/ (\E w \in Wbs : Complete(w)) \/ UNCHANGED vars)
      BY <1>3, <2>1 DEF WriteNoRoom, Softint, Complete, References, Holds, vars, refVars, TypeOK
    <3> QED
      BY <3>1 DEF Write
  <2>3. port = "open" /\ \E n \in {0, 1} : References(n, got)
    BY <2>2 DEF WriteDelayed, WriteDirect, Park
  <2>4. unbacked' # 0
    BY <1>3, <2>1, <2>3, ReferencesCount DEF TypeOK
  <2>5. PowerOf!WriteRefused
    BY <1>1, <2>3, <2>4 DEF PowerOf!WriteRefused, Level
  <2> QED
    BY <2>5 DEF PowerOf!Next
<1> QED
  BY <1>2, <1>3

\* The references of an open and a close keep a runtime suspend away, and
\* nothing is frozen inside either.
LEMMA SuspendNotHeld ==
  ASSUME IInv, PMBalance, NEW isAuto \in BOOLEAN, SuspendBegin(isAuto), unbacked = 0
  PROVE  port \notin {"opening", "held", "closing", "killing"}
<1>1. CASE isAuto
  <2>1. Cardinality(inflight) \in Nat /\ pm \in Int
    BY InflightCount DEF IInv, Core, TypeOK
  <2>2. pm <= 0
    BY <1>1 DEF SuspendBegin
  <2>3. Holds(delayed_wb # None) \in 0..1 /\ Holds(handoff # None) \in 0..1
    BY DEF Holds
  <2>4. Holds(port \in {"opening", "held", "closing", "killing"}) = 0
    <3>1. Holds(port \in {"opening", "held", "closing", "killing"}) \in 0..1
      BY DEF Holds
    <3> QED
      BY <2>1, <2>2, <2>3, <3>1 DEF PMBalance
  <2> QED
    BY <2>4 DEF Holds
<1>2. CASE ~isAuto
  BY <1>2 DEF SuspendBegin
<1> QED
  BY <1>1, <1>2

LEMMA SuspendPower ==
  ASSUME IInv, PMBalance, SuspendStep \/ (\E isAuto \in BOOLEAN : SuspendBegin(isAuto))
  PROVE  [PowerOf!Next]_(PowerOf!powerVars)
<1> USE PoolAssumption DEF IInv, Core, TypeOK, SuspendPhase, Level
<1>1. ASSUME NEW isAuto \in BOOLEAN, SuspendBegin(isAuto)
      PROVE  [PowerOf!Next]_(PowerOf!powerVars)
  <2>1. PowerOf!Referenced => ~(unbacked = 0)
    BY <1>1, SuspendNotHeld DEF PowerOf!Referenced
  <2>2. /\ Level = "awake" /\ Level' = "suspending"
        /\ UNCHANGED <<port, susp_count, unbacked>>
    BY <1>1 DEF SuspendBegin, refVars
  <2>3. PowerOf!SuspendStart
    BY <2>1, <2>2 DEF PowerOf!SuspendStart, PowerOf!Level
  <2> QED
    BY <2>3 DEF PowerOf!Next
<1>2. CASE SuspendCheck
  <2>1. /\ Level = "suspending" /\ UNCHANGED <<port, susp_count, unbacked>>
        /\ Level' = "suspending" \/ Level' = IF susp_count = 0 THEN "awake" ELSE "resuming"
    BY <1>2 DEF SuspendCheck, refVars
  <2>2. CASE Level' = "suspending"
    BY <2>1, <2>2 DEF PowerOf!powerVars
  <2>3. CASE Level' # "suspending"
    <3>1. PowerOf!SuspendRefused
      BY <2>1, <2>3 DEF PowerOf!SuspendRefused, PowerOf!Level
    <3> QED
      BY <3>1 DEF PowerOf!Next
  <2> QED
    BY <2>2, <2>3
<1>3. CASE SuspendCount
  <2>1. susp_count \in 0..(NIntf - 1) /\ susp_count' = susp_count + 1 /\ UNCHANGED <<port, unbacked>>
    BY <1>3 DEF SuspendCount, refVars
  <2>2. Level = "suspending" /\ Level' = "suspending"
    BY <1>3 DEF SuspendCount, NextSuspend
  <2>3. PowerOf!SuspendOne(susp_count)
    BY <2>1, <2>2 DEF PowerOf!SuspendOne, PowerOf!Counts
  <2> QED
    BY <2>1, <2>3 DEF PowerOf!Next
<1>4. CASE SuspendStop
  <2>1. Level = "suspending" /\ Level' = "suspending" /\ UNCHANGED <<port, susp_count, unbacked>>
    BY <1>4 DEF SuspendStop, NextSuspend, refVars
  <2> QED
    BY <2>1 DEF PowerOf!powerVars
<1>5. CASE SuspendFlush
  <2>1. /\ Level = "suspending" /\ Level' = "asleep" /\ susp_count = NIntf
        /\ UNCHANGED <<port, susp_count, unbacked>>
    BY <1>5 DEF SuspendFlush, refVars
  <2>2. PowerOf!FallAsleep
    BY <2>1 DEF PowerOf!FallAsleep, PowerOf!Level
  <2> QED
    BY <2>2 DEF PowerOf!Next
<1> QED
  BY <1>1, <1>2, <1>3, <1>4, <1>5 DEF SuspendStep

LEMMA ResumePower ==
  ASSUME IInv, ResumeBegin \/ ResumeStep
  PROVE  [PowerOf!Next]_(PowerOf!powerVars)
<1> USE PoolAssumption DEF IInv, Core, TypeOK, SuspendPhase, StartWbPCs, Level
<1>1. CASE ResumeBegin
  <2>1. Level = "asleep" /\ Level' = "resuming" /\ UNCHANGED <<port, susp_count, unbacked>>
    BY <1>1 DEF ResumeBegin, refVars
  <2>2. PowerOf!WakeUp
    BY <2>1 DEF PowerOf!WakeUp, PowerOf!Level
  <2> QED
    BY <2>2 DEF PowerOf!Next
<1>2. CASE ResumeCount
  <2> DEFINE n == susp_count - 1
  <2>1. n \in 0..(NIntf - 1) /\ susp_count = n + 1 /\ susp_count' = n /\ UNCHANGED <<port, unbacked>>
    BY <1>2 DEF ResumeCount, refVars
  <2>2. Level = "resuming" /\ Level' = "resuming"
    BY <1>2 DEF ResumeCount, refVars
  <2> HIDE DEF n
  <2>3. PowerOf!ResumeOne(n)
    BY <2>1, <2>2 DEF PowerOf!ResumeOne, PowerOf!Counts
  <2> QED
    BY <2>1, <2>3 DEF PowerOf!Next
<1>3. CASE ResumeStep /\ ~ResumeCount
  <2>1. /\ Level = "resuming" /\ Level' \in {"resuming", "awake"} /\ susp_count = 0
        /\ UNCHANGED <<port, susp_count, unbacked>>
    BY <1>3 DEF ResumeStep, ResumeInit, ResumeTake, ResumeLoad, ResumeStore, ResumeSubmit,
                ResumeUndoLoad, ResumeUndoStore, References, Holds, refVars
  <2>2. CASE Level' = "resuming"
    BY <2>1, <2>2 DEF PowerOf!powerVars
  <2>3. CASE Level' = "awake"
    <3>1. PowerOf!Resumed
      BY <2>1, <2>3 DEF PowerOf!Resumed, PowerOf!Level
    <3> QED
      BY <3>1 DEF PowerOf!Next
  <2> QED
    BY <2>1, <2>2, <2>3
<1> QED
  BY <1>1, <1>2, <1>3

LEMMA PortPower ==
  ASSUME IInv, Port
  PROVE  [PowerOf!Next]_(PowerOf!powerVars)
<1> USE DEF Level, pmVars, PowerOf!Session
<1> USE DEF IInv, Core, TypeOK
<1>1. CASE ActivateGet \/ ActivateRefused \/ ActivatePut
  <2>1. unbacked' = unbacked
    BY <1>1 DEF ActivateGet, ActivateRefused, ActivatePut, References, Holds
  <2>2. PowerOf!OpenGet \/ PowerOf!OpenRefused \/ PowerOf!OpenPut
    BY <1>1, <2>1 DEF ActivateGet, ActivateRefused, ActivatePut, References, PowerOf!OpenGet,
         PowerOf!OpenRefused, PowerOf!OpenPut
  <2> QED
    BY <2>2 DEF PowerOf!Next
<1>2. CASE ActivateAwake \/ ShutdownAwake
  <2>1. PowerOf!OpenAwake \/ PowerOf!CloseAwake
    BY <1>2 DEF ActivateAwake, ShutdownAwake, refVars, PowerOf!OpenAwake, PowerOf!CloseAwake
  <2> QED
    BY <2>1 DEF PowerOf!Next
<1>3. ASSUME NEW readFails \in BOOLEAN, ActivateDone(readFails)
      PROVE  [PowerOf!Next]_(PowerOf!powerVars)
  <2>1. unbacked' = 0 => unbacked = 0
    BY <1>3 DEF ActivateDone, References, Holds
  <2>2. PowerOf!OpenEnds
    BY <1>3, <2>1 DEF ActivateDone, References, PowerOf!OpenEnds
  <2> QED
    BY <2>2 DEF PowerOf!Next
<1>4. CASE ShutdownGet \/ ShutdownKill
  <2>1. unbacked' = unbacked
    BY <1>4 DEF ShutdownGet, ShutdownKill, References, Holds
  <2>2. PowerOf!CloseGet \/ PowerOf!CloseEnds
    BY <1>4, <2>1 DEF ShutdownGet, ShutdownKill, References, PowerOf!CloseGet, PowerOf!CloseEnds
  <2> QED
    BY <2>2 DEF PowerOf!Next
<1>5. CASE ShutdownRefused
  <2>1. ~(unbacked' = 0)
    BY <1>5 DEF ShutdownRefused, References, Holds
  <2>2. PowerOf!CloseRefused
    BY <1>5, <2>1 DEF ShutdownRefused, References, PowerOf!CloseRefused
  <2> QED
    BY <2>2 DEF PowerOf!Next
<1> QED
  BY <1>1, <1>2, <1>3, <1>4, <1>5 DEF Port

\* As long as no reference was put that had not been taken, no suspend starts
\* under an open or a close; and susp_count counts every interface down and
\* up again.  What a refused get (688, 755) or a second put (650) leaves the
\* count short of is all that may let a suspend in.
THEOREM WriteImplementsPower == Spec => ImplementsPower
<1>1. Init => PowerOf!Init
  BY DEF Init, PowerOf!Init, Level
<1>2. IInv /\ PMBalance /\ [Next]_vars => [PowerOf!Next]_(PowerOf!powerVars)
  <2> SUFFICES ASSUME IInv, PMBalance, [Next]_vars PROVE [PowerOf!Next]_(PowerOf!powerVars)
    OBVIOUS
  <2>1. CASE Write \/ Softint \/ (\E w \in Wbs : Complete(w)) \/ UNCHANGED vars
    BY <2>1, WritePower
  <2>2. CASE Port
    BY <2>2, PortPower
  <2>3. CASE SuspendStep \/ (\E isAuto \in BOOLEAN : SuspendBegin(isAuto))
    BY <2>3, SuspendPower
  <2>4. CASE ResumeBegin \/ ResumeStep
    BY <2>4, ResumePower
  <2> QED
    BY <2>1, <2>2, <2>3, <2>4, Zenon DEF Next
<1> QED
  BY <1>1, <1>2, Invariance, ReferencesBalance, PTL DEF Spec, ImplementsPower, PowerOf!Spec

\* What an open and a close rely on: a device that they have found awake
\* stays so until they put their reference (lines 605-633, 686-696), unless
\* the driver has put one it never took.  It follows from XrPower alone.
THEOREM StaysAwake == Spec => []HeldAwake
<1>1. PowerOf!Init => HeldAwake
  BY DEF PowerOf!Init, HeldAwake
<1>2. HeldAwake /\ [PowerOf!Next]_(PowerOf!powerVars) => HeldAwake'
  <2> SUFFICES ASSUME HeldAwake, [PowerOf!Next]_(PowerOf!powerVars),
                      unbacked' = 0, port' \in {"held", "killing"}
               PROVE  Level' = "awake"
    BY DEF HeldAwake, Level
  <2> USE DEF HeldAwake
  <2>1. pc = "active" <=> Level = "awake"
    BY DEF Level
  <2>2. CASE UNCHANGED PowerOf!powerVars
    BY <2>1, <2>2 DEF PowerOf!powerVars
  <2>3. CASE PowerOf!Next
    <3>1. PowerOf!SuspendStart => FALSE
      BY DEF PowerOf!SuspendStart, PowerOf!Referenced, PowerOf!Level
    <3>2. PowerOf!CloseRefused => FALSE
      BY DEF PowerOf!CloseRefused, PowerOf!Session
    <3> QED
      BY <2>1, <2>3, <3>1, <3>2 DEF PowerOf!Next, PowerOf!OpenGet, PowerOf!OpenRefused,
         PowerOf!OpenAwake, PowerOf!OpenPut, PowerOf!OpenEnds, PowerOf!CloseGet,
         PowerOf!CloseAwake, PowerOf!CloseEnds, PowerOf!WriteRefused, PowerOf!Session,
         PowerOf!Level, PowerOf!SuspendRefused, PowerOf!FallAsleep, PowerOf!WakeUp,
         PowerOf!Resumed, PowerOf!SuspendOne, PowerOf!ResumeOne, PowerOf!Counts
  <2> QED
    BY <2>2, <2>3
<1> QED
  BY <1>1, <1>2, WriteImplementsPower, PTL DEF ImplementsPower, PowerOf!Spec

-----------------------------------------------------------------------------
(* Progress of suspend and resume.                                         *)

\* How many steps the core's transition has left at most, one way or the
\* other, until the device is awake again.
Rank ==
  CASE pc = "active" -> 0 [] pc = "undoStore" -> 1 [] pc = "undoLoad" -> 2
    [] pc = "submit" -> 3 [] pc = "store" -> 4 [] pc = "load" -> 5
    [] pc = "take" -> 6 [] pc = "init" -> 7
    [] pc = "resume" -> 7 + susp_count
    [] pc = "suspended" -> 8 + NIntf [] pc = "flush" -> 9 + NIntf
    [] pc = "count" -> 10 + NIntf + 3 * (NIntf - susp_count)
    [] pc = "check" -> 11 + NIntf + 3 * (NIntf - susp_count)
    [] OTHER -> 12 + NIntf + 3 * (NIntf - susp_count)

\* Each step of a suspend or a resume brings it nearer its end, and nothing
\* that happens meanwhile takes it back: a suspend that is refused, at either
\* interface, is undone once, and a delayed write is tried once, so that what
\* an open or a close waits for is a bounded number of the core's steps
\* (lines 1875-1953).
THEOREM PowerShortens ==
  Spec => [][/\ SuspendStep \/ ResumeBegin \/ ResumeStep => Rank' < Rank
             /\ pc # "active" => Rank' < Rank \/ UNCHANGED <<pc, susp_count>>]_vars
<1> DEFINE Shortens == /\ SuspendStep \/ ResumeBegin \/ ResumeStep => Rank' < Rank
                       /\ pc # "active" => Rank' < Rank \/ UNCHANGED <<pc, susp_count>>
<1>1. IInv /\ [Next]_vars => [Shortens]_vars
  <2> SUFFICES ASSUME IInv, Next PROVE Shortens
    OBVIOUS
  <2>0. TypeOK /\ SuspendPhase /\ NIntf \in {1, 2} /\ susp_count \in 0..NIntf
    BY PoolAssumption DEF IInv, Core, TypeOK
  <2>1. CASE SuspendStep
    <3> USE <2>0 DEF Rank, SuspendPhase, NextSuspend
    <3>1. SuspendCheck => Rank' < Rank
      BY DEF SuspendCheck
    <3>2. SuspendCount => Rank' < Rank
      BY DEF SuspendCount
    <3>3. SuspendStop => Rank' < Rank
      BY DEF SuspendStop
    <3>4. SuspendFlush => Rank' < Rank
      BY DEF SuspendFlush
    <3> QED
      BY <2>1, <3>1, <3>2, <3>3, <3>4 DEF SuspendStep
  <2>2. CASE ResumeBegin \/ ResumeStep
    <3> USE <2>0 DEF Rank, SuspendPhase
    <3>1. ResumeBegin \/ ResumeCount => Rank' < Rank
      BY DEF ResumeBegin, ResumeCount
    <3>2. ResumeInit \/ ResumeTake \/ ResumeLoad \/ ResumeStore => Rank' < Rank
      BY DEF ResumeInit, ResumeTake, ResumeLoad, ResumeStore
    <3>3. ASSUME NEW ok \in BOOLEAN, ResumeSubmit(ok) PROVE Rank' < Rank
      BY <3>3 DEF ResumeSubmit
    <3>4. ResumeUndoLoad \/ ResumeUndoStore => Rank' < Rank
      BY DEF ResumeUndoLoad, ResumeUndoStore, References
    <3> QED
      BY <2>2, <3>1, <3>2, <3>3, <3>4 DEF ResumeStep
  <2>3. CASE ~(SuspendStep \/ ResumeBegin \/ ResumeStep)
    <3>1. pc # "active" => UNCHANGED <<pc, susp_count>>
      <4>1. Write \/ Softint \/ (\E w \in Wbs : Complete(w)) => UNCHANGED <<pc, susp_count>>
        BY DEF Write, WriteNoRoom, WriteDelayed, WriteDirect, Softint, Complete, pmVars
      <4>2. Port => UNCHANGED <<pc, susp_count>>
        BY DEF Port, ActivateGet, ActivateRefused, ActivateAwake, ActivatePut, ActivateDone, ShutdownGet,
               ShutdownAwake, ShutdownRefused, ShutdownKill, pmVars
      <4>3. (\E isAuto \in BOOLEAN : SuspendBegin(isAuto)) => pc = "active"
        BY DEF SuspendBegin
      <4> QED
        BY <2>3, <4>1, <4>2, <4>3, Zenon DEF Next
    <3> QED
      BY <2>3, <3>1
  <2> QED
    BY <2>1, <2>2, <2>3
<1> QED
  BY <1>1, Invariance, PTL DEF Spec
=============================================================================
