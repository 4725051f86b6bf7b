---------------------------- MODULE XrReadProofs ----------------------------
(***************************************************************************)
(* Theorems about XrRead for every number of read URBs and interfaces.     *)
(*                                                                         *)
(* OneOwner is not inductive as it stands.  It rests on a caller of        *)
(* submit_read_urb not being started again while it still has an URB in    *)
(* hand, which the guards of the code's contexts give only together        *)
(* (Phases), and on cardinalities, which the step from one state to the    *)
(* next does better without (Unique).                                      *)
(***************************************************************************)
EXTENDS XrRead, FiniteSetTheorems, TLAPS

Busy == {"look", "submit", "restore"}

\* A thread has an URB in its index exactly while it runs, and each context
\* runs only at its place: the handler, an open, a resume.
Phases ==
  /\ \A t \in Threads : ph[t] \in Busy <=> at[t] # None
  /\ \A t \in Threads \ {"open"} : ph[t] # "failed"
  /\ ph["callback"] # "idle" => cbpc = "submit"
  /\ ph["resume"] # "idle" => pc = "reading"
  /\ ph["open"] # "idle" => port = "starting"
  /\ cbpc # "none" <=> cb # None

Taking(t, u) == ph[t] \in {"submit", "restore"} /\ at[t] = u

\* OneOwner without cardinalities.
Unique ==
  \A u \in Urbs :
    /\ u \in free => u \notin hcd
    /\ u \in free \cup hcd => \A t \in Threads : ~Taking(t, u)
    /\ u \notin free \cup hcd => \E t \in Threads : Taking(t, u)
    /\ \A s, t \in Threads : Taking(s, u) /\ Taking(t, u) => s = t

\* What the core's suspend and resume have counted at each pc.
Counted ==
  /\ pc = "count" => susp_count \in 0..(NIntf - 1)
  /\ pc \in {"stop", "resume"} => susp_count \in 1..NIntf
  /\ pc \in {"flush", "suspended"} => susp_count = NIntf
  /\ pc \in {"active", "restart", "reading"} => susp_count = 0

IInv == TypeOK /\ Phases /\ Counted /\ Unique

\* The two halves of TypeOK: the flags, and all the rest.
Flags ==
  /\ ctrl \in BOOLEAN /\ stray \in BOOLEAN /\ excused \in BOOLEAN
  /\ throttled \in BOOLEAN /\ throttle_req \in BOOLEAN

Ranges ==
  /\ port \in {"closed", "opening", "held", "starting", "open", "closing", "killing"}
  /\ free \subseteq Urbs /\ hcd \subseteq Urbs
  /\ cb \in Urbs \cup {None} /\ cbpc \in {"none", "process", "throttle", "submit"}
  /\ at \in [Threads -> Urbs \cup {None}]
  /\ ph \in [Threads -> {"idle", "look", "submit", "restore", "failed"}]
  /\ susp_count \in 0..NIntf
  /\ pc \in {"active", "count", "stop", "flush", "suspended", "resume", "restart", "reading"}
  /\ k \in 0..(NR + 1)

-----------------------------------------------------------------------------
LEMMA InitIInv == Init => IInv
<1> SUFFICES ASSUME Init PROVE IInv
  OBVIOUS
<1> USE UrbAssumption DEF Init
<1>1. TypeOK
  <2>1. Flags
    BY DEF Flags
  <2>2. Ranges
    BY DEF Ranges, Urbs, Threads, None
  <2> QED
    BY <2>1, <2>2 DEF TypeOK, Flags, Ranges
<1>2. Phases /\ Counted
  BY DEF Phases, Counted, Busy, Threads, None
<1>3. Unique
  BY DEF Unique, Taking, Threads
<1> QED
  BY <1>1, <1>2, <1>3 DEF IInv

LEMMA NextFlags ==
  ASSUME Flags, [Next]_vars
  PROVE  Flags'
<1> USE DEF Flags, throttleVars
<1>1. CASE UNCHANGED vars
  BY <1>1 DEF vars
<1>2. CASE \/ \E t \in Threads : Thread(t)
           \/ \E u \in Urbs : GiveBack(u)
           \/ Callback \/ CtrlIrqFails \/ Throttle \/ Unthrottle \/ WriteRefused
  BY <1>2, Zenon DEF Thread, Take, Submit, SubmitFails, Restore, GiveBack, Callback, Process,
                     CheckThrottle, CallbackReturns, CtrlIrqFails, Throttle, Unthrottle, WriteRefused
<1>3. CASE Port \/ Kill
  BY <1>3, Zenon DEF Port, ActivateGet, ActivateAwake, ActivateStart, ActivateDone, ShutdownGet,
                     ShutdownAwake, ShutdownRefused, ShutdownDone, Kill, KillCtrl, KillRead
<1>4. CASE SuspendBegin \/ SuspendBusy \/ SuspendStep \/ ResumeBegin \/ ResumeStep
  BY <1>4, Zenon DEF SuspendBegin, SuspendBusy, SuspendStep, SuspendCount, StopDone, SuspendFlush,
                     ResumeBegin, ResumeStep, ResumeCount, ResumeDone, ResumeRestart
<1> QED
  BY <1>1, <1>2, <1>3, <1>4 DEF Next

\* The ranges and the places of the threads, for every step.
LEMMA NextPhases ==
  ASSUME Ranges, Phases, Counted, [Next]_vars
  PROVE  Ranges' /\ Phases' /\ Counted'
<1> USE UrbAssumption DEF Ranges, Busy, Phases, Counted, Urbs, None, Threads, urbVars, cbVars,
                          threadVars, pmVars
<1> DEFINE Goal == Ranges /\ Phases /\ Counted
<1>1. ASSUME NEW t \in Threads, Thread(t) PROVE Goal'
  <2>0. ASSUME at[t] \in Urbs, Advance(t)
        PROVE  /\ at' \in [Threads -> Urbs \cup {None}]
               /\ ph' \in [Threads -> {"idle", "look", "submit", "restore", "failed"}]
               /\ ph'[t] \in Busy <=> at'[t] # None
               /\ ph'[t] # "failed"
               /\ \A s \in Threads \ {t} : ph'[s] = ph[s] /\ at'[s] = at[s]
    BY <2>0 DEF Advance, Start
  <2>1. CASE Take(t)
    <3>1. CASE at[t] \in free
      BY <2>1, <3>1 DEF Take
    <3>2. CASE at[t] \notin free
      <4>1. at[t] \in Urbs /\ Advance(t) /\ UNCHANGED <<port, free, hcd, cb, cbpc, susp_count, pc, k>>
        BY <2>1, <3>2 DEF Take
      <4> QED
        BY <2>0, <4>1
    <3> QED
      BY <3>1, <3>2
  <2>2. CASE Submit(t)
    <3>1. at[t] \in Urbs /\ Advance(t) /\ UNCHANGED <<port, free, cb, cbpc, susp_count, pc, k>>
      BY <2>2 DEF Submit
    <3>2. hcd' = hcd \cup {at[t]}
      BY <2>2 DEF Submit
    <3>3. hcd' \subseteq Urbs
      BY <3>1, <3>2
    <3> QED
      BY <2>0, <3>1, <3>3
  <2>3. CASE SubmitFails(t)
    BY <2>3 DEF SubmitFails
  <2>4. CASE Restore(t)
    BY <2>4 DEF Restore
  <2> QED
    BY <1>1, <2>1, <2>2, <2>3, <2>4 DEF Thread
<1>2. ASSUME NEW u \in Urbs, GiveBack(u) PROVE Goal'
  BY <1>2 DEF GiveBack
<1>3. CASE Process
  BY <1>3 DEF Process
<1>4. CASE CheckThrottle
  BY <1>4 DEF CheckThrottle, Start
<1>5. CASE CallbackReturns
  BY <1>5 DEF CallbackReturns
<1>6. CASE CtrlIrqFails \/ Throttle \/ WriteRefused \/ Kill
  <2>1. CASE CtrlIrqFails \/ Throttle \/ WriteRefused
    BY <2>1 DEF CtrlIrqFails, Throttle, WriteRefused
  <2>2. CASE KillCtrl
    BY <2>2 DEF KillCtrl
  <2>3. CASE KillRead
    BY <2>3 DEF KillRead
  <2> QED
    BY <1>6, <2>1, <2>2, <2>3 DEF Kill
<1>7. CASE Unthrottle
  BY <1>7 DEF Unthrottle, Start
<1>8. CASE \/ ActivateGet \/ ActivateAwake
           \/ ShutdownGet \/ ShutdownAwake \/ ShutdownRefused \/ ShutdownDone
  <2>1. CASE ActivateGet \/ ActivateAwake
    BY <2>1 DEF ActivateGet, ActivateAwake
  <2>2. CASE ShutdownGet
    BY <2>2 DEF ShutdownGet
  <2>3. CASE ShutdownAwake \/ ShutdownRefused
    BY <2>3 DEF ShutdownAwake, ShutdownRefused
  <2>4. CASE ShutdownDone
    BY <2>4 DEF ShutdownDone
  <2> QED
    BY <1>8, <2>1, <2>2, <2>3, <2>4
<1>9. ASSUME NEW ok \in BOOLEAN, ActivateStart(ok) PROVE Goal'
  BY <1>9 DEF ActivateStart, Start
<1>10. CASE ActivateDone
  BY <1>10 DEF ActivateDone
<1>11. CASE SuspendBegin \/ SuspendBusy \/ ResumeBegin
  <2>1. CASE SuspendBegin
    BY <2>1 DEF SuspendBegin
  <2>2. CASE SuspendBusy
    BY <2>2 DEF SuspendBusy
  <2>3. CASE ResumeBegin
    BY <2>3 DEF ResumeBegin
  <2> QED
    BY <1>11, <2>1, <2>2, <2>3
<1>12. CASE SuspendStep
  <2>1. CASE SuspendCount
    BY <2>1 DEF SuspendCount, NextSuspend
  <2>2. CASE StopDone
    BY <2>2 DEF StopDone, NextSuspend
  <2>3. CASE SuspendFlush
    BY <2>3 DEF SuspendFlush
  <2> QED
    BY <1>12, <2>1, <2>2, <2>3 DEF SuspendStep
<1>13. CASE ResumeCount \/ ResumeDone
  <2>1. CASE ResumeCount
    BY <2>1 DEF ResumeCount
  <2>2. CASE ResumeDone
    BY <2>2 DEF ResumeDone
  <2> QED
    BY <1>13, <2>1, <2>2
<1>14. ASSUME NEW ok \in BOOLEAN, ResumeRestart(ok) PROVE Goal'
  BY <1>14 DEF ResumeRestart, Start
<1>15. CASE UNCHANGED vars
  BY <1>15 DEF vars
<1> QED
  BY <1>1, <1>2, <1>3, <1>4, <1>5, <1>6, <1>7, <1>8, <1>9, <1>10, <1>11, <1>12, <1>13, <1>14, <1>15
     DEF Next, Callback, Port, ResumeStep

\* An idle thread that starts, or one that finds its bit cleared and goes
\* on, takes nothing: the owners stay as they are.
LEMMA OwnersStay ==
  ASSUME Unique, UNCHANGED urbVars,
         \A t \in Threads, u \in Urbs : Taking(t, u)' <=> Taking(t, u)
  PROVE  Unique'
BY DEF Unique, urbVars

LEMMA NextUnique ==
  ASSUME TypeOK, Phases, Unique, [Next]_vars
  PROVE  Unique'
<1> USE UrbAssumption
<1>1. ASSUME NEW t \in Threads, Take(t) PROVE Unique'
  <2>1. CASE at[t] \in free
    BY <1>1, <2>1 DEF Take, Unique, Taking, TypeOK
  <2>2. CASE at[t] \notin free
    BY <1>1, <2>2, OwnersStay DEF Take, Advance, Start, Taking, TypeOK, urbVars
  <2> QED
    BY <2>1, <2>2
<1>2. ASSUME NEW t \in Threads, Submit(t) PROVE Unique'
  <2>1. Taking(t, at[t]) /\ at[t] \in Urbs
    BY <1>2 DEF Submit, Taking, Phases, Busy, TypeOK, None
  <2>2. \A s \in Threads, u \in Urbs : Taking(s, u)' <=> Taking(s, u) /\ s # t
    BY <1>2 DEF Submit, Advance, Start, Taking, TypeOK
  <2> QED
    BY <1>2, <2>1, <2>2 DEF Submit, Unique, Taking
<1>3. ASSUME NEW t \in Threads, SubmitFails(t) PROVE Unique'
  BY <1>3, OwnersStay DEF SubmitFails, Taking, TypeOK, urbVars
<1>4. ASSUME NEW t \in Threads, Restore(t) PROVE Unique'
  <2>1. Taking(t, at[t]) /\ at[t] \in Urbs
    BY <1>4 DEF Restore, Taking, Phases, Busy, TypeOK, None
  <2>2. \A s \in Threads, u \in Urbs : Taking(s, u)' <=> Taking(s, u) /\ s # t
    BY <1>4 DEF Restore, Taking, TypeOK
  <2> QED
    BY <1>4, <2>1, <2>2 DEF Restore, Unique, Taking
<1>5. ASSUME NEW u \in Urbs, GiveBack(u) PROVE Unique'
  BY <1>5 DEF GiveBack, Unique, Taking, threadVars
<1>6. CASE CheckThrottle
  BY <1>6, OwnersStay DEF CheckThrottle, Start, Taking, TypeOK, Phases, threadVars, urbVars, Threads
<1>7. CASE Unthrottle
  BY <1>7, OwnersStay DEF Unthrottle, Start, Taking, TypeOK, threadVars, urbVars, Threads
<1>8. ASSUME NEW ok \in BOOLEAN, ActivateStart(ok) PROVE Unique'
  BY <1>8, OwnersStay DEF ActivateStart, Start, Taking, TypeOK, Phases, threadVars, urbVars, Threads
<1>9. CASE ActivateDone
  BY <1>9, OwnersStay DEF ActivateDone, Taking, TypeOK, urbVars, Threads
<1>10. ASSUME NEW ok \in BOOLEAN, ResumeRestart(ok) PROVE Unique'
  BY <1>10, OwnersStay DEF ResumeRestart, Start, Taking, TypeOK, Phases, threadVars, urbVars, Threads
<1>11. CASE UNCHANGED <<urbVars, threadVars>>
  BY <1>11, OwnersStay DEF Taking, threadVars
<1>12. ASSUME Next PROVE \/ UNCHANGED <<urbVars, threadVars>>
                         \/ \E t \in Threads : Thread(t)
                         \/ \E u \in Urbs : GiveBack(u)
                         \/ CheckThrottle \/ Unthrottle \/ ActivateDone
                         \/ \E ok \in BOOLEAN : ActivateStart(ok) \/ ResumeRestart(ok)
  BY <1>12 DEF Next, Callback, Process, CallbackReturns, CtrlIrqFails, Throttle, WriteRefused, Port,
               ActivateGet, ActivateAwake, ShutdownGet, ShutdownAwake, ShutdownRefused, ShutdownDone,
               Kill, KillCtrl, KillRead, SuspendBegin, SuspendBusy,
               SuspendStep, SuspendCount, StopDone, SuspendFlush, ResumeBegin, ResumeStep,
               ResumeCount, ResumeDone
<1>13. CASE UNCHANGED vars
  BY <1>11, <1>13 DEF vars, urbVars
<1> QED
  BY <1>1, <1>2, <1>3, <1>4, <1>5, <1>6, <1>7, <1>8, <1>9, <1>10, <1>11, <1>12, <1>13 DEF Thread

LEMMA Invariance == Spec => []IInv
<1>0. (TypeOK <=> Flags /\ Ranges) /\ (TypeOK' <=> Flags' /\ Ranges')
  BY DEF TypeOK, Flags, Ranges
<1>1. IInv /\ [Next]_vars => IInv'
  BY <1>0, NextFlags, NextPhases, NextUnique DEF IInv
<1> QED
  BY InitIInv, <1>1, PTL DEF Spec

-----------------------------------------------------------------------------
\* Every variable keeps its type, susp_count within the interfaces
\* (xr_usb_serial_common.h:116-155).
THEOREM TypeCorrect == Spec => []TypeOK
BY Invariance, PTL DEF IInv

\* One thread at most has cleared the bit of an URB and not submitted it,
\* and one has exactly while the URB is neither free nor submitted
\* (xr_usb_serial_common.c:366-388, 492).
THEOREM UrbsHaveOneOwner == Spec => []OneOwner
<1>1. ASSUME IInv PROVE OneOwner
  <2> SUFFICES ASSUME NEW u \in Urbs
               PROVE  IF u \in free THEN u \notin hcd /\ Takers(u) = {}
                      ELSE IF u \in hcd THEN Takers(u) = {}
                      ELSE Cardinality(Takers(u)) = 1
    BY DEF OneOwner
  <2>1. Takers(u) = {t \in Threads : Taking(t, u)}
    BY DEF Takers, Taking
  <2>2. CASE u \in free \cup hcd
    BY <1>1, <2>1, <2>2 DEF IInv, Unique
  <2>3. CASE u \notin free \cup hcd
    <3>1. PICK t \in Threads : Taking(t, u)
      BY <1>1, <2>3 DEF IInv, Unique
    <3>2. Takers(u) = {t}
      BY <1>1, <2>1, <3>1 DEF IInv, Unique
    <3> QED
      BY <2>3, <3>2, FS_Singleton
  <2> QED
    BY <2>2, <2>3
<1> QED
  BY Invariance, <1>1, PTL

LEMMA NextPending == ThrottleIsPending /\ [Next]_vars => ThrottleIsPending'
BY DEF ThrottleIsPending, Next, Thread, Take, Submit, SubmitFails, Restore, GiveBack, Callback,
       Process, CheckThrottle, CallbackReturns, CtrlIrqFails, Throttle, Unthrottle, WriteRefused,
       Port, ActivateGet, ActivateAwake, ActivateStart, ActivateDone, ShutdownGet, ShutdownAwake,
       ShutdownRefused, ShutdownDone, Kill, KillCtrl, KillRead,
       SuspendBegin, SuspendBusy, SuspendStep, SuspendCount, StopDone, SuspendFlush,
       ResumeBegin, ResumeStep, ResumeCount, ResumeDone, ResumeRestart, vars, throttleVars

\* Reading that stopped for a throttle request has that request pending, for
\* the unthrottle that will restart it (lines 507, 817-828).
THEOREM ThrottlePending == Spec => []ThrottleIsPending
<1>1. Init => ThrottleIsPending
  BY DEF Init, ThrottleIsPending
<1>2. ThrottleIsPending /\ [Next]_vars => ThrottleIsPending'
  BY NextPending
<1> QED
  BY <1>1, <1>2, PTL DEF Spec

-----------------------------------------------------------------------------
\* ctrlurb is with the controller from the end of an open on, and again when
\* a resume has come as far as the read URBs.  A suspend that counts after an
\* open has found its device awake, and before it ends, spoils the session.
StatusInv ==
  /\ port \in {"held", "starting"} /\ ~excused =>
       pc = "active" \/ (pc = "count" /\ susp_count = 0)
  /\ port = "starting" /\ ~excused => ctrl
  /\ port = "open" /\ ~excused /\ pc \in {"active", "reading"} => ctrl

LEMMA NextStatus ==
  ASSUME Counted, StatusInv, [Next]_vars
  PROVE  StatusInv'
<1> USE DEF StatusInv, Counted, pmVars
<1>1. ASSUME NEW t \in Threads, Thread(t) PROVE StatusInv'
  BY <1>1 DEF Thread, Take, Submit, SubmitFails, Restore
<1>2. ASSUME NEW u \in Urbs, GiveBack(u) PROVE StatusInv'
  BY <1>2 DEF GiveBack
<1>3. CASE Callback \/ CtrlIrqFails \/ Throttle \/ Unthrottle \/ WriteRefused
  BY <1>3 DEF Callback, Process, CheckThrottle, CallbackReturns, CtrlIrqFails, Throttle, Unthrottle,
              WriteRefused
<1>4. CASE Port
  <2>1. CASE \/ ActivateGet \/ ActivateAwake
             \/ ShutdownGet \/ ShutdownAwake \/ ShutdownRefused \/ ShutdownDone
    BY <2>1 DEF ActivateGet, ActivateAwake, ShutdownGet, ShutdownAwake, ShutdownRefused, ShutdownDone
  <2>2. ASSUME NEW ok \in BOOLEAN, ActivateStart(ok) PROVE StatusInv'
    <3>1. CASE ok
      BY <2>2, <3>1 DEF ActivateStart
    <3>2. CASE ~ok
      BY <2>2, <3>2 DEF ActivateStart
    <3> QED
      BY <3>1, <3>2
  <2>3. CASE ActivateDone
    BY <2>3 DEF ActivateDone
  <2> QED
    BY <1>4, <2>1, <2>2, <2>3 DEF Port
<1>5. CASE Kill
  BY <1>5 DEF Kill, KillCtrl, KillRead, Killing
<1>6. CASE SuspendBegin \/ SuspendBusy \/ ResumeBegin
  BY <1>6 DEF SuspendBegin, SuspendBusy, ResumeBegin
<1>7. CASE SuspendStep
  BY <1>7 DEF SuspendStep, SuspendCount, StopDone, SuspendFlush, NextSuspend
<1>8. CASE ResumeStep
  BY <1>8 DEF ResumeStep, ResumeCount, ResumeDone, ResumeRestart
<1>9. CASE UNCHANGED vars
  BY <1>9 DEF vars
<1> QED
  BY <1>1, <1>2, <1>3, <1>4, <1>5, <1>6, <1>7, <1>8, <1>9 DEF Next

\* An open, awake port watches the status of its line after any suspends
\* (xr_usb_serial_common.c:618, 1930).
THEOREM StatusIsWatched == Spec => []StatusWatched
<1>1. Init => StatusInv
  BY DEF Init, StatusInv
<1>2. StatusInv => StatusWatched
  BY DEF StatusInv, StatusWatched
<1> QED
  BY Invariance, NextStatus, <1>1, <1>2, PTL DEF Spec, IInv

-----------------------------------------------------------------------------
\* While port_shutdown kills, the URBs before k are back and stay so: the
\* only thread left is the handler, that is at its own URB.
QuietInv ==
  /\ ph["callback"] # "idle" => at["callback"] = cb
  /\ ph["unthrottle"] # "idle" => port = "open"
  /\ ph["resume"] # "idle" => port \in {"open", "closing"}
  /\ pc = "stop" => port \in {"open", "closing"}
  /\ k # 0 => pc = "stop" \/ port = "killing"
  /\ port = "killing" => \A u \in Urbs : u < k => u \in free /\ cb # u
  /\ port \in {"closed", "opening", "held"} => free = Urbs /\ cb = None

LEMMA NextQuiet ==
  ASSUME IInv, QuietInv, [Next]_vars
  PROVE  QuietInv'
<1> USE UrbAssumption DEF IInv, QuietInv, Phases, Busy, Threads, urbVars, cbVars, threadVars, pmVars
<1> DEFINE Places == /\ port \in {"closed", "opening", "held", "starting", "open", "closing", "killing"}
                     /\ free \subseteq Urbs /\ hcd \subseteq Urbs
                     /\ cb \in Urbs \cup {None}
                     /\ at \in [Threads -> Urbs \cup {None}]
                     /\ ph \in [Threads -> {"idle", "look", "submit", "restore", "failed"}]
                     /\ k \in 0..(NR + 1)
<1>0. Places
  BY DEF TypeOK
<1> HIDE DEF Places
<1>1. ASSUME NEW t \in Threads, Thread(t) PROVE QuietInv'
  <2>1. CASE Take(t)
    BY <1>0, <2>1 DEF Places, Take, Advance, Start, None, Urbs
  <2>2. CASE Submit(t)
    BY <1>0, <2>2 DEF Places, Submit, Advance, Start, None, Urbs
  <2>3. CASE SubmitFails(t)
    BY <1>0, <2>3 DEF Places, SubmitFails
  <2>4. CASE Restore(t)
    BY <1>0, <2>4 DEF Places, Restore, None, Urbs
  <2> QED
    BY <1>1, <2>1, <2>2, <2>3, <2>4 DEF Thread
<1>2. ASSUME NEW u \in Urbs, GiveBack(u) PROVE QuietInv'
  BY <1>0, <1>2 DEF Places, GiveBack, Unique
<1>3. CASE Process \/ CallbackReturns \/ CtrlIrqFails \/ Throttle \/ WriteRefused
  BY <1>0, <1>3 DEF Places, Process, CallbackReturns, CtrlIrqFails, Throttle, WriteRefused, None, Urbs
<1>4. CASE CheckThrottle
  BY <1>0, <1>4 DEF Places, CheckThrottle, Start, None, Urbs
<1>5. CASE Unthrottle
  BY <1>0, <1>5 DEF Places, Unthrottle, Start
<1>6. CASE \/ ActivateGet \/ ActivateAwake \/ ActivateDone
           \/ ShutdownGet \/ ShutdownAwake \/ ShutdownRefused
  BY <1>0, <1>6 DEF Places, ActivateGet, ActivateAwake, ActivateDone, ShutdownGet, ShutdownAwake,
                    ShutdownRefused, Urbs
<1>7. ASSUME NEW ok \in BOOLEAN, ActivateStart(ok) PROVE QuietInv'
  BY <1>0, <1>7 DEF Places, ActivateStart, Start
<1>8. CASE ShutdownDone
  <2>1. \A u \in Urbs : u < k /\ u \in free /\ cb # u
    BY <1>8 DEF ShutdownDone, Urbs
  <2> QED
    BY <1>0, <1>8, <2>1 DEF Places, ShutdownDone
<1>9. CASE KillCtrl
  BY <1>0, <1>9 DEF Places, KillCtrl, Killing, Urbs
<1>10. CASE KillRead
  <2>1. ASSUME port = "killing" PROVE k \in free /\ cb # k
    <3>1. \A t \in Threads : ~Taking(t, k)
      BY <1>10, <2>1 DEF KillRead, Taking
    <3> QED
      BY <1>10, <3>1 DEF KillRead, Unique
  <2> QED
    BY <1>0, <1>10, <2>1 DEF Places, KillRead, Killing, Urbs
<1>11. CASE SuspendBegin \/ SuspendBusy \/ ResumeBegin
  BY <1>11 DEF SuspendBegin, SuspendBusy, ResumeBegin
<1>12. CASE SuspendStep
  BY <1>12 DEF SuspendStep, SuspendCount, StopDone, SuspendFlush, NextSuspend
<1>13. CASE ResumeCount \/ ResumeDone
  BY <1>0, <1>13 DEF Places, ResumeCount, ResumeDone, Urbs
<1>14. ASSUME NEW ok \in BOOLEAN, ResumeRestart(ok) PROVE QuietInv'
  BY <1>0, <1>14 DEF Places, ResumeRestart, Start, Urbs
<1>15. CASE UNCHANGED vars
  BY <1>15 DEF vars
<1> QED
  BY <1>1, <1>2, <1>3, <1>4, <1>5, <1>6, <1>7, <1>8, <1>9, <1>10, <1>11, <1>12, <1>13, <1>14, <1>15
     DEF Next, Callback, Port, Kill, ResumeStep

\* A closed port has every read URB back and no handler running: none that
\* port_shutdown killed starts again (lines 689-699).
THEOREM ClosedQuiet == Spec => []ClosedIsQuiet
<1>1. Init => QuietInv
  BY DEF Init, QuietInv, Threads
<1>2. QuietInv => ClosedIsQuiet
  BY DEF QuietInv, ClosedIsQuiet
<1> QED
  BY Invariance, NextQuiet, <1>1, <1>2, PTL DEF Spec

-----------------------------------------------------------------------------
\* Why reading goes on: of a session that has met no failure, every URB that
\* is free will be looked at again, by the handler that has just given it
\* back or by a caller of submit_read_urbs that has still to come to it.  The
\* one exception is what unthrottle could not submit because the device
\* slept, which a resume found taken.
Session == port \in {"starting", "open"} /\ ~excused
Watching == port = "starting" \/ pc \in {"reading", "active"}

\* t, in the loop of submit_read_urbs, has u ahead of it.
Walks(t, u) ==
  \/ ph[t] = "look" /\ at[t] <= u
  \/ ph[t] = "submit" /\ at[t] < u

Visited(u) ==
  \/ cb = u /\ cbpc \in {"process", "throttle"}
  \/ ph["callback"] = "look" /\ at["callback"] = u
  \/ \E t \in Threads \ {"callback"} : Walks(t, u)

Lost(u) == u \in free /\ ~Visited(u)

HandlerInv ==
  Session =>
    /\ cbpc = "submit" => susp_count = 0 \/ (pc = "stop" /\ k <= cb)
    /\ ph["callback"] = "restore" => pc = "stop"
    /\ Watching => \A t \in Threads \ {"unthrottle"} : ph[t] # "restore"

LostInv ==
  Session /\ Watching /\ ~throttled =>
    /\ ph["unthrottle"] = "restore" => \A u \in Urbs : ~Lost(u)
    /\ \A u, v \in Urbs : Lost(u) /\ Lost(v) => u = v

\* What the steps are proved from.
Known == IInv /\ StatusInv /\ QuietInv /\ ThrottleIsPending

LEMMA NextHandler ==
  ASSUME Known, HandlerInv, [Next]_vars
  PROVE  HandlerInv'
<1> USE UrbAssumption DEF Known, IInv, Phases, Counted, QuietInv, StatusInv, HandlerInv, Session,
          Watching, Busy, Threads, urbVars, cbVars, threadVars, pmVars, throttleVars
<1> DEFINE Places == /\ port \in {"closed", "opening", "held", "starting", "open", "closing", "killing"}
                     /\ cb \in Urbs \cup {None}
                     /\ at \in [Threads -> Urbs \cup {None}]
                     /\ ph \in [Threads -> {"idle", "look", "submit", "restore", "failed"}]
                     /\ k \in 0..(NR + 1) /\ susp_count \in 0..NIntf
<1>0. Places
  BY DEF TypeOK
<1> HIDE DEF Places
<1>1. ASSUME NEW t \in Threads, Thread(t) PROVE HandlerInv'
  <2>1. CASE Take(t)
    BY <1>0, <2>1 DEF Places, Take, Advance, Start
  <2>2. CASE Submit(t)
    BY <1>0, <2>2 DEF Places, Submit, Advance, Start
  <2>3. CASE SubmitFails(t)
    <3>1. /\ UNCHANGED <<port, cb, cbpc, susp_count, pc, k>> /\ ph[t] = "submit"
          /\ ph' = [ph EXCEPT ![t] = "restore"]
          /\ excused' = (excused \/ Accepts(at[t]))
      BY <2>3 DEF SubmitFails
    <3>2. CASE Accepts(at[t])
      BY <3>1, <3>2
    <3>3. CASE ~Accepts(at[t])
      <4>1. CASE Session
        <5>1. pc \in {"flush", "suspended", "stop"}
          BY <3>3, <4>1 DEF Accepts, Awake, Killing
        <5>2. t = "callback" => pc = "stop"
          BY <3>1, <4>1, <5>1
        <5>3. ~Watching
          BY <4>1, <5>1
        <5>4. ph'["callback"] = "restore" => t = "callback" \/ ph["callback"] = "restore"
          BY <1>0, <3>1 DEF Places
        <5> QED
          BY <3>1, <4>1, <5>2, <5>3, <5>4
      <4>2. CASE ~Session
        BY <3>1, <4>2
      <4> QED
        BY <4>1, <4>2
    <3> QED
      BY <3>2, <3>3
  <2>4. CASE Restore(t)
    BY <1>0, <2>4 DEF Places, Restore
  <2> QED
    BY <1>1, <2>1, <2>2, <2>3, <2>4 DEF Thread
<1>2. ASSUME NEW u \in Urbs, GiveBack(u) PROVE HandlerInv'
  BY <1>0, <1>2 DEF Places, GiveBack
<1>3. CASE Process \/ CallbackReturns \/ CtrlIrqFails \/ Throttle \/ WriteRefused
  BY <1>0, <1>3 DEF Places, Process, CallbackReturns, CtrlIrqFails, Throttle, WriteRefused
<1>4. CASE CheckThrottle
  BY <1>0, <1>4 DEF Places, CheckThrottle, Start
<1>5. CASE Unthrottle
  BY <1>0, <1>5 DEF Places, Unthrottle, Start
<1>6. CASE \/ ActivateGet \/ ActivateAwake \/ ActivateDone
           \/ ShutdownGet \/ ShutdownAwake \/ ShutdownRefused \/ ShutdownDone
  BY <1>0, <1>6 DEF Places, ActivateGet, ActivateAwake, ActivateDone, ShutdownGet, ShutdownAwake,
                    ShutdownRefused, ShutdownDone
<1>7. ASSUME NEW ok \in BOOLEAN, ActivateStart(ok) PROVE HandlerInv'
  BY <1>0, <1>7 DEF Places, ActivateStart, Start
<1>8. CASE KillCtrl
  BY <1>0, <1>8 DEF Places, KillCtrl, Killing, Urbs, None
<1>9. CASE KillRead
  BY <1>0, <1>9 DEF Places, KillRead, Killing, Urbs, None
<1>10. CASE SuspendBegin \/ SuspendBusy \/ ResumeBegin
  BY <1>0, <1>10 DEF Places, SuspendBegin, SuspendBusy, ResumeBegin
<1>11. CASE SuspendCount
  <2>1. /\ UNCHANGED <<port, ph, cb, cbpc, k>> /\ pc = "count"
        /\ susp_count' = susp_count + 1 /\ excused' = (excused \/ port \in {"held", "starting"})
        /\ pc' = IF susp_count = 0 /\ port = "open" THEN "stop" ELSE NextSuspend(susp_count + 1)
    BY <1>11 DEF SuspendCount
  <2>2. CASE Session /\ port = "open"
    <3>1. k = 0 /\ ph["callback"] # "restore"
      BY <2>1, <2>2
    <3>2. pc' \in {"stop", "count", "flush"}
      BY <2>1 DEF NextSuspend
    <3>3. cbpc = "submit" => susp_count = 0 /\ cb \in Urbs /\ pc' = "stop"
      BY <1>0, <2>1, <2>2 DEF Places
    <3> QED
      BY <2>1, <2>2, <3>1, <3>2, <3>3 DEF Urbs
  <2>3. CASE ~(Session /\ port = "open")
    BY <2>1, <2>3
  <2> QED
    BY <2>2, <2>3
<1>12. CASE StopDone
  BY <1>0, <1>12 DEF Places, StopDone, NextSuspend, Urbs, None
<1>13. CASE SuspendFlush \/ ResumeCount \/ ResumeDone
  BY <1>0, <1>13 DEF Places, SuspendFlush, ResumeCount, ResumeDone
<1>14. ASSUME NEW ok \in BOOLEAN, ResumeRestart(ok) PROVE HandlerInv'
  BY <1>0, <1>14 DEF Places, ResumeRestart, Start
<1>15. CASE UNCHANGED vars
  BY <1>15 DEF vars
<1> QED
  BY <1>1, <1>2, <1>3, <1>4, <1>5, <1>6, <1>7, <1>8, <1>9, <1>10, <1>11, <1>12, <1>13, <1>14, <1>15
     DEF Next, Callback, Port, Kill, SuspendStep, ResumeStep

\* A step that loses no URB, and puts unthrottle in no worse place.
LEMMA NothingLost ==
  ASSUME LostInv,
         Session' /\ Watching' /\ ~throttled' =>
           /\ Session /\ Watching /\ ~throttled
           /\ ph'["unthrottle"] = "restore" => ph["unthrottle"] = "restore"
           /\ \A u \in Urbs : Lost(u)' => Lost(u)
  PROVE  LostInv'
BY DEF LostInv

LEMMA NextLost ==
  ASSUME Known, HandlerInv, LostInv, [Next]_vars
  PROVE  LostInv'
<1> USE UrbAssumption DEF Busy, Threads, urbVars, cbVars, threadVars, pmVars, throttleVars
<1>p. /\ port \in {"closed", "opening", "held", "starting", "open", "closing", "killing"}
      /\ free \subseteq Urbs /\ hcd \subseteq Urbs
      /\ cb \in Urbs \cup {None}
      /\ at \in [Threads -> Urbs \cup {None}]
      /\ ph \in [Threads -> {"idle", "look", "submit", "restore", "failed"}]
  BY DEF Known, IInv, TypeOK
<1>q. Urbs \subseteq Nat \ {0} /\ None \notin Urbs /\ None = 0
  BY DEF Urbs, None
<1>r. /\ \A t \in Threads : ph[t] \in {"look", "submit", "restore"} <=> at[t] # None
      /\ ph["callback"] # "idle" => cbpc = "submit" /\ at["callback"] = cb
      /\ ph["resume"] # "idle" => pc = "reading"
      /\ ph["open"] # "idle" => port = "starting"
      /\ ph["unthrottle"] # "idle" => port = "open"
      /\ cbpc # "none" <=> cb # None
  BY DEF Known, IInv, Phases, QuietInv
<1>s. Session /\ port = "starting" => pc \in {"active", "count"} /\ (pc = "count" => susp_count = 0)
  BY DEF Known, StatusInv, Session
<1>1. ASSUME NEW t \in Threads, Take(t) PROVE LostInv'
  <2>0. at[t] \in Urbs /\ ph[t] = "look"
    BY <1>1, <1>p, <1>r DEF Take
  <2>1. UNCHANGED <<port, cb, cbpc, throttled, pc, excused>>
    BY <1>1 DEF Take
  <2>2. ph'["unthrottle"] # "restore" \/ ph'["unthrottle"] = ph["unthrottle"]
    BY <1>1, <1>p DEF Take, Advance, Start
  <2>3. ASSUME NEW u \in Urbs, Lost(u)' PROVE Lost(u)
    <3>1. CASE at[t] \in free
      <4>1. u \in free /\ u # at[t]
        BY <1>1, <2>3, <3>1 DEF Take, Lost
      <4>2. UNCHANGED at /\ ph' = [ph EXCEPT ![t] = "submit"]
        BY <1>1, <3>1 DEF Take
      <4>3. \A s \in Threads : Walks(s, u) => Walks(s, u)'
        <5> SUFFICES ASSUME NEW s \in Threads, Walks(s, u) PROVE Walks(s, u)'
          OBVIOUS
        <5>1. CASE s = t
          <6>1. at[t] <= u /\ at[t] \in Nat /\ u \in Nat
            BY <1>q, <2>0, <5>1 DEF Walks
          <6>2. ph'[t] = "submit" /\ at'[t] = at[t] /\ at[t] < u
            BY <1>p, <4>1, <4>2, <6>1
          <6> QED
            BY <5>1, <6>2 DEF Walks
        <5>2. CASE s # t
          BY <1>p, <4>2, <5>2 DEF Walks
        <5> QED
          BY <5>1, <5>2
      <4>4. ph["callback"] = "look" /\ at["callback"] = u => UNCHANGED ph["callback"]
        BY <1>p, <4>1, <4>2
      <4>5. Visited(u) => Visited(u)'
        BY <2>1, <4>2, <4>3, <4>4 DEF Visited
      <4> QED
        BY <2>3, <4>1, <4>5 DEF Lost
    <3>2. CASE at[t] \notin free
      <4>1. u \in free /\ u # at[t] /\ Advance(t)
        BY <1>1, <2>3, <3>2 DEF Take, Lost
      <4>2. Visited(u) => Visited(u)'
        BY <1>p, <1>q, <2>0, <2>1, <4>1 DEF Visited, Walks, Advance, Start, Urbs
      <4> QED
        BY <2>3, <4>1, <4>2 DEF Lost
    <3> QED
      BY <3>1, <3>2
  <2> QED
    BY <2>1, <2>2, <2>3, NothingLost DEF Session, Watching
<1>2. ASSUME NEW t \in Threads, Submit(t) PROVE LostInv'
  <2>0. at[t] \in Urbs /\ ph[t] = "submit"
    BY <1>2, <1>p, <1>r DEF Submit
  <2>1. UNCHANGED <<port, free, cb, cbpc, throttled, pc, excused>> /\ Advance(t)
    BY <1>2 DEF Submit
  <2>2. ph'["unthrottle"] # "restore" \/ ph'["unthrottle"] = ph["unthrottle"]
    BY <2>1, <1>p DEF Advance, Start
  <2>3. ASSUME NEW u \in Urbs, Lost(u)' PROVE Lost(u)
    <3>1. Visited(u) => Visited(u)'
      BY <1>p, <1>q, <2>0, <2>1 DEF Visited, Walks, Advance, Start, Urbs
    <3> QED
      BY <2>1, <2>3, <3>1 DEF Lost
  <2> QED
    BY <2>1, <2>2, <2>3, NothingLost DEF Session, Watching
<1>3. ASSUME NEW t \in Threads, SubmitFails(t) PROVE LostInv'
  <2>1. Session /\ Watching => Accepts(at[t])
    BY <1>s DEF Session, Watching, Accepts, Awake, Killing
  <2>2. UNCHANGED <<port, pc>> /\ excused' = (excused \/ Accepts(at[t]))
    BY <1>3 DEF SubmitFails
  <2>3. ~(Session' /\ Watching')
    BY <2>1, <2>2 DEF Session, Watching
  <2> QED
    BY <2>3 DEF LostInv
<1>4. ASSUME NEW t \in Threads, Restore(t) PROVE LostInv'
  <2>0. at[t] \in Urbs /\ ph[t] = "restore"
    BY <1>4, <1>p, <1>r DEF Restore
  <2>1. /\ UNCHANGED <<port, cb, cbpc, throttled, pc, excused>>
        /\ free' = free \cup {at[t]} /\ at' = [at EXCEPT ![t] = None]
        /\ ph' = [ph EXCEPT ![t] = IF t = "open" THEN "failed" ELSE "idle"]
    BY <1>4 DEF Restore
  <2>2. CASE Session /\ Watching /\ ~throttled
    <3>1. t = "unthrottle"
      BY <2>0, <2>2 DEF HandlerInv
    <3>2. \A u \in Urbs : ~Lost(u)
      BY <2>0, <2>2, <3>1 DEF LostInv
    <3>3. \A u \in Urbs : Visited(u) => Visited(u)'
      BY <1>p, <2>0, <2>1 DEF Visited, Walks
    <3>4. \A u \in Urbs : Lost(u)' => u = at[t]
      BY <2>1, <3>2, <3>3 DEF Lost
    <3>5. ph'["unthrottle"] = "idle"
      BY <1>p, <2>1, <3>1
    <3> QED
      BY <2>0, <3>4, <3>5 DEF LostInv
  <2>3. CASE ~(Session /\ Watching /\ ~throttled)
    BY <2>1, <2>3 DEF LostInv, Session, Watching
  <2> QED
    BY <2>2, <2>3
<1>5. ASSUME NEW x \in Urbs, GiveBack(x) PROVE LostInv'
  <2>1. /\ UNCHANGED <<port, at, ph, throttled, pc, excused>>
        /\ cb = None /\ cbpc = "none" /\ free' = free \cup {x} /\ cb' = x /\ cbpc' = "process"
    BY <1>5, <1>r DEF GiveBack
  <2>2. \A u \in Urbs : Lost(u)' => Lost(u)
    BY <1>q, <2>1 DEF Lost, Visited, Walks
  <2> QED
    BY <2>1, <2>2, NothingLost DEF Session, Watching
<1>6. CASE Process
  <2>1. UNCHANGED <<port, at, ph, throttled, pc, excused, free, cb>> /\ cbpc = "process" /\ cbpc' = "throttle"
    BY <1>6 DEF Process
  <2>2. \A u \in Urbs : Lost(u)' => Lost(u)
    BY <2>1 DEF Lost, Visited, Walks
  <2> QED
    BY <2>1, <2>2, NothingLost DEF Session, Watching
<1>7. CASE CheckThrottle
  <2>1. UNCHANGED <<port, pc, susp_count, excused, free>> /\ throttled' = throttle_req
    BY <1>7 DEF CheckThrottle
  <2>2. CASE throttle_req
    BY <2>1, <2>2 DEF LostInv
  <2>3. CASE ~throttle_req /\ susp_count = 0
    <3>1. cb \in Urbs /\ ph["callback"] = "idle"
      BY <1>7, <1>p, <1>r DEF CheckThrottle
    <3>2. UNCHANGED cb /\ Start("callback", cb) /\ cbpc = "throttle"
      BY <1>7, <2>3 DEF CheckThrottle
    <3>3. \A u \in Urbs : Visited(u) => Visited(u)'
      BY <1>p, <3>1, <3>2 DEF Visited, Walks, Start
    <3>4. ph'["unthrottle"] = ph["unthrottle"] /\ ~throttled
      BY <1>p, <2>3, <3>2 DEF Start, Known, ThrottleIsPending
    <3> QED
      BY <2>1, <3>3, <3>4, NothingLost DEF Session, Watching, Lost
  <2>4. CASE susp_count # 0
    <3>1. ~(Session /\ Watching)
      BY <1>s, <2>4 DEF Session, Watching, Known, IInv, Counted
    <3> QED
      BY <2>1, <3>1 DEF LostInv, Session, Watching
  <2> QED
    BY <2>2, <2>3, <2>4
<1>8. CASE CallbackReturns
  <2>1. UNCHANGED <<port, at, ph, throttled, pc, excused, free>> /\ cbpc = "submit"
    BY <1>8 DEF CallbackReturns
  <2>2. \A u \in Urbs : Lost(u)' => Lost(u)
    BY <2>1 DEF Lost, Visited, Walks
  <2> QED
    BY <2>1, <2>2, NothingLost DEF Session, Watching
<1>9. CASE Unthrottle
  <2>1. /\ UNCHANGED <<port, free, cb, cbpc, pc, excused>> /\ ph["unthrottle"] = "idle"
        /\ IF throttled THEN Start("unthrottle", 1) ELSE UNCHANGED threadVars
    BY <1>9 DEF Unthrottle
  <2>2. CASE throttled
    <3>1. at'["unthrottle"] = 1 /\ ph'["unthrottle"] = "look"
      BY <1>p, <2>1, <2>2 DEF Start
    <3>2. \A u \in Urbs : ~Lost(u)'
      BY <1>q, <3>1 DEF Lost, Visited, Walks
    <3> QED
      BY <3>1, <3>2 DEF LostInv
  <2>3. CASE ~throttled
    BY <2>1, <2>3, NothingLost DEF Session, Watching, Lost, Visited, Walks
  <2> QED
    BY <2>2, <2>3
<1>10. ASSUME NEW ok \in BOOLEAN, ActivateStart(ok) PROVE LostInv'
  <2>1. CASE ok
    <3>1. Start("open", 1) /\ UNCHANGED <<cb, cbpc>> /\ port = "held"
      BY <1>10, <2>1 DEF ActivateStart
    <3>2. at'["open"] = 1 /\ ph'["open"] = "look" /\ ph'["unthrottle"] = "idle"
      BY <1>p, <1>r, <3>1 DEF Start
    <3>3. \A u \in Urbs : ~Lost(u)'
      BY <1>q, <3>2 DEF Lost, Visited, Walks
    <3> QED
      BY <3>2, <3>3 DEF LostInv
  <2>2. CASE ~ok
    BY <1>10, <2>2 DEF ActivateStart, LostInv, Session
  <2> QED
    BY <2>1, <2>2
<1>11. ASSUME NEW ok \in BOOLEAN, ResumeRestart(ok) PROVE LostInv'
  <2>1. CASE port = "open" /\ ok
    <3>1. Start("resume", 1) /\ UNCHANGED <<cb, cbpc>> /\ pc = "restart"
      BY <1>11, <2>1 DEF ResumeRestart
    <3>2. at'["resume"] = 1 /\ ph'["resume"] = "look"
      BY <1>p, <3>1 DEF Start
    <3>3. \A u \in Urbs : ~Lost(u)'
      BY <1>q, <3>2 DEF Lost, Visited, Walks
    <3> QED
      BY <3>3 DEF LostInv
  <2>2. CASE ~(port = "open" /\ ok)
    BY <1>11, <1>s, <2>2 DEF ResumeRestart, LostInv, Session
  <2> QED
    BY <2>1, <2>2
<1>12. CASE ActivateDone
  <2>1. /\ port = "starting" /\ port' = "open"
        /\ excused' = (excused \/ ph["open"] = "failed")
        /\ ph["open"] \in {"idle", "failed"}
        /\ ph' = [ph EXCEPT !["open"] = "idle"]
        /\ UNCHANGED <<free, cb, cbpc, at, throttled, pc>>
    BY <1>12 DEF ActivateDone
  <2>2. \A u \in Urbs : Lost(u)' => Lost(u)
    BY <1>p, <2>1 DEF Lost, Visited, Walks
  <2>3. ph'["unthrottle"] = ph["unthrottle"]
    BY <1>p, <2>1
  <2> QED
    BY <2>1, <2>2, <2>3, NothingLost DEF Session, Watching
<1>13. CASE ResumeDone
  <2>1. UNCHANGED <<port, at, ph, throttled, excused, free, cb, cbpc>> /\ pc = "reading" /\ pc' = "active"
    BY <1>13 DEF ResumeDone
  <2> QED
    BY <2>1, NothingLost DEF Session, Watching, Lost, Visited, Walks
<1>14. ASSUME UNCHANGED <<at, ph, throttled, free, cb, cbpc>>,
              Session' /\ Watching' => Session /\ Watching
       PROVE  LostInv'
  BY <1>14, NothingLost DEF Lost, Visited, Walks
<1>15. \/ CtrlIrqFails \/ Throttle \/ WriteRefused \/ ActivateGet \/ ActivateAwake
       \/ ShutdownGet \/ ShutdownAwake \/ ShutdownRefused \/ ShutdownDone \/ Kill
       \/ SuspendBegin \/ SuspendBusy \/ SuspendStep \/ ResumeBegin \/ ResumeCount \/ UNCHANGED vars
       => LostInv'
  <2>1. CtrlIrqFails => LostInv'
    BY DEF CtrlIrqFails, LostInv, Session
  <2>2. \/ Throttle \/ WriteRefused \/ ActivateGet \/ ActivateAwake
        \/ ShutdownGet \/ ShutdownAwake \/ ShutdownRefused \/ ShutdownDone
        => LostInv'
    BY <1>14 DEF Throttle, WriteRefused, ActivateGet, ActivateAwake, ShutdownGet, ShutdownAwake,
                 ShutdownRefused, ShutdownDone, Session, Watching
  <2>3. Kill => LostInv'
    BY <1>14 DEF Kill, KillCtrl, KillRead, Session, Watching
  <2>4. SuspendBegin \/ SuspendBusy \/ ResumeBegin \/ ResumeCount => LostInv'
    BY <1>14 DEF SuspendBegin, SuspendBusy, ResumeBegin, ResumeCount, Session, Watching
  <2>5. SuspendCount => LostInv'
    <3> SUFFICES ASSUME SuspendCount PROVE LostInv'
      OBVIOUS
    <3>1. pc' \in {"stop", "count", "flush"} /\ UNCHANGED port /\ (port = "starting" => excused')
      BY DEF SuspendCount, NextSuspend
    <3> QED
      BY <3>1 DEF LostInv, Session, Watching
  <2>6. StopDone \/ SuspendFlush => LostInv'
    BY <1>14 DEF StopDone, NextSuspend, SuspendFlush, Session, Watching
  <2>7. UNCHANGED vars => LostInv'
    BY <1>14 DEF vars, Session, Watching
  <2> QED
    BY <2>1, <2>2, <2>3, <2>4, <2>5, <2>6, <2>7 DEF SuspendStep
<1> QED
  BY <1>1, <1>2, <1>3, <1>4, <1>5, <1>6, <1>7, <1>8, <1>9, <1>10, <1>11, <1>12, <1>13, <1>14, <1>15
     DEF Next, Thread, Callback, Port, ResumeStep

\* An open, awake port that is not throttled reads: once handlers and threads
\* are done at most one URB is not with the controller, for any number of them
\* (lines 504-512, 820-829, 1918-1947).
THEOREM ReadingContinues == Spec => []ReadsContinue
<1>1. Init => StatusInv /\ QuietInv /\ ThrottleIsPending /\ HandlerInv /\ LostInv
  BY DEF Init, StatusInv, QuietInv, ThrottleIsPending, HandlerInv, LostInv, Session, Threads
<1>2. ThrottleIsPending /\ [Next]_vars => ThrottleIsPending'
  BY NextPending
<1>3. ASSUME IInv, LostInv PROVE ReadsContinue
  <2> SUFFICES ASSUME port = "open" /\ pc = "active" /\ ~throttled /\ ~excused /\ cb = None,
                      \A t \in Threads : ph[t] = "idle"
               PROVE  Cardinality(free) <= 1
    BY DEF ReadsContinue
  <2>1. free \subseteq Urbs
    BY <1>3 DEF IInv, TypeOK
  <2>2. \A u \in free : Lost(u)
    BY <2>1 DEF Lost, Visited, Walks, Urbs, None, Threads
  <2>3. \A u, v \in free : u = v
    BY <1>3, <2>1, <2>2 DEF LostInv, Session, Watching
  <2>4. CASE free = {}
    BY <2>4, FS_EmptySet
  <2>5. CASE free # {}
    <3>1. PICK u \in free : TRUE
      BY <2>5
    <3>2. free = {u}
      BY <2>3, <3>1
    <3> QED
      BY <3>2, FS_Singleton
  <2> QED
    BY <2>4, <2>5
<1> QED
  BY Invariance, NextStatus, NextQuiet, NextHandler, NextLost, <1>1, <1>2, <1>3, PTL
     DEF Spec, Known, IInv
-----------------------------------------------------------------------------
(* XrRead implements XrUrbs.                                               *)

\* An URB that is neither free nor submitted has the thread that takes it
\* for its owner: Unique makes the choice in OwnerOf the only one.
OwnersKnown ==
  \A u \in Urbs :
    /\ u \in hcd => OwnerOf(u) = "controller"
    /\ u \in free => OwnerOf(u) = "nobody"
    /\ \A t \in Threads : Taking(t, u) <=> OwnerOf(u) = t

LEMMA KnownOwners == Unique => OwnersKnown
<1> SUFFICES ASSUME Unique, NEW u \in Urbs
             PROVE  /\ u \in hcd => OwnerOf(u) = "controller"
                    /\ u \in free => OwnerOf(u) = "nobody"
                    /\ \A t \in Threads : Taking(t, u) <=> OwnerOf(u) = t
  BY DEF OwnersKnown
<1>1. Takers(u) = {t \in Threads : Taking(t, u)}
  BY DEF Takers, Taking
<1>2. CASE u \in hcd
  BY <1>2 DEF Unique, OwnerOf, Threads
<1>3. CASE u \in free
  BY <1>3 DEF Unique, OwnerOf, Threads
<1>4. CASE u \notin free \cup hcd
  <2>1. PICK t \in Threads : Taking(t, u)
    BY <1>4 DEF Unique
  <2>2. Takers(u) = {t}
    BY <1>1, <2>1 DEF Unique
  <2>3. OwnerOf(u) = CHOOSE r \in Threads : r \in Takers(u)
    BY <1>4 DEF OwnerOf
  <2>4. OwnerOf(u) = t
    BY <2>2, <2>3
  <2> QED
    BY <1>4, <2>1, <2>4 DEF Unique
<1> QED
  BY <1>2, <1>3, <1>4

LEMMA KnownOwnersNext == Unique' => OwnersKnown'
BY KnownOwners, PTL

\* An URB whose bit, controller and takers stay as they are keeps its owner.
LEMMA SameOwner ==
  ASSUME NEW u \in Urbs, u \in hcd' <=> u \in hcd, u \in free' <=> u \in free,
         \A t \in Threads : Taking(t, u)' <=> Taking(t, u)
  PROVE  OwnerOf(u)' = OwnerOf(u)
<1>1. Takers(u)' = Takers(u)
  BY DEF Takers, Taking
<1> QED
  BY <1>1 DEF OwnerOf

LEMMA OwnersSame ==
  ASSUME UNCHANGED urbVars,
         \A t \in Threads, u \in Urbs : Taking(t, u)' <=> Taking(t, u)
  PROVE  Owner' = Owner
<1>1. \A u \in Urbs : OwnerOf(u)' = OwnerOf(u)
  BY SameOwner DEF urbVars
<1>2. Owner' = [u \in Urbs |-> OwnerOf(u)']
  BY DEF Owner, Urbs
<1> QED
  BY <1>1, <1>2 DEF Owner

\* One URB changes hands, from its owner to another.
LEMMA OwnerPasses ==
  ASSUME NEW v \in Urbs, NEW o, OwnerOf(v)' = o,
         \A u \in Urbs \ {v} :
           /\ u \in hcd' <=> u \in hcd
           /\ u \in free' <=> u \in free
           /\ \A t \in Threads : Taking(t, u)' <=> Taking(t, u)
  PROVE  Owner' = [Owner EXCEPT ![v] = o]
<1>1. \A u \in Urbs : OwnerOf(u)' = IF u = v THEN o ELSE OwnerOf(u)
  BY SameOwner
<1>2. Owner' = [u \in Urbs |-> OwnerOf(u)']
  BY DEF Owner, Urbs
<1> QED
  BY <1>1, <1>2 DEF Owner

\* The device sleeps with no read URB submitted.
AsleepInv == pc = "suspended" => hcd = {}

LEMMA NextAsleep ==
  ASSUME IInv, AsleepInv, [Next]_vars
  PROVE  AsleepInv'
<1> SUFFICES ASSUME pc' = "suspended" PROVE hcd' = {}
  BY DEF AsleepInv
<1> USE UrbAssumption
<1>1. CASE pc = "suspended"
  <2>1. hcd = {}
    BY <1>1 DEF AsleepInv
  <2> QED
    BY <1>1, <2>1 DEF Next, Thread, Take, Submit, Accepts, Awake, SubmitFails, Restore, GiveBack, Callback,
      Process, CheckThrottle, CallbackReturns, CtrlIrqFails, Throttle, Unthrottle, WriteRefused, Port,
      ActivateGet, ActivateAwake, ActivateStart, ActivateDone, ShutdownGet, ShutdownAwake,
      ShutdownRefused, ShutdownDone, Kill, KillCtrl, KillRead,
      SuspendBegin, SuspendBusy, SuspendStep, SuspendCount, StopDone, SuspendFlush, ResumeBegin,
      ResumeStep, ResumeCount, ResumeDone, ResumeRestart, vars, urbVars
<1>2. CASE pc # "suspended"
  BY <1>2 DEF Next, Thread, Take, Submit, SubmitFails, Restore, GiveBack, Callback,
      Process, CheckThrottle, CallbackReturns, CtrlIrqFails, Throttle, Unthrottle, WriteRefused, Port,
      ActivateGet, ActivateAwake, ActivateStart, ActivateDone, ShutdownGet, ShutdownAwake,
      ShutdownRefused, ShutdownDone, Kill, KillCtrl, KillRead,
      SuspendBegin, SuspendBusy, SuspendStep, SuspendCount, StopDone, SuspendFlush, ResumeBegin,
      ResumeStep, ResumeCount, ResumeDone, ResumeRestart, NextSuspend, vars, urbVars, pmVars
<1> QED
  BY <1>1, <1>2
LEMMA InitUrbs == Init => UrbOwners!Init
<1> SUFFICES ASSUME Init PROVE UrbOwners!Init
  OBVIOUS
<1>1. Owner = [u \in Urbs |-> "nobody"]
  BY DEF Init, Owner, OwnerOf
<1>2. Power = "awake" /\ Killed = Urbs
  BY DEF Init, Power, Killed
<1> QED
  BY <1>1, <1>2 DEF UrbOwners!Init

\* A thread that is at an URB is at none the close has killed.
LEMMA AtAlive ==
  ASSUME IInv, QuietInv, NEW t \in Threads, ph[t] \in Busy
  PROVE  at[t] \in Urbs \ Killed
<1> USE DEF IInv, QuietInv, Phases, Busy, Threads
<1>1. at[t] \in Urbs
  BY DEF TypeOK, None
<1>2. CASE t = "callback"
  <2>1. cb = at[t] /\ cb # None
    BY <1>2
  <2> QED
    BY <1>1, <2>1 DEF Killed, Urbs
<1>3. CASE t \in {"unthrottle", "resume", "open"}
  BY <1>1, <1>3 DEF Killed
<1> QED
  BY <1>1, <1>2, <1>3

LEMMA ThreadUrbs ==
  ASSUME IInv, QuietInv, Unique', NEW t \in Threads, Thread(t)
  PROVE  [UrbOwners!Next]_(UrbOwners!urbVars)
<1> USE DEF IInv
<1>0. OwnersKnown /\ OwnersKnown'
  BY KnownOwners, KnownOwnersNext
<1>1. UNCHANGED <<port, pc, k>> /\ ph[t] \in Busy
  BY DEF Thread, Take, Submit, SubmitFails, Restore, Busy, pmVars
<1>2. UNCHANGED <<Power, Killed>>
  BY <1>1 DEF Power, Killed, Urbs
<1>a. at[t] \in Urbs \ Killed
  BY <1>1, AtAlive
<1>b. PICK v \in Urbs : v = at[t]
  BY <1>a
<1>3. v \in Urbs \ Killed /\ at[t] = v
  BY <1>a, <1>b
<1>4. Owner[v] = OwnerOf(v)
  BY <1>3 DEF Owner
<1>5. CASE Take(t)
  <2>1. CASE v \in free
    <3>1. ph[t] = "look" /\ free' = free \ {v} /\ UNCHANGED <<hcd, at>>
          /\ ph' = [ph EXCEPT ![t] = "submit"]
      BY <1>3, <1>5, <2>1 DEF Take
    <3>2. OwnerOf(v) = "nobody"
      BY <1>0, <1>3, <2>1 DEF OwnersKnown
    <3>3. OwnerOf(v)' = t
      BY <1>0, <1>3, <3>1 DEF OwnersKnown, Taking, TypeOK
    <3>4. Owner' = [Owner EXCEPT ![v] = t]
      BY <1>3, <3>1, <3>3, OwnerPasses DEF Taking, TypeOK
    <3>5. UrbOwners!Owned(t) = {}
      BY <1>0, <3>1 DEF UrbOwners!Owned, Owner, OwnersKnown, Taking
    <3>6. UrbOwners!Take(v, t)
      BY <1>2, <1>3, <1>4, <3>2, <3>4, <3>5 DEF UrbOwners!Take, UrbOwners!Pass
    <3> QED
      BY <1>3, <3>6 DEF UrbOwners!Next
  <2>2. CASE v \notin free
    <3>1. Owner' = Owner
      BY <1>3, <1>5, <2>2, OwnersSame DEF Take, Advance, Start, Taking, TypeOK, urbVars
    <3> QED
      BY <1>2, <3>1 DEF UrbOwners!urbVars
  <2> QED
    BY <2>1, <2>2
<1>6. CASE Submit(t)
  <2>1. /\ ph[t] = "submit" /\ Accepts(v) /\ hcd' = hcd \cup {v} /\ free' = free
        /\ \A s \in Threads, u \in Urbs : Taking(s, u)' <=> Taking(s, u) /\ s # t
    BY <1>3, <1>6 DEF Submit, Advance, Start, Taking, TypeOK
  <2>2. OwnerOf(v) = t
    BY <1>0, <1>3, <2>1 DEF OwnersKnown, Taking
  <2>3. OwnerOf(v)' = "controller"
    BY <1>0, <1>3, <2>1 DEF OwnersKnown
  <2>4. Owner' = [Owner EXCEPT ![v] = "controller"]
    BY <1>3, <2>1, <2>3, OwnerPasses DEF Taking
  <2>5. UrbOwners!Submit(v, t)
    BY <1>2, <1>3, <1>4, <2>1, <2>2, <2>4 DEF UrbOwners!Submit, UrbOwners!Pass, Accepts, Awake, Power
  <2> QED
    BY <1>3, <2>5 DEF UrbOwners!Next
<1>7. CASE SubmitFails(t)
  <2>1. Owner' = Owner
    BY <1>7, OwnersSame DEF SubmitFails, Taking, TypeOK, urbVars
  <2> QED
    BY <1>2, <2>1 DEF UrbOwners!urbVars
<1>8. CASE Restore(t)
  <2>1. /\ ph[t] = "restore" /\ free' = free \cup {v} /\ hcd' = hcd
        /\ \A s \in Threads, u \in Urbs : Taking(s, u)' <=> Taking(s, u) /\ s # t
    BY <1>3, <1>8 DEF Restore, Taking, TypeOK
  <2>2. OwnerOf(v) = t
    BY <1>0, <1>3, <2>1 DEF OwnersKnown, Taking
  <2>3. OwnerOf(v)' = "nobody"
    BY <1>0, <1>3, <2>1 DEF OwnersKnown
  <2>4. Owner' = [Owner EXCEPT ![v] = "nobody"]
    BY <1>3, <2>1, <2>3, OwnerPasses DEF Taking
  <2>5. UrbOwners!PutBack(v, t)
    BY <1>2, <1>4, <2>2, <2>4 DEF UrbOwners!PutBack, UrbOwners!Pass
  <2> QED
    BY <1>3, <2>5 DEF UrbOwners!Next
<1> QED
  BY <1>5, <1>6, <1>7, <1>8 DEF Thread
\* The steps that touch neither bitmap nor thread: what is left to see is
\* the device's power and what a close has killed.
LEMMA QuietUrbs ==
  ASSUME IInv, QuietInv, Owner' = Owner,
         \/ UNCHANGED <<port, pmVars, k>>
         \/ Port \/ Kill \/ SuspendBegin \/ SuspendBusy \/ SuspendStep \/ ResumeBegin \/ ResumeStep
  PROVE  [UrbOwners!Next]_(UrbOwners!urbVars)
<1> USE UrbAssumption DEF IInv, urbVars, pmVars, Counted
<1>0. k \in 0..(NR + 1) /\ \A u \in Urbs : u \in 1..NR
  BY DEF TypeOK, Urbs
<1>1. CASE UNCHANGED <<port, pmVars, k>>
  <2>1. UNCHANGED <<Power, Killed>>
    BY <1>1 DEF Power, Killed, Urbs
  <2> QED
    BY <2>1 DEF UrbOwners!urbVars
<1>2. CASE ActivateGet
  <2>1. Killed = Urbs /\ Killed' = {} /\ Power' = Power
    BY <1>2 DEF ActivateGet, Killed, Power
  <2> QED
    BY <2>1 DEF UrbOwners!Reopen, UrbOwners!Next
<1>3. CASE ActivateAwake \/ ActivateDone \/ (\E ok \in BOOLEAN : ActivateStart(ok))
  <2>1. Killed = {} /\ Killed' = {} /\ Power' = Power
    BY <1>3 DEF ActivateAwake, ActivateDone, ActivateStart, Killed, Power
  <2> QED
    BY <2>1 DEF UrbOwners!urbVars
<1>4. CASE ShutdownGet \/ ShutdownAwake \/ ShutdownRefused
  <2>1. ShutdownAwake \/ ShutdownRefused => k = 0 /\ k' = 0
    BY DEF QuietInv, ShutdownAwake, ShutdownRefused
  <2>2. Killed = {} /\ Killed' = {} /\ Power' = Power
    BY <1>0, <1>4, <2>1 DEF ShutdownGet, ShutdownAwake, ShutdownRefused, Killed, Power, Urbs
  <2> QED
    BY <2>2 DEF UrbOwners!urbVars
<1>5. CASE ShutdownDone
  <2>1. Killed = Urbs /\ Killed' = Urbs /\ Power' = Power
    BY <1>5 DEF ShutdownDone, Killed, Power, Urbs
  <2> QED
    BY <2>1 DEF UrbOwners!urbVars
<1>6. CASE KillCtrl
  <2>1. k = 0 /\ k' = 1 /\ UNCHANGED <<port, pc>>
    BY <1>6 DEF KillCtrl
  <2>2. \A u \in Urbs : ~(u < 0) /\ ~(u < 1)
    BY <1>0
  <2>3. Killed' = Killed /\ Power' = Power
    BY <2>1, <2>2 DEF Killed, Power
  <2> QED
    BY <2>3 DEF UrbOwners!urbVars
<1>7. CASE KillRead
  <2>1. k \in Urbs /\ k \notin hcd /\ cb # k /\ k' = k + 1 /\ UNCHANGED <<port, pc, urbVars, threadVars>>
    BY <1>7 DEF KillRead
  <2>2. Power' = Power
    BY <2>1 DEF Power
  <2>3. CASE port = "killing"
    <3>1. PICK v \in Urbs : v = k
      BY <2>1
    <3>2. Killed = {u \in Urbs : u < v} /\ Killed' = {u \in Urbs : u < v + 1}
      BY <2>1, <2>3, <3>1 DEF Killed, Urbs
    <3>3. Killed' = Killed \cup {v} /\ v \notin Killed
      BY <3>1, <3>2 DEF Urbs
    <3>4. v \in free
      <4>1. \A t \in Threads : ~Taking(t, v)
        BY <2>1, <2>3, <3>1 DEF Taking, Phases, QuietInv, Threads, Busy
      <4> QED
        BY <2>1, <3>1, <4>1 DEF Unique
    <3>5. Owner[v] = "nobody"
      BY <3>4, KnownOwners DEF OwnersKnown, Owner
    <3> QED
      BY <2>2, <3>1, <3>3, <3>5 DEF UrbOwners!Kill, UrbOwners!Next
  <2>4. CASE port # "killing"
    <3>1. Killed' = Killed
      BY <2>1, <2>4 DEF Killed, Urbs
    <3> QED
      BY <2>2, <3>1 DEF UrbOwners!urbVars
  <2> QED
    BY <2>3, <2>4
<1>8. CASE SuspendFlush
  <2>1. Killed' = Killed
    BY <1>8 DEF SuspendFlush, Killed, Urbs
  <2>2. Power = "flushing" /\ Power' = "asleep"
    BY <1>8 DEF SuspendFlush, Power
  <2>3. UrbOwners!Owned("controller") = {}
    <3>1. \A u \in Urbs : OwnerOf(u) # "controller"
      <4>1. hcd = {}
        BY <1>8 DEF SuspendFlush
      <4>2. \A u \in Urbs : u \in free \/ \E t \in Threads : Taking(t, u)
        BY <4>1 DEF Unique
      <4> QED
        BY <4>2, KnownOwners DEF OwnersKnown, Threads
    <3> QED
      BY <3>1 DEF UrbOwners!Owned, Owner
  <2> QED
    BY <2>1, <2>2, <2>3 DEF UrbOwners!Sleep, UrbOwners!Next
<1>9. CASE ResumeBegin
  <2>1. Killed' = Killed /\ Power = "asleep" /\ Power' = "awake"
    BY <1>9 DEF ResumeBegin, Killed, Power, Urbs
  <2> QED
    BY <2>1 DEF UrbOwners!Wake, UrbOwners!Next
<1>10. CASE SuspendCount \/ StopDone
  <2>1. Killed' = Killed
    BY <1>10 DEF SuspendCount, StopDone, NextSuspend, QuietInv, Killed, Urbs
  <2>2. Power = "awake" /\ Power' \in {"awake", "flushing"}
    BY <1>10 DEF SuspendCount, StopDone, NextSuspend, Power
  <2> QED
    BY <2>1, <2>2 DEF UrbOwners!Flush, UrbOwners!Next, UrbOwners!urbVars
<1>11. CASE SuspendBegin \/ SuspendBusy \/ ResumeStep
  <2>1. Killed' = Killed
    BY <1>0, <1>11 DEF SuspendBegin, SuspendBusy, ResumeStep, ResumeCount, ResumeDone, ResumeRestart,
                       QuietInv, Killed, Urbs
  <2>2. Power' = Power
    BY <1>11 DEF SuspendBegin, SuspendBusy, ResumeStep, ResumeCount, ResumeDone, ResumeRestart, Power
  <2> QED
    BY <2>1, <2>2 DEF UrbOwners!urbVars
<1> QED
  BY <1>1, <1>2, <1>3, <1>4, <1>5, <1>6, <1>7, <1>8, <1>9, <1>10, <1>11
     DEF Port, Kill, SuspendStep

LEMMA StepUrbs ==
  ASSUME IInv, QuietInv, AsleepInv, Unique', [Next]_vars
  PROVE  [UrbOwners!Next]_(UrbOwners!urbVars)
<1> USE DEF IInv
<1>1. ASSUME NEW t \in Threads, Thread(t) PROVE [UrbOwners!Next]_(UrbOwners!urbVars)
  BY <1>1, ThreadUrbs
<1>2. ASSUME NEW u \in Urbs, GiveBack(u) PROVE [UrbOwners!Next]_(UrbOwners!urbVars)
  <2>1. /\ u \in hcd /\ hcd' = hcd \ {u} /\ free' = free \cup {u}
        /\ UNCHANGED <<port, pc, k, at, ph>>
    BY <1>2 DEF GiveBack, threadVars, pmVars
  <2>2. UNCHANGED <<Power, Killed>>
    BY <2>1 DEF Power, Killed, Urbs
  <2>3. OwnersKnown /\ OwnersKnown'
    BY KnownOwners, KnownOwnersNext
  <2>4. OwnerOf(u) = "controller" /\ OwnerOf(u)' = "nobody"
    BY <2>1, <2>3 DEF OwnersKnown
  <2>5. Owner' = [Owner EXCEPT ![u] = "nobody"]
    BY <2>1, <2>4, OwnerPasses DEF Taking
  <2>6. Power # "asleep"
    BY <2>1 DEF Power, AsleepInv
  <2>7. UrbOwners!GiveBack(u)
    BY <2>2, <2>4, <2>5, <2>6 DEF UrbOwners!GiveBack, UrbOwners!Pass, Owner
  <2> QED
    BY <2>7 DEF UrbOwners!Next
<1>3. ASSUME UNCHANGED urbVars, \A t \in Threads, u \in Urbs : Taking(t, u)' <=> Taking(t, u),
             \/ UNCHANGED <<port, pmVars, k>>
             \/ Port \/ Kill \/ SuspendBegin \/ SuspendBusy \/ SuspendStep \/ ResumeBegin \/ ResumeStep
      PROVE  [UrbOwners!Next]_(UrbOwners!urbVars)
  BY <1>3, OwnersSame, QuietUrbs
<1>4. CASE CheckThrottle
  <2>1. UNCHANGED <<urbVars, port, pmVars, k>>
    BY <1>4 DEF CheckThrottle
  <2>2. \A t \in Threads, u \in Urbs : Taking(t, u)' <=> Taking(t, u)
    BY <1>4 DEF CheckThrottle, Start, Taking, TypeOK, Phases, threadVars, Threads
  <2> QED
    BY <1>3, <2>1, <2>2
<1>5. CASE Unthrottle
  <2>1. UNCHANGED <<urbVars, port, pmVars, k>>
    BY <1>5 DEF Unthrottle
  <2>2. \A t \in Threads, u \in Urbs : Taking(t, u)' <=> Taking(t, u)
    BY <1>5 DEF Unthrottle, Start, Taking, TypeOK, threadVars, Threads
  <2> QED
    BY <1>3, <2>1, <2>2
<1>6. ASSUME NEW ok \in BOOLEAN, ActivateStart(ok) PROVE [UrbOwners!Next]_(UrbOwners!urbVars)
  <2>1. UNCHANGED urbVars /\ \A t \in Threads, u \in Urbs : Taking(t, u)' <=> Taking(t, u)
    BY <1>6 DEF ActivateStart, Start, Taking, TypeOK, Phases, threadVars, Threads
  <2> QED
    BY <1>3, <1>6, <2>1, Zenon DEF Port
<1>7. CASE ActivateDone
  <2>1. UNCHANGED urbVars /\ \A t \in Threads, u \in Urbs : Taking(t, u)' <=> Taking(t, u)
    BY <1>7 DEF ActivateDone, Taking, TypeOK, Threads
  <2> QED
    BY <1>3, <1>7, <2>1, Zenon DEF Port
<1>8. ASSUME NEW ok \in BOOLEAN, ResumeRestart(ok) PROVE [UrbOwners!Next]_(UrbOwners!urbVars)
  <2>1. UNCHANGED urbVars /\ \A t \in Threads, u \in Urbs : Taking(t, u)' <=> Taking(t, u)
    BY <1>8 DEF ResumeRestart, Start, Taking, TypeOK, Phases, threadVars, Threads
  <2> QED
    BY <1>3, <1>8, <2>1, Zenon DEF ResumeStep
<1>9. CASE UNCHANGED <<urbVars, threadVars, port, pmVars, k>>
  BY <1>3, <1>9 DEF Taking, threadVars
<1>10. CASE Process \/ CallbackReturns \/ CtrlIrqFails \/ Throttle \/ WriteRefused \/ UNCHANGED vars
  BY <1>9, <1>10 DEF Process, CallbackReturns, CtrlIrqFails, Throttle, WriteRefused, vars
<1>11. CASE \/ ActivateGet \/ ActivateAwake
            \/ ShutdownGet \/ ShutdownAwake \/ ShutdownRefused \/ ShutdownDone
            \/ Kill \/ SuspendBegin \/ SuspendBusy
            \/ SuspendStep \/ ResumeBegin \/ ResumeCount \/ ResumeDone
  <2>1. UNCHANGED <<urbVars, threadVars>>
    BY <1>11 DEF ActivateGet, ActivateAwake, ShutdownGet, ShutdownAwake, ShutdownRefused,
                 ShutdownDone, Kill, KillCtrl, KillRead, SuspendBegin,
                 SuspendBusy, SuspendStep, SuspendCount, StopDone, SuspendFlush, ResumeBegin,
                 ResumeCount, ResumeDone
  <2>2. \A t \in Threads, u \in Urbs : Taking(t, u)' <=> Taking(t, u)
    BY <2>1 DEF Taking, threadVars
  <2> QED
    BY <1>3, <1>11, <2>1, <2>2, Zenon DEF Port, ResumeStep
<1> QED
  BY <1>1, <1>2, <1>4, <1>5, <1>6, <1>7, <1>8, <1>10, <1>11 DEF Next, Callback, Port, ResumeStep

\* Every read URB changes hands only as XrUrbs allows: one owner at a time,
\* nothing submitted to a device that is flushed or sleeps, and nothing
\* started again between its kill and the next open, for any number of URBs
\* (xr_usb_serial_common.c:361-396, 492, 679-699, 1862-1947).
THEOREM ReadImplementsUrbs == Spec => ImplementsUrbs
<1>1. Init => UrbOwners!Init /\ QuietInv /\ AsleepInv
  BY InitUrbs DEF Init, QuietInv, AsleepInv, Threads
<1>2. IInv /\ IInv' /\ QuietInv /\ AsleepInv /\ [Next]_vars => [UrbOwners!Next]_(UrbOwners!urbVars)
  BY StepUrbs DEF IInv
<1> QED
  BY <1>1, <1>2, Invariance, NextQuiet, NextAsleep, PTL DEF Spec, ImplementsUrbs, UrbOwners!Spec

-----------------------------------------------------------------------------
(* XrRead implements XrPower.                                              *)

\* A step that touches neither the port nor the core's suspend or resume.
LEMMA PowerSame ==
  UNCHANGED <<port, pc, susp_count, stray>> => UNCHANGED PowerOf!powerVars
BY DEF PowerOf!powerVars, Level

LEMMA PortPower ==
  ASSUME stray \in BOOLEAN, WriteRefused \/ Port
  PROVE  [PowerOf!Next]_(PowerOf!powerVars)
<1> USE DEF Level, pmVars, PowerOf!Session
<1>1. CASE WriteRefused
  <2>1. PowerOf!WriteRefused
    BY <1>1 DEF WriteRefused, PowerOf!WriteRefused
  <2> QED
    BY <2>1 DEF PowerOf!Next
<1>2. CASE ActivateGet
  <2>1. PowerOf!OpenGet
    BY <1>2 DEF ActivateGet, PowerOf!OpenGet
  <2> QED
    BY <2>1 DEF PowerOf!Next
<1>3. CASE ActivateAwake
  <2>1. PowerOf!OpenAwake
    BY <1>3 DEF ActivateAwake, PowerOf!OpenAwake
  <2> QED
    BY <2>1 DEF PowerOf!Next
<1>4. ASSUME NEW ok \in BOOLEAN, ActivateStart(ok)
      PROVE  [PowerOf!Next]_(PowerOf!powerVars)
  <2>1. PowerOf!OpenPut
    BY <1>4 DEF ActivateStart, PowerOf!OpenPut
  <2> QED
    BY <2>1 DEF PowerOf!Next
<1>5. CASE ActivateDone
  <2>1. stray' \in {stray, TRUE}
    BY <1>5 DEF ActivateDone
  <2>2. PowerOf!OpenEnds
    BY <1>5, <2>1 DEF ActivateDone, PowerOf!OpenEnds
  <2> QED
    BY <2>2 DEF PowerOf!Next
<1>6. CASE ShutdownGet
  <2>1. PowerOf!CloseGet
    BY <1>6 DEF ShutdownGet, PowerOf!CloseGet
  <2> QED
    BY <2>1 DEF PowerOf!Next
<1>7. CASE ShutdownAwake
  <2>1. PowerOf!CloseAwake
    BY <1>7 DEF ShutdownAwake, PowerOf!CloseAwake
  <2> QED
    BY <2>1 DEF PowerOf!Next
<1>8. CASE ShutdownRefused
  <2>1. PowerOf!CloseRefused
    BY <1>8 DEF ShutdownRefused, PowerOf!CloseRefused
  <2> QED
    BY <2>1 DEF PowerOf!Next
<1>9. CASE ShutdownDone
  <2>1. PowerOf!CloseEnds
    BY <1>9 DEF ShutdownDone, PowerOf!CloseEnds
  <2> QED
    BY <2>1 DEF PowerOf!Next
<1> QED
  BY <1>1, <1>2, <1>3, <1>4, <1>5, <1>6, <1>7, <1>8, <1>9 DEF Port

LEMMA SuspendPower ==
  ASSUME IInv, SuspendBegin \/ SuspendBusy \/ SuspendStep
  PROVE  [PowerOf!Next]_(PowerOf!powerVars)
<1> USE UrbAssumption DEF IInv, TypeOK, Counted, Level
<1>1. CASE SuspendBegin
  <2>1. PowerOf!SuspendStart
    BY <1>1 DEF SuspendBegin, PowerOf!SuspendStart, PowerOf!Referenced, PowerOf!Level
  <2> QED
    BY <2>1 DEF PowerOf!Next
<1>2. CASE SuspendBusy
  <2>1. PowerOf!SuspendRefused
    BY <1>2 DEF SuspendBusy, PowerOf!SuspendRefused, PowerOf!Level
  <2> QED
    BY <2>1 DEF PowerOf!Next
<1>3. CASE SuspendCount
  <2>1. susp_count \in 0..(NIntf - 1) /\ susp_count' = susp_count + 1 /\ UNCHANGED <<port, stray>>
    BY <1>3 DEF SuspendCount
  <2>2. Level = "suspending" /\ Level' = "suspending"
    BY <1>3 DEF SuspendCount, NextSuspend
  <2>3. PowerOf!SuspendOne(susp_count)
    BY <2>1, <2>2 DEF PowerOf!SuspendOne, PowerOf!Counts
  <2> QED
    BY <2>1, <2>3 DEF PowerOf!Next
<1>4. CASE StopDone
  <2>1. Level = "suspending" /\ Level' = "suspending" /\ UNCHANGED <<port, susp_count, stray>>
    BY <1>4 DEF StopDone, NextSuspend
  <2> QED
    BY <2>1 DEF PowerOf!powerVars
<1>5. CASE SuspendFlush
  <2>1. PowerOf!FallAsleep
    BY <1>5 DEF SuspendFlush, PowerOf!FallAsleep, PowerOf!Level
  <2> QED
    BY <2>1 DEF PowerOf!Next
<1> QED
  BY <1>1, <1>2, <1>3, <1>4, <1>5 DEF SuspendStep

LEMMA ResumePower ==
  ASSUME IInv, ResumeBegin \/ ResumeStep
  PROVE  [PowerOf!Next]_(PowerOf!powerVars)
<1> USE UrbAssumption DEF IInv, TypeOK, Counted, Level
<1>1. CASE ResumeBegin
  <2>1. PowerOf!WakeUp
    BY <1>1 DEF ResumeBegin, PowerOf!WakeUp, PowerOf!Level
  <2> QED
    BY <2>1 DEF PowerOf!Next
<1>2. CASE ResumeCount
  <2> DEFINE n == susp_count - 1
  <2>1. n \in 0..(NIntf - 1) /\ susp_count = n + 1 /\ susp_count' = n /\ UNCHANGED <<port, stray>>
    BY <1>2 DEF ResumeCount
  <2>2. Level = "resuming" /\ Level' = "resuming"
    BY <1>2 DEF ResumeCount
  <2> HIDE DEF n
  <2>3. PowerOf!ResumeOne(n)
    BY <2>1, <2>2 DEF PowerOf!ResumeOne, PowerOf!Counts
  <2> QED
    BY <2>1, <2>3 DEF PowerOf!Next
<1>3. CASE ResumeDone \/ \E ok \in BOOLEAN : ResumeRestart(ok)
  <2>1. /\ Level = "resuming" /\ Level' \in {"resuming", "awake"} /\ susp_count = 0
        /\ UNCHANGED <<port, susp_count, stray>>
    BY <1>3 DEF ResumeDone, ResumeRestart
  <2>2. CASE Level' = "resuming"
    BY <2>1, <2>2 DEF PowerOf!powerVars
  <2>3. CASE Level' = "awake"
    <3>1. PowerOf!Resumed
      BY <2>1, <2>3 DEF PowerOf!Resumed, PowerOf!Level
    <3> QED
      BY <3>1 DEF PowerOf!Next
  <2> QED
    BY <2>1, <2>2, <2>3
<1> QED
  BY <1>1, <1>2, <1>3 DEF ResumeStep

\* The receive path keeps to the sessions, suspends and resumes of XrPower,
\* as the transmit path does, for every number of URBs and interfaces.
THEOREM ReadImplementsPower == Spec => ImplementsPower
<1>1. Init => PowerOf!Init
  BY DEF Init, PowerOf!Init, Level
<1>2. IInv /\ [Next]_vars => [PowerOf!Next]_(PowerOf!powerVars)
  <2> SUFFICES ASSUME IInv, [Next]_vars PROVE [PowerOf!Next]_(PowerOf!powerVars)
    OBVIOUS
  <2>1. CASE \/ \E t \in Threads : Thread(t)
             \/ \E u \in Urbs : GiveBack(u)
             \/ Callback \/ CtrlIrqFails \/ Throttle \/ Unthrottle \/ Kill \/ UNCHANGED vars
    <3>1. UNCHANGED <<port, pc, susp_count, stray>>
      BY <2>1, Zenon DEF Thread, Take, Submit, SubmitFails, Restore, GiveBack, Callback, Process,
                  CheckThrottle, CallbackReturns, CtrlIrqFails, Throttle, Unthrottle, Kill,
                  KillCtrl, KillRead, vars, pmVars
    <3> QED
      BY <3>1, PowerSame
  <2>2. CASE WriteRefused \/ Port
    BY <2>2, PortPower DEF IInv, TypeOK
  <2>3. CASE SuspendBegin \/ SuspendBusy \/ SuspendStep
    BY <2>3, SuspendPower
  <2>4. CASE ResumeBegin \/ ResumeStep
    BY <2>4, ResumePower
  <2> QED
    BY <2>1, <2>2, <2>3, <2>4, Zenon DEF Next
<1> QED
  BY <1>1, <1>2, Invariance, PTL DEF Spec, ImplementsPower, PowerOf!Spec
=============================================================================
