------------------------------- MODULE XrRead -------------------------------
(***************************************************************************)
(* The receive path of the Exar USB-serial driver                          *)
(* (src/ExarKernelDriver/xr_usb_serial_common.c): the read URBs and the    *)
(* bitmap of those that are free, the completion handler, throttling, the  *)
(* control URB, and how they meet suspend, resume, open and shutdown.      *)
(*                                                                         *)
(* submit_read_urb runs in four contexts that nothing excludes from each   *)
(* other: the completion handler, tty_unthrottle, resume and open.  Each   *)
(* is a thread that tests and clears a bit in one step, submits in another *)
(* and sets the bit again in a third when the submission failed.           *)
(*                                                                         *)
(* External: the host controller gives the device's URBs back one at a     *)
(* time; usb_submit_urb refuses an URB that is being killed and a device   *)
(* whose endpoints are flushed or that is suspended; usb_kill_urb returns  *)
(* when the URB is back and its handler has returned; the core suspends    *)
(* and resumes one interface after the other, and not while open or        *)
(* shutdown holds its reference, unless a reference was put that had not   *)
(* been taken (stray); a get that waits and fails does so with the device  *)
(* awake or asleep; no reader is inside the line discipline when shutdown  *)
(* is called.                                                              *)
(*                                                                         *)
(* A definition named ...Bug is the one that follows it with a plausible   *)
(* mistake; no specification uses it.                                      *)
(***************************************************************************)
EXTENDS Integers, FiniteSets

CONSTANTS
  NR,    \* rx_buflimit: XR_USB_SERIAL_NR, or 1 with SINGLE_RX_URB
  NIntf  \* interfaces bound to the driver: 1 (combined) or 2

Urbs == 1..NR
None == 0
Threads == {"callback", "unthrottle", "resume", "open"}

ASSUME UrbAssumption == NR \in Nat \ {0} /\ NIntf \in {1, 2}

VARIABLES
  port,          \* "closed", "opening", "held" (its reference granted), "starting",
                 \* "open", "closing", "killing" (its reference granted or refused)
  free,          \* read_urbs_free
  hcd,           \* the read URBs the host controller owns
  ctrl,          \* it owns ctrlurb
  cb, cbpc,      \* the read URB whose handler runs, and where it is
  at, ph,        \* thread -> the URB it is at in submit_read_urb, and where
  throttled, throttle_req,
  susp_count, pc,  \* suspended interfaces; the core's suspend or resume
  k,             \* the read URB being killed; 0 before, NR + 1 after
  stray,         \* a reference has been put that was not taken
  excused        \* a submission has failed in this session, or a suspend
                 \* met the end of an open: reading is known to stop then

throttleVars == <<throttled, throttle_req>>
urbVars == <<free, hcd>>
threadVars == <<at, ph>>
cbVars == <<cb, cbpc>>
pmVars == <<susp_count, pc>>
vars == <<port, urbVars, ctrl, cbVars, threadVars, throttleVars, pmVars, k, stray, excused>>

Init ==
  /\ port = "closed"
  /\ free = Urbs /\ hcd = {} /\ ctrl = FALSE
  /\ cb = None /\ cbpc = "none"
  /\ at = [t \in Threads |-> None] /\ ph = [t \in Threads |-> "idle"]
  /\ throttled = FALSE /\ throttle_req = FALSE
  /\ susp_count = 0 /\ pc = "active"
  /\ k = 0 /\ stray = FALSE /\ excused = FALSE

\* stop_data_traffic or port_shutdown is killing URBs.  Never both: a suspend
\* stops an open port, and the close's get waits for a suspend that runs.
Killing == pc = "stop" \/ port = "killing"

-----------------------------------------------------------------------------
(* submit_read_urb and submit_read_urbs.                                   *)

\* What usb_submit_urb accepts (external).
Awake == pc \notin {"flush", "suspended"}
Accepts(u) == Awake /\ ~(Killing /\ k = u)

\* submit_read_urbs begins at the first URB, the handler at its own.
Start(t, u) ==
  /\ at' = [at EXCEPT ![t] = u]
  /\ ph' = [ph EXCEPT ![t] = "look"]

\* The loop goes to the next URB; the handler has only one.
AdvanceBug(t) ==
  IF t = "callback" \/ at[t] > NR
  THEN at' = [at EXCEPT ![t] = None] /\ ph' = [ph EXCEPT ![t] = "idle"]
  ELSE Start(t, at[t] + 1)

Advance(t) ==
  IF t = "callback" \/ at[t] = NR
  THEN at' = [at EXCEPT ![t] = None] /\ ph' = [ph EXCEPT ![t] = "idle"]
  ELSE Start(t, at[t] + 1)

\* test_and_clear_bit.
TakeBug(t) ==
  /\ ph[t] = "look"
  /\ IF at[t] \in free
     THEN UNCHANGED <<free, at>> /\ ph' = [ph EXCEPT ![t] = "submit"]
     ELSE UNCHANGED free /\ Advance(t)
  /\ UNCHANGED <<port, hcd, ctrl, cbVars, throttleVars, pmVars, k, stray, excused>>

Take(t) ==
  /\ ph[t] = "look"
  /\ IF at[t] \in free
     THEN free' = free \ {at[t]} /\ ph' = [ph EXCEPT ![t] = "submit"] /\ UNCHANGED at
     ELSE UNCHANGED free /\ Advance(t)
  /\ UNCHANGED <<port, hcd, ctrl, cbVars, throttleVars, pmVars, k, stray, excused>>

Submit(t) ==
  /\ ph[t] = "submit" /\ Accepts(at[t])
  /\ hcd' = hcd \cup {at[t]}
  /\ Advance(t)
  /\ UNCHANGED <<port, free, ctrl, cbVars, throttleVars, pmVars, k, stray, excused>>

SubmitFails(t) ==
  /\ ph[t] = "submit"
  /\ ph' = [ph EXCEPT ![t] = "restore"]
  /\ excused' = (excused \/ Accepts(at[t]))
  /\ UNCHANGED <<port, urbVars, ctrl, cbVars, at, throttleVars, pmVars, k, stray>>

\* set_bit; submit_read_urbs returns at the first failure.
Restore(t) ==
  /\ ph[t] = "restore"
  /\ free' = free \cup {at[t]}
  /\ ph' = [ph EXCEPT ![t] = IF t = "open" THEN "failed" ELSE "idle"]
  /\ at' = [at EXCEPT ![t] = None]
  /\ UNCHANGED <<port, hcd, ctrl, cbVars, throttleVars, pmVars, k, stray, excused>>

-----------------------------------------------------------------------------
(* read_bulk_callback, ctrl_irq, tty_throttle, tty_unthrottle.             *)

\* The URB is given back, with data or killed: its bit is set at once.
GiveBack(u) ==
  /\ u \in hcd /\ cb = None
  /\ hcd' = hcd \ {u} /\ free' = free \cup {u}
  /\ cb' = u /\ cbpc' = "process"
  /\ UNCHANGED <<port, ctrl, threadVars, throttleVars, pmVars, k, stray, excused>>

\* process_read_urb copies the URB's buffer to the tty, whatever its status.
Process ==
  /\ cbpc = "process" /\ cbpc' = "throttle"
  /\ UNCHANGED <<port, urbVars, ctrl, cb, threadVars, throttleVars, pmVars, k, stray, excused>>

\* Without the assignment tty_unthrottle finds nothing to restart.
CheckThrottleBug ==
  /\ cbpc = "throttle"
  /\ IF ~throttle_req /\ susp_count = 0
     THEN Start("callback", cb) /\ cbpc' = "submit" /\ UNCHANGED cb
     ELSE cb' = None /\ cbpc' = "none" /\ UNCHANGED threadVars
  /\ UNCHANGED <<port, urbVars, ctrl, throttleVars, pmVars, k, stray, excused>>

\* Under read_lock: throttled takes the request, and the URB is submitted
\* again unless it is set or an interface is suspended.
CheckThrottle ==
  /\ cbpc = "throttle"
  /\ throttled' = throttle_req
  /\ IF ~throttle_req /\ susp_count = 0
     THEN Start("callback", cb) /\ cbpc' = "submit" /\ UNCHANGED cb
     ELSE cb' = None /\ cbpc' = "none" /\ UNCHANGED threadVars
  /\ UNCHANGED <<port, urbVars, ctrl, throttle_req, pmVars, k, stray, excused>>

CallbackReturns ==
  /\ cbpc = "submit" /\ ph["callback"] = "idle"
  /\ cb' = None /\ cbpc' = "none"
  /\ UNCHANGED <<port, urbVars, ctrl, threadVars, throttleVars, pmVars, k, stray, excused>>

\* ctrl_irq submits ctrlurb again unless it was killed; when that fails the
\* status is no longer watched.  (A lost carrier asks for a hang-up of the
\* tty: see ShutdownGet, that an open port may begin at any time.)
CtrlIrqFails ==
  /\ ctrl
  /\ ctrl' = FALSE /\ excused' = TRUE
  /\ UNCHANGED <<port, urbVars, cbVars, threadVars, throttleVars, pmVars, k, stray>>

Throttle ==
  /\ port = "open" /\ ~throttle_req
  /\ throttle_req' = TRUE
  /\ UNCHANGED <<port, urbVars, ctrl, cbVars, threadVars, throttled, pmVars, k, stray, excused>>

\* One reader at a time; the URBs are submitted after the lock.
Unthrottle ==
  /\ port = "open" /\ throttle_req /\ ph["unthrottle"] = "idle"
  /\ throttled' = FALSE /\ throttle_req' = FALSE
  /\ IF throttled THEN Start("unthrottle", 1) ELSE UNCHANGED threadVars
  /\ UNCHANGED <<port, urbVars, ctrl, cbVars, pmVars, k, stray, excused>>

-----------------------------------------------------------------------------
(* port_activate and port_shutdown.                                        *)

\* usb_autopm_get_interface; the device may have to be woken.
ActivateGet ==
  /\ port = "closed" /\ port' = "opening"
  /\ excused' = FALSE
  /\ UNCHANGED <<urbVars, ctrl, cbVars, threadVars, throttleVars, pmVars, k, stray>>

ActivateAwake ==
  /\ port = "opening" /\ pc = "active"
  /\ port' = "held"
  /\ UNCHANGED <<urbVars, ctrl, cbVars, threadVars, throttleVars, pmVars, k, stray, excused>>

\* ctrlurb and the modem lines; the reference is put back, the throttle
\* reset, and the read URBs follow.  When one of the first two fails retval
\* is 0 and the port opens without reading.
ActivateStart(ok) ==
  /\ port = "held" /\ port' = "starting"
  /\ ok => Awake
  /\ ctrl' = ok
  /\ excused' = (excused \/ ~ok)
  /\ IF ok
     THEN Start("open", 1) /\ throttled' = FALSE /\ throttle_req' = FALSE
     ELSE UNCHANGED <<threadVars, throttleVars>>
  /\ UNCHANGED <<urbVars, cbVars, pmVars, k, stray>>

\* retval is 0 here as well when submit_read_urbs failed; the reference is
\* then put a second time.
ActivateDone ==
  /\ port = "starting" /\ ph["open"] \in {"idle", "failed"}
  /\ port' = "open"
  /\ ctrl' = (ctrl /\ ph["open"] # "failed")
  /\ stray' = (stray \/ ph["open"] = "failed")
  /\ excused' = (excused \/ ph["open"] = "failed")
  /\ ph' = [ph EXCEPT !["open"] = "idle"]
  /\ UNCHANGED <<urbVars, cbVars, at, throttleVars, pmVars, k>>

\* tty_write goes on without the reference it was refused (see XrWrite).
WriteRefused ==
  /\ port = "open"
  /\ stray' = TRUE
  /\ UNCHANGED <<port, urbVars, ctrl, cbVars, threadVars, throttleVars, pmVars, k, excused>>

\* The last close or a hang-up; port_shutdown asks for its reference,
\* waits for the device, and goes on when that fails.
ShutdownGet ==
  /\ port = "open" /\ ph["unthrottle"] = "idle"
  /\ port' = "closing"
  /\ UNCHANGED <<urbVars, ctrl, cbVars, threadVars, throttleVars, pmVars, k, stray, excused>>

ShutdownAwake ==
  /\ port = "closing" /\ pc = "active"
  /\ port' = "killing"
  /\ UNCHANGED <<urbVars, ctrl, cbVars, threadVars, throttleVars, pmVars, k, stray, excused>>

ShutdownRefused ==
  /\ port = "closing" /\ pc \in {"active", "suspended"}
  /\ port' = "killing" /\ stray' = TRUE
  /\ UNCHANGED <<urbVars, ctrl, cbVars, threadVars, throttleVars, pmVars, k, excused>>

\* port_shutdown and stop_data_traffic kill ctrlurb, then each read URB.
KillCtrl ==
  /\ Killing /\ k = 0
  /\ ctrl' = FALSE /\ k' = 1
  /\ UNCHANGED <<port, urbVars, cbVars, threadVars, throttleVars, pmVars, stray, excused>>

KillReadBug ==
  /\ Killing /\ k \in Urbs
  /\ k' = k + 1
  /\ UNCHANGED <<port, urbVars, ctrl, cbVars, threadVars, throttleVars, pmVars, stray, excused>>

KillRead ==
  /\ Killing /\ k \in Urbs
  /\ k \notin hcd /\ cb # k
  /\ k' = k + 1
  /\ UNCHANGED <<port, urbVars, ctrl, cbVars, threadVars, throttleVars, pmVars, stray, excused>>

ShutdownDoneBug ==
  /\ port = "killing" /\ k \in {NR, NR + 1}
  /\ port' = "closed" /\ k' = 0
  /\ UNCHANGED <<urbVars, ctrl, cbVars, threadVars, throttleVars, pmVars, stray, excused>>

ShutdownDone ==
  /\ port = "killing" /\ k = NR + 1
  /\ port' = "closed" /\ k' = 0
  /\ UNCHANGED <<urbVars, ctrl, cbVars, threadVars, throttleVars, pmVars, stray, excused>>

-----------------------------------------------------------------------------
(* suspend and resume.                                                     *)

\* No runtime suspend under a reference that counts, and no system sleep
\* while a task is inside an open or a close.
SuspendBeginBug ==
  /\ pc = "active" /\ (port \in {"opening", "held", "closing"} => stray)
  /\ pc' = "count"
  /\ UNCHANGED <<port, urbVars, ctrl, cbVars, threadVars, throttleVars, susp_count, k, stray, excused>>

SuspendBegin ==
  /\ pc = "active" /\ (port \in {"opening", "held", "closing", "killing"} => stray)
  /\ pc' = "count"
  /\ UNCHANGED <<port, urbVars, ctrl, cbVars, threadVars, throttleVars, susp_count, k, stray, excused>>

\* The second interface is busy transmitting: the core resumes the first.
SuspendBusy ==
  /\ pc = "count" /\ susp_count > 0
  /\ pc' = "resume"
  /\ UNCHANGED <<port, urbVars, ctrl, cbVars, threadVars, throttleVars, susp_count, k, stray, excused>>

NextSuspend(count) == IF count < NIntf THEN "count" ELSE "flush"

\* The first interface of an initialized port stops the data traffic.
SuspendCount ==
  /\ pc = "count"
  /\ susp_count' = susp_count + 1
  /\ pc' = IF susp_count = 0 /\ port = "open" THEN "stop" ELSE NextSuspend(susp_count + 1)
  /\ excused' = (excused \/ port \in {"held", "starting"})
  /\ UNCHANGED <<port, urbVars, ctrl, cbVars, threadVars, throttleVars, k, stray>>

StopDone ==
  /\ pc = "stop" /\ k = NR + 1
  /\ k' = 0 /\ pc' = NextSuspend(susp_count)
  /\ UNCHANGED <<port, urbVars, ctrl, cbVars, threadVars, throttleVars, susp_count, stray, excused>>

\* The core flushes the endpoints; the device is suspended.
SuspendFlush ==
  /\ pc = "flush" /\ hcd = {}
  /\ ctrl' = FALSE /\ pc' = "suspended"
  /\ UNCHANGED <<port, urbVars, cbVars, threadVars, throttleVars, susp_count, k, stray, excused>>

ResumeBegin ==
  /\ pc = "suspended" /\ pc' = "resume"
  /\ UNCHANGED <<port, urbVars, ctrl, cbVars, threadVars, throttleVars, susp_count, k, stray, excused>>

ResumeCount ==
  /\ pc = "resume"
  /\ susp_count' = susp_count - 1
  /\ pc' = IF susp_count = 1 THEN "restart" ELSE "resume"
  /\ UNCHANGED <<port, urbVars, ctrl, cbVars, threadVars, throttleVars, k, stray, excused>>

ResumeRestartBug(ok) ==
  /\ pc = "restart"
  /\ IF port = "open"
     THEN pc' = "reading" /\ Start("resume", 1)
     ELSE pc' = "active" /\ UNCHANGED threadVars
  /\ UNCHANGED <<port, urbVars, ctrl, cbVars, throttleVars, susp_count, k, stray, excused>>

\* An initialized port gets ctrlurb, then the read URBs unless that failed.
ResumeRestart(ok) ==
  /\ pc = "restart"
  /\ ok => ~ctrl
  /\ IF port = "open" /\ ok
     THEN pc' = "reading" /\ ctrl' = TRUE /\ Start("resume", 1)
     ELSE pc' = "active" /\ UNCHANGED <<ctrl, threadVars>>
  /\ excused' = (excused \/ (port = "open" /\ ~ok))
  /\ UNCHANGED <<port, urbVars, cbVars, throttleVars, susp_count, k, stray>>

ResumeDone ==
  /\ pc = "reading" /\ ph["resume"] = "idle"
  /\ pc' = "active"
  /\ UNCHANGED <<port, urbVars, ctrl, cbVars, threadVars, throttleVars, susp_count, k, stray, excused>>

-----------------------------------------------------------------------------
Thread(t) == Take(t) \/ Submit(t) \/ SubmitFails(t) \/ Restore(t)

Callback == Process \/ CheckThrottle \/ CallbackReturns

Port ==
  \/ ActivateGet \/ ActivateAwake \/ ActivateDone
  \/ ShutdownGet \/ ShutdownAwake \/ ShutdownRefused \/ ShutdownDone
  \/ \E ok \in BOOLEAN : ActivateStart(ok)

Kill == KillCtrl \/ KillRead

SuspendStep == SuspendCount \/ StopDone \/ SuspendFlush

ResumeStep ==
  \/ ResumeCount \/ ResumeDone
  \/ \E ok \in BOOLEAN : ResumeRestart(ok)

Next ==
  \/ \E t \in Threads : Thread(t)
  \/ \E u \in Urbs : GiveBack(u)
  \/ Callback \/ CtrlIrqFails \/ Throttle \/ Unthrottle
  \/ WriteRefused \/ Port \/ Kill
  \/ SuspendBegin \/ SuspendBusy \/ SuspendStep \/ ResumeBegin \/ ResumeStep

Spec == Init /\ [][Next]_vars

-----------------------------------------------------------------------------
(* Properties.                                                             *)

\* The values every variable keeps (xr_usb_serial_common.h:116-155).
TypeOK ==
  /\ port \in {"closed", "opening", "held", "starting", "open", "closing", "killing"}
  /\ free \subseteq Urbs /\ hcd \subseteq Urbs
  /\ ctrl \in BOOLEAN /\ stray \in BOOLEAN /\ excused \in BOOLEAN
  /\ cb \in Urbs \cup {None} /\ cbpc \in {"none", "process", "throttle", "submit"}
  /\ at \in [Threads -> Urbs \cup {None}]
  /\ ph \in [Threads -> {"idle", "look", "submit", "restore", "failed"}]
  /\ throttled \in BOOLEAN /\ throttle_req \in BOOLEAN
  /\ susp_count \in 0..NIntf
  /\ pc \in {"active", "count", "stop", "flush", "suspended", "resume", "restart", "reading"}
  /\ k \in 0..(NR + 1)

\* The threads that have cleared the bit of u and not yet submitted it.
Takers(u) == {t \in Threads : ph[t] \in {"submit", "restore"} /\ at[t] = u}

\* Each read URB is free, with the controller, or in the hands of one
\* thread, and only one of the three: none is submitted twice and none is
\* lost, whichever contexts submit_read_urb runs in (lines 366-388, 492).
OneOwner ==
  \A u \in Urbs :
    IF u \in free THEN u \notin hcd /\ Takers(u) = {}
    ELSE IF u \in hcd THEN Takers(u) = {}
    ELSE Cardinality(Takers(u)) = 1

\* A closed port has every read URB back and free for the next open, and no
\* handler running: what port_shutdown kills does not start again.
ClosedIsQuiet == port = "closed" => free = Urbs /\ cb = None

\* An open, awake port that is not throttled reads: at most one URB is left
\* unsubmitted once handlers and threads are done, the one that unthrottle
\* holds while resume walks past it (lines 504-512, 820-829, 1918-1947).
ReadsContinue ==
  port = "open" /\ pc = "active" /\ ~throttled /\ ~excused /\ cb = None
    /\ (\A t \in Threads : ph[t] = "idle")
  => Cardinality(free) <= 1

\* An open, awake port watches the status of its line: ctrlurb is back with
\* the controller after each suspend (lines 618, 1930).
StatusWatched == port = "open" /\ pc = "active" /\ ~excused => ctrl

\* A port that has stopped for a throttle request still has that request, so
\* that the reader's unthrottle, which goes by throttled alone, restarts it
\* (lines 507, 817-828).
ThrottleIsPending == throttled => throttle_req
-----------------------------------------------------------------------------
(* Refinement.                                                             *)

\* Whom each read URB belongs to, in the terms of XrUrbs: a thread has the
\* URBs it takes from the bitmap and has not submitted or put back.
OwnerOf(u) ==
  IF u \in hcd THEN "controller"
  ELSE IF u \in free THEN "nobody"
  ELSE CHOOSE t \in Threads : t \in Takers(u)

Owner == [u \in Urbs |-> OwnerOf(u)]

Power ==
  IF pc = "flush" THEN "flushing"
  ELSE IF pc = "suspended" THEN "asleep" ELSE "awake"

\* What a close has killed; a suspend kills too, but reading may go on
\* between its kills (unthrottle), so that it promises nothing before it
\* flushes.
Killed ==
  IF port = "closed" THEN Urbs
  ELSE IF port = "killing" THEN {u \in Urbs : u < k} ELSE {}

UrbOwners == INSTANCE XrUrbs WITH
               Callers <- Threads, owner <- Owner, power <- Power, killed <- Killed

\* Each read URB changes hands only as XrUrbs allows, one at a time, through
\* every suspend, resume, throttling, open and close (lines 361-396, 492,
\* 679-699, 1862-1947).
ImplementsUrbs == UrbOwners!Spec

\* The device's power in the terms of XrPower.
Level ==
  IF pc \in {"count", "stop", "flush"} THEN "suspending"
  ELSE IF pc = "active" THEN "awake"
  ELSE IF pc = "suspended" THEN "asleep" ELSE "resuming"

PowerOf == INSTANCE XrPower WITH
             Interfaces <- NIntf, session <- port, level <- Level,
             suspended <- susp_count, sound <- ~stray

\* The receive path keeps to the course of sessions, suspends and resumes
\* that it shares with the transmit path (lines 597-699, 1875-1953).
ImplementsPower == PowerOf!Spec
=============================================================================
