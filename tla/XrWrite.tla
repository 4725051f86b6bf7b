------------------------------ MODULE XrWrite ------------------------------
(***************************************************************************)
(* The transmit path of the Exar USB-serial driver                         *)
(* (src/ExarKernelDriver/xr_usb_serial_common.c): the pool of write        *)
(* buffers, tty_write, the completion handler, the wake-up work, and how   *)
(* they meet suspend, resume, open and shutdown.                           *)
(*                                                                         *)
(* A section under write_lock is one step.  resume calls start_wb outside  *)
(* the lock, so that its transmitting++ is a load and a store of their own *)
(* that any locked section of another CPU may fall between.                *)
(*                                                                         *)
(* The USB core (external) runs one suspend or resume at a time and calls  *)
(* the driver for each of its interfaces; usb_kill_urb returns when the    *)
(* URB's completion handler has; a runtime PM reference taken while the    *)
(* device is suspended wakes it.  Taking one may fail, and is then not     *)
(* counted: a get that waits (open, close) has first waited for the        *)
(* transition that runs, so that it fails with the device awake or asleep. *)
(*                                                                         *)
(* A definition named ...Bug, or Park... with a suffix, is the one that    *)
(* follows it with a plausible mistake; no specification uses it.          *)
(***************************************************************************)
EXTENDS Integers, FiniteSets

CONSTANTS
  NW,              \* XR_USB_SERIAL_NW, the number of write buffers
  NIntf,           \* interfaces bound to the driver: 1 (combined) or 2
  MaxUnbacked,     \* bound on the references put without a get that are explored
  MaxDrift         \* bound on how far transmitting strays in what is explored

Wbs == 1..NW
None == 0

ASSUME PoolAssumption == NW \in Nat \ {0} /\ NIntf \in {1, 2}
ASSUME BoundAssumption == MaxUnbacked \in Nat /\ MaxDrift \in Nat

VARIABLES
  port,         \* "closed", "opening", "held" (its reference granted), "starting",
                \* "open", "closing", "killing" (its reference granted or refused)
  initialized,  \* tty_port_initialized(port)
  use,          \* the buffers with wb->use = 1
  inflight,     \* the buffers whose urb the host controller owns
  delayed_wb,   \* the buffer parked for a suspended device, or None
  transmitting,
  susp_count,   \* suspended interfaces
  pm,           \* usage count of the control interface
  unbacked,     \* history: references put, or to be put, that were not taken
  pc,           \* where the USB core's suspend or resume is
  auto,         \* it is a runtime (not a system sleep) transition
  handoff,      \* the buffer resume is about to submit, or None
  tmp,          \* transmitting as resume loaded it
  work,         \* schedule_work(&work) is pending
  waiting       \* a writer sleeps until the tty is woken

pmVars == <<pc, auto, susp_count>>
wbVars == <<use, inflight, delayed_wb, handoff, transmitting, tmp>>
ttyVars == <<work, waiting>>
refVars == <<pm, unbacked>>
vars == <<port, initialized, refVars, pmVars, wbVars, ttyVars>>

\* suspend: check, count, stop, flush.  resume: resume, init, take, then
\* start_wb: load, store, submit, and write_done when it fails: undoLoad, undoStore.
PCs == {"active", "check", "count", "stop", "flush", "suspended", "resume",
        "init", "take", "load", "store", "submit", "undoLoad", "undoStore"}

Init ==
  /\ port = "closed" /\ initialized = FALSE
  /\ use = {} /\ inflight = {} /\ delayed_wb = None /\ handoff = None
  /\ transmitting = 0 /\ tmp = 0
  /\ susp_count = 0 /\ pc = "active" /\ auto = FALSE
  /\ pm = 0 /\ unbacked = 0
  /\ work = FALSE /\ waiting = FALSE

-----------------------------------------------------------------------------
(* tty_write, write_bulk and softint.                                      *)

\* The buffers with wb->use = 0, that wb_is_avail counts.
FreeBug == Wbs \ inflight
Free == Wbs \ use

\* User tasks, that write, open and close, are frozen during a system sleep.
Frozen == pc # "active" /\ ~auto

Holds(b) == IF b THEN 1 ELSE 0

\* n references are put (n < 0) or find an owner (n > 0); the latter were
\* asked for, and `got` says whether the core granted it: a driver that does
\* not look goes on as if it had.
References(n, got) ==
  /\ ~got => unbacked < MaxUnbacked
  /\ pm' = pm + n - Holds(~got)
  /\ unbacked' = unbacked + Holds(~got)

\* wb_alloc: the first buffer not in use.
Allocated == CHOOSE w \in Free : \A v \in Free : w <= v

\* No buffer: tty_write returns 0 and the line discipline sleeps.
WriteNoRoom ==
  /\ port = "open" /\ ~waiting /\ ~Frozen
  /\ Free = {}
  /\ waiting' = TRUE
  /\ UNCHANGED <<port, initialized, refVars, pmVars, wbVars, work>>

\* Awake: the buffer is submitted under the lock, or released by write_done
\* when that fails; write_done puts the reference, got or not.
WriteDirect(got, ok) ==
  /\ port = "open" /\ ~waiting /\ ~Frozen
  /\ Free # {} /\ susp_count = 0
  /\ IF ok
     THEN /\ use' = use \cup {Allocated}
          /\ inflight' = inflight \cup {Allocated}
          /\ transmitting' = transmitting + 1
          /\ References(1, got)
     ELSE UNCHANGED <<use, inflight, transmitting>> /\ References(0, got)
  /\ UNCHANGED <<port, initialized, delayed_wb, handoff, tmp, pmVars, ttyVars>>

\* Where a write to a suspended device goes: the first is parked and keeps
\* its PM reference; a later one gives its reference back and stays in use.
ParkKeepsReference(w, got) ==
  /\ delayed_wb' = IF delayed_wb = None THEN w ELSE delayed_wb
  /\ References(1, got)
ParkNoReference(w, got) ==
  /\ delayed_wb' = IF delayed_wb = None THEN w ELSE delayed_wb
  /\ References(0, got)

Park(w, got) ==
  IF delayed_wb = None
  THEN delayed_wb' = w /\ References(1, got)
  ELSE UNCHANGED delayed_wb /\ References(0, got)

\* Suspended: tty_write returns the count all the same ("a white lie").
WriteDelayed(got) ==
  /\ port = "open" /\ ~waiting /\ ~Frozen
  /\ Free # {} /\ susp_count # 0
  /\ use' = use \cup {Allocated}
  /\ Park(Allocated, got)
  /\ UNCHANGED <<port, initialized, inflight, handoff, transmitting, tmp, pmVars, ttyVars>>

\* write_bulk: write_done under the lock, then the wake-up is scheduled.
Complete(w) ==
  /\ w \in inflight
  /\ inflight' = inflight \ {w}
  /\ use' = use \ {w}
  /\ transmitting' = transmitting - 1
  /\ References(-1, TRUE)
  /\ work' = TRUE
  /\ UNCHANGED <<port, initialized, delayed_wb, handoff, tmp, pmVars, waiting>>

\* softint: tty_port_tty_wakeup.
Softint ==
  /\ work
  /\ work' = FALSE /\ waiting' = FALSE
  /\ UNCHANGED <<port, initialized, refVars, pmVars, wbVars>>

-----------------------------------------------------------------------------
(* suspend.                                                                *)

\* The core starts a suspend: a runtime one when no interface is in use, a
\* system sleep at any time; freezing wakes a sleeping writer, and no task
\* is frozen inside an open or a close.
SuspendBegin(isAuto) ==
  /\ pc = "active"
  /\ isAuto => pm <= 0
  /\ ~isAuto => port \in {"closed", "open"}
  /\ transmitting - Cardinality(inflight) \in -MaxDrift..MaxDrift
  /\ auto' = isAuto
  /\ pc' = IF isAuto THEN "check" ELSE "count"
  /\ waiting' = (waiting /\ isAuto)
  /\ UNCHANGED <<port, initialized, refVars, susp_count, wbVars, work>>

\* PMSG_IS_AUTO: busy when a write is being transmitted; the core then
\* resumes the interfaces it has already suspended.
SuspendCheck ==
  /\ pc = "check"
  /\ pc' = IF transmitting = 0 THEN "count"
           ELSE IF susp_count = 0 THEN "active" ELSE "resume"
  /\ UNCHANGED <<port, initialized, refVars, auto, susp_count, wbVars, ttyVars>>

\* Where the core goes when an interface's suspend has returned 0.
NextSuspend(count) ==
  IF count < NIntf THEN (IF auto THEN "check" ELSE "count") ELSE "flush"

\* Under both locks: susp_count++; the first interface of an open port also
\* stops the data traffic.  (The flag is read after the locks are released:
\* an open or a close in between is one that came before or after this step.)
SuspendCount ==
  /\ pc = "count"
  /\ susp_count' = susp_count + 1
  /\ pc' = IF susp_count = 0 /\ initialized THEN "stop" ELSE NextSuspend(susp_count + 1)
  /\ UNCHANGED <<port, initialized, refVars, auto, wbVars, ttyVars>>

SuspendStopBug ==
  /\ pc = "stop"
  /\ work' = FALSE
  /\ pc' = NextSuspend(susp_count)
  /\ UNCHANGED <<port, initialized, refVars, auto, susp_count, wbVars, waiting>>

\* stop_data_traffic: every write urb is killed, the work is cancelled.
SuspendStop ==
  /\ pc = "stop"
  /\ inflight = {}
  /\ work' = FALSE
  /\ pc' = NextSuspend(susp_count)
  /\ UNCHANGED <<port, initialized, refVars, auto, susp_count, wbVars, waiting>>

\* The core flushes the endpoints of a device it has suspended.
SuspendFlush ==
  /\ pc = "flush"
  /\ inflight = {}
  /\ pc' = "suspended"
  /\ UNCHANGED <<port, initialized, refVars, auto, susp_count, wbVars, ttyVars>>

-----------------------------------------------------------------------------
(* resume (and reset_resume, which also asks for a hang-up of the tty: see *)
(* Shutdown, that an open port may begin at any time).                     *)

\* A reference, remote wake-up or the end of the system sleep.
ResumeBegin ==
  /\ pc = "suspended"
  /\ pc' = "resume"
  /\ UNCHANGED <<port, initialized, refVars, auto, susp_count, wbVars, ttyVars>>

ResumeCountBug ==
  /\ pc = "resume"
  /\ susp_count' = susp_count - 1
  /\ pc' = IF susp_count = 0 THEN "init" ELSE "resume"
  /\ UNCHANGED <<port, initialized, refVars, auto, wbVars, ttyVars>>

\* Under read_lock only: susp_count -= 1, for each interface.
ResumeCount ==
  /\ pc = "resume"
  /\ susp_count' = susp_count - 1
  /\ pc' = IF susp_count = 1 THEN "init" ELSE "resume"
  /\ UNCHANGED <<port, initialized, refVars, auto, wbVars, ttyVars>>

\* Only a port that is initialized flushes its delayed write.
ResumeInit ==
  /\ pc = "init"
  /\ pc' = IF initialized THEN "take" ELSE "active"
  /\ UNCHANGED <<port, initialized, refVars, auto, susp_count, wbVars, ttyVars>>

ResumeTakeBug ==
  /\ pc = "take"
  /\ handoff' = delayed_wb
  /\ pc' = IF delayed_wb = None THEN "active" ELSE "load"
  /\ UNCHANGED <<port, initialized, refVars, auto, susp_count, use, inflight, delayed_wb, transmitting, tmp, ttyVars>>

\* Under write_lock: the delayed buffer is taken out.
ResumeTake ==
  /\ pc = "take"
  /\ handoff' = delayed_wb
  /\ delayed_wb' = None
  /\ pc' = IF delayed_wb = None THEN "active" ELSE "load"
  /\ UNCHANGED <<port, initialized, refVars, auto, susp_count, use, inflight, transmitting, tmp, ttyVars>>

\* start_wb without the lock: transmitting++, then usb_submit_urb.
ResumeLoad ==
  /\ pc = "load"
  /\ tmp' = transmitting
  /\ pc' = "store"
  /\ UNCHANGED <<port, initialized, refVars, auto, susp_count, use, inflight, delayed_wb, handoff, transmitting, ttyVars>>

ResumeStore ==
  /\ pc = "store"
  /\ transmitting' = tmp + 1
  /\ pc' = "submit"
  /\ UNCHANGED <<port, initialized, refVars, auto, susp_count, use, inflight, delayed_wb, handoff, tmp, ttyVars>>

ResumeSubmit(ok) ==
  /\ pc = "submit"
  /\ IF ok
     THEN /\ inflight' = inflight \cup {handoff}
          /\ handoff' = None
          /\ pc' = "active"
     ELSE UNCHANGED <<inflight, handoff>> /\ pc' = "undoLoad"
  /\ UNCHANGED <<port, initialized, refVars, auto, susp_count, use, delayed_wb, transmitting, tmp, ttyVars>>

\* write_done without the lock: use = 0, transmitting--, the reference.
ResumeUndoLoad ==
  /\ pc = "undoLoad"
  /\ use' = use \ {handoff}
  /\ tmp' = transmitting
  /\ pc' = "undoStore"
  /\ UNCHANGED <<port, initialized, refVars, auto, susp_count, inflight, delayed_wb, handoff, transmitting, ttyVars>>

ResumeUndoStore ==
  /\ pc = "undoStore"
  /\ transmitting' = tmp - 1
  /\ References(-1, TRUE)
  /\ handoff' = None
  /\ pc' = "active"
  /\ UNCHANGED <<port, initialized, auto, susp_count, use, inflight, delayed_wb, tmp, ttyVars>>

-----------------------------------------------------------------------------
(* port_activate and port_shutdown, as the write path sees them.           *)

\* usb_autopm_get_interface counts the reference, then waits for the device.
ActivateGet ==
  /\ port = "closed" /\ ~Frozen
  /\ port' = "opening"
  /\ References(1, TRUE)
  /\ UNCHANGED <<initialized, pmVars, wbVars, ttyVars>>

\* The device cannot be woken, or is disconnected: the port stays closed.
ActivateRefused ==
  /\ port = "opening"
  /\ port' = "closed"
  /\ References(-1, TRUE)
  /\ UNCHANGED <<initialized, pmVars, wbVars, ttyVars>>

ActivateAwake ==
  /\ port = "opening" /\ pc = "active"
  /\ port' = "held"
  /\ UNCHANGED <<initialized, refVars, pmVars, wbVars, ttyVars>>

\* The control URB, the modem lines; then the reference is put back.
ActivatePut ==
  /\ port = "held"
  /\ port' = "starting"
  /\ References(-1, TRUE)
  /\ UNCHANGED <<initialized, pmVars, wbVars, ttyVars>>

\* A failing submit_read_urbs puts the reference once more.  retval is 0 on
\* every path from here: tty_port_open marks the port initialized even when
\* the activation was abandoned.
ActivateDone(readFails) ==
  /\ port = "starting"
  /\ port' = "open" /\ initialized' = TRUE
  /\ References(0, ~readFails)
  /\ UNCHANGED <<pmVars, wbVars, ttyVars>>

ShutdownGetBug ==
  /\ port = "open" /\ ~Frozen
  /\ port' = "closing" /\ initialized' = FALSE
  /\ waiting' = FALSE
  /\ UNCHANGED <<refVars, pmVars, wbVars, work>>

\* The last close or a hang-up: the tty core clears the flag and calls
\* port_shutdown, whose usb_autopm_get_interface counts a reference.
ShutdownGet ==
  /\ port = "open" /\ ~Frozen
  /\ port' = "closing" /\ initialized' = FALSE
  /\ References(1, TRUE)
  /\ waiting' = FALSE
  /\ UNCHANGED <<pmVars, wbVars, work>>

ShutdownAwake ==
  /\ port = "closing" /\ pc = "active"
  /\ port' = "killing"
  /\ UNCHANGED <<initialized, refVars, pmVars, wbVars, ttyVars>>

\* It would not wait for the transition that runs, were it the async get.
ShutdownRefusedBug ==
  /\ port = "closing"
  /\ port' = "killing"
  /\ References(0, FALSE)
  /\ UNCHANGED <<initialized, pmVars, wbVars, ttyVars>>

\* The get fails and takes its count back; port_shutdown does not look.
ShutdownRefused ==
  /\ port = "closing" /\ pc \in {"active", "suspended"}
  /\ port' = "killing"
  /\ References(0, FALSE)
  /\ UNCHANGED <<initialized, pmVars, wbVars, ttyVars>>

\* It would poll until every buffer is free.
ShutdownKillBug ==
  /\ port = "killing"
  /\ \/ use # {} /\ UNCHANGED <<port, refVars>>
     \/ use = {} /\ port' = "closed" /\ References(-1, TRUE)
  /\ UNCHANGED <<initialized, pmVars, wbVars, ttyVars>>

\* Every write urb is killed and the reference put, granted or not.
ShutdownKill ==
  /\ port = "killing"
  /\ inflight = {}
  /\ port' = "closed"
  /\ References(-1, TRUE)
  /\ UNCHANGED <<initialized, pmVars, wbVars, ttyVars>>

-----------------------------------------------------------------------------
Write ==
  \/ WriteNoRoom
  \/ \E got \in BOOLEAN :
       WriteDelayed(got) \/ \E ok \in BOOLEAN : WriteDirect(got, ok)

SuspendStep == SuspendCheck \/ SuspendCount \/ SuspendStop \/ SuspendFlush

ResumeStep ==
  \/ ResumeCount \/ ResumeInit \/ ResumeTake \/ ResumeLoad \/ ResumeStore
  \/ \E ok \in BOOLEAN : ResumeSubmit(ok)
  \/ ResumeUndoLoad \/ ResumeUndoStore

Port ==
  \/ ActivateGet \/ ActivateRefused \/ ActivateAwake \/ ActivatePut
  \/ ShutdownGet \/ ShutdownAwake \/ ShutdownRefused \/ ShutdownKill
  \/ \E readFails \in BOOLEAN : ActivateDone(readFails)

Next ==
  \/ Write \/ Softint \/ Port
  \/ \E w \in Wbs : Complete(w)
  \/ \E isAuto \in BOOLEAN : SuspendBegin(isAuto)
  \/ SuspendStep \/ ResumeBegin \/ ResumeStep

Spec == Init /\ [][Next]_vars

\* usb_kill_urb, or the core's flush, is waiting for the urbs in flight.
Killing == pc \in {"stop", "flush"} \/ port = "killing"

\* A killed urb is given back, the wake-up work and the core's transitions
\* run, and a suspended device that is referenced, waited for or put to sleep
\* by the system is woken.  The wait of an open or a close ends when its own
\* resume has woken the device, even if the device sleeps again at once.  An
\* urb that is not killed need never complete.
Fairness ==
  /\ \A w \in Wbs : WF_vars(Killing /\ Complete(w))
  /\ WF_vars(Softint)
  /\ WF_vars(SuspendStep) /\ WF_vars(ResumeStep)
  /\ WF_vars((pm > 0 \/ ~auto \/ port \in {"opening", "closing"}) /\ ResumeBegin)
  /\ SF_vars(ShutdownAwake) /\ WF_vars(ShutdownKill)

FairSpec == Spec /\ Fairness

-----------------------------------------------------------------------------
(* Properties.                                                             *)

\* The values every variable keeps (xr_usb_serial_common.h:116-155).
TypeOK ==
  /\ port \in {"closed", "opening", "held", "starting", "open", "closing", "killing"}
  /\ initialized \in BOOLEAN
  /\ use \subseteq Wbs /\ inflight \subseteq Wbs
  /\ delayed_wb \in Wbs \cup {None} /\ handoff \in Wbs \cup {None}
  /\ transmitting \in Int /\ tmp \in Int
  /\ pm \in Int /\ unbacked \in Nat
  /\ susp_count \in 0..NIntf
  /\ pc \in PCs /\ auto \in BOOLEAN
  /\ work \in BOOLEAN /\ waiting \in BOOLEAN

\* A buffer handed to the host controller, parked or being handed over is
\* marked in use and is only one of the three: tty_write never copies into
\* memory that DMA reads or overwrites data it has accepted.  (In undoStore
\* write_done has already released the buffer of a failed submission.)
NoBufferReuse ==
  /\ inflight \subseteq use
  /\ delayed_wb # None => delayed_wb \in use \ inflight
  /\ handoff # None /\ pc # "undoStore" =>
       handoff \in use \ inflight /\ handoff # delayed_wb

\* Every runtime PM reference has exactly one owner: a write in flight, the
\* delayed write, the write resume is handing over, an open or a close; and
\* the count is short of them by exactly the references that an owner was not
\* granted and took as granted (lines 688, 755) or that were put twice (650
\* after 633).  No other path leaks one or puts one twice (lines 195, 755-760,
\* 608-654, 688-696).
PMBalance ==
  pm + unbacked =
    Cardinality(inflight) + Holds(delayed_wb # None) + Holds(handoff # None)
      + Holds(port \in {"opening", "held", "closing", "killing"})

\* When the driver's suspend of an open port has returned, none of its
\* writes is still with the host controller (lines 1891-1907).
QuietWhenSuspended ==
  port = "open" /\ pc \in {"flush", "suspended"} => inflight = {}

\* A closed port has no write with the host controller or in resume's hands:
\* none follows those that port_shutdown has killed, even when it went on
\* without its reference (lines 688-696, 1925-1937).
ClosedIsQuiet == port = "closed" => inflight = {} /\ handoff = None

\* Whom each buffer belongs to, in the terms of XrPool: in undoStore resume
\* no longer owns the one it is about to forget.
OwnerOf(w) ==
  CASE w \in inflight -> "controller"
    [] w = delayed_wb -> "parked"
    [] w = handoff /\ pc # "undoStore" -> "resume"
    [] w \notin use -> "nobody"
    [] OTHER -> "stranded"

Owner == [w \in Wbs |-> OwnerOf(w)]
Awake == pc # "suspended"

Pool == INSTANCE XrPool WITH Buffers <- Wbs, owner <- Owner, awake <- Awake

\* Each buffer changes hands only as XrPool allows, one at a time, through
\* every interleaving of writers, completions, suspend, resume, open and
\* close (lines 153-216, 722-772, 1875-1953).
ImplementsPool == Pool!PoolSpec

\* The device's power in the terms of XrPower.
Level ==
  IF pc \in {"check", "count", "stop", "flush"} THEN "suspending"
  ELSE IF pc = "active" THEN "awake"
  ELSE IF pc = "suspended" THEN "asleep" ELSE "resuming"

PowerOf == INSTANCE XrPower WITH
             Interfaces <- NIntf, session <- port, level <- Level,
             suspended <- susp_count, sound <- unbacked = 0

\* Sessions, suspends and resumes take the course they take in the receive
\* path: as long as no reference was put that had not been taken, no suspend
\* starts under an open or a close, whatever writes have taken and put
\* references (lines 195, 597-699, 755-760, 1875-1953).
ImplementsPower == PowerOf!Spec

\* What an open and a close rely on: a device that they have found awake
\* stays so until they put their reference, as long as no reference was put
\* that had not been taken (lines 605-633, 688-696).
HeldAwake == unbacked = 0 /\ port \in {"held", "killing"} => pc = "active"

\* A parked write leaves delayed_wb only into the hands of resume: a later
\* write never replaces it and no other path drops it (lines 756-762, 1933).
DelayedNotDropped ==
  [][delayed_wb # None /\ delayed_wb' # delayed_wb =>
       delayed_wb' = None /\ handoff' = delayed_wb]_vars

\* A write parked while the device of an open port sleeps is handed over:
\* the reference it holds gets the device woken (lines 755-758, 1925-1937),
\* unless its reference or another was refused.
DelayedGoesOut ==
  (port = "open" /\ susp_count # 0 /\ delayed_wb # None) ~>
    (delayed_wb = None \/ port # "open" \/ unbacked > 0)

\* A close or a hang-up ends, whatever suspend or resume it meets and whether
\* or not it is granted its reference.
ShutdownFinishes == (port \in {"closing", "killing"}) ~> (port = "closed")

\* transmitting is the number of writes in flight, which suspend relies on:
\* "All of these assume proper locks taken by the caller" (line 153).
TransmittingExact ==
  pc \notin {"submit", "undoLoad", "undoStore"} => transmitting = Cardinality(inflight)

\* A buffer in use holds data that is on its way: the writes that tty_write
\* accepted "fit" (xr_usb_serial_common.h:67-69).
AcceptedIsQueued == use \subseteq inflight \cup {delayed_wb, handoff}

\* The work wakes the line discipline (xr_usb_serial_common.h:140): a writer
\* that sleeps for room does not sleep for ever with every buffer free.
WriterWoken == (waiting /\ use = {}) ~> ~waiting
=============================================================================
