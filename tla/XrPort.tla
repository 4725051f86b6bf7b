------------------------------- MODULE XrPort -------------------------------
(***************************************************************************)
(* The lifetime of a device in the Exar USB-serial driver                  *)
(* (src/ExarKernelDriver/xr_usb_serial_common.c): probe and disconnect,    *)
(* the minor table, and the tty_port whose references keep the structure   *)
(* alive while a tty still points to it.                                   *)
(*                                                                         *)
(* A section under xr_usb_serial->mutex is one step; table_lock is held    *)
(* from FindMinor to GetByIndex, while get_by_index waits for that mutex.  *)
(*                                                                         *)
(* External: the USB core runs one probe or disconnect of a device at a    *)
(* time; the tty core installs one tty at a time (tty_mutex), opens,       *)
(* closes and hangs up one tty under its lock, calls cleanup when the last *)
(* reference to the tty is gone, and after a hang-up no operation of an    *)
(* old file reaches the driver.                                            *)
(*                                                                         *)
(* Left out: the disconnect of a data interface that a failed probe left   *)
(* claimed (Orphaned).  It works on a structure that was freed, which may  *)
(* do anything: what is said is said until then.                           *)
(*                                                                         *)
(* A definition named ...Bug is the one that follows it with a plausible   *)
(* mistake; no specification uses it.                                      *)
(***************************************************************************)
EXTENDS Integers, FiniteSets

CONSTANTS
  Devs,          \* devices, each with the xr_usb_serial a probe allocates
  Split,         \* those with a data interface of their own
  Ttys,          \* tty_structs
  Tasks,         \* user tasks
  Minors,        \* 0 .. XR_USB_SERIAL_TTY_MINORS - 1
  NoDev, NoTty,
  StaleOpen      \* may an open reach a minor that a probe is working on?

ASSUME NullAssumption == NoDev \notin Devs /\ NoTty \notin Ttys
ASSUME SetAssumption ==
  /\ Split \subseteq Devs /\ Minors \subseteq Nat
  /\ IsFiniteSet(Ttys) /\ IsFiniteSet(Tasks)
ASSUME PathAssumption == StaleOpen \in BOOLEAN

VARIABLES
  table,         \* xr_usb_serial_table
  mem,           \* the structure: "free", "zeroed", "ready", "dying", "released"
  refs,          \* the kref of its tty_port
  minor, disconnected,
  ph,            \* where the probe or the disconnect of a device is
  intfdata,      \* its interfaces, probed or bound, with it for driver data
  bound,         \* its interfaces bound to the driver
  node,          \* its tty device is registered
  gpio,          \* its gpio_chip is registered
  held,          \* usb_get_intf(control)
  urbs,          \* its URBs and buffers are allocated
  traffic,       \* some of them may be with the host controller
  ptty, count, initialized,  \* of its tty_port
  hup,           \* a hang-up of its tty is at tty_port_shutdown
  hold,          \* the tty that its disconnect got
  ttys,          \* the tty driver's table: minor -> tty
  tstate, tdev,  \* a tty: "none", "new", "alive", "released"; its driver_data
  hupwork,       \* its hangup_work is queued
  pc, at, want,  \* a task, the minor it opens and what the table held
  file, hungf    \* the tty it has open, and whether that was hung up

objVars == <<table, mem, refs, minor, disconnected>>
usbVars == <<ph, intfdata, bound, node, gpio, held, urbs, hold>>
portVars == <<traffic, ptty, count, initialized, hup>>
ttyVars == <<ttys, tstate, tdev, hupwork>>
taskVars == <<pc, at, want, file, hungf>>
vars == <<objVars, usbVars, portVars, ttyVars, taskVars>>

\* Where the code is: probe, the driver bound, disconnect.
Probing == {"published", "locked", "filled", "claimed"}
Bound == {"registered", "bound"}
Cut == {"stopped", "unlisted", "emptied", "single"}
Leaving == {"marked", "tty", "hanging", "quiet"} \cup Cut
Phases == {"unplugged"} \cup Probing \cup Bound \cup Leaving
PCs == {"idle", "resolved", "found", "got", "opening", "open", "failed"}

Init ==
  /\ table = [m \in Minors |-> NoDev]
  /\ mem = [d \in Devs |-> "free"] /\ refs = [d \in Devs |-> 0]
  /\ minor \in [Devs -> Minors] /\ disconnected = [d \in Devs |-> FALSE]
  /\ ph = [d \in Devs |-> "unplugged"]
  /\ intfdata = [d \in Devs |-> {}] /\ bound = [d \in Devs |-> {}]
  /\ node = [d \in Devs |-> FALSE] /\ gpio = [d \in Devs |-> FALSE]
  /\ held = [d \in Devs |-> FALSE] /\ urbs = [d \in Devs |-> FALSE]
  /\ hold = [d \in Devs |-> NoTty]
  /\ traffic = [d \in Devs |-> FALSE] /\ ptty = [d \in Devs |-> NoTty]
  /\ count = [d \in Devs |-> 0] /\ initialized = [d \in Devs |-> FALSE]
  /\ hup = [d \in Devs |-> FALSE]
  /\ ttys = [m \in Minors |-> NoTty]
  /\ tstate = [x \in Ttys |-> "none"] /\ tdev = [x \in Ttys |-> NoDev]
  /\ hupwork = [x \in Ttys |-> FALSE]
  /\ pc = [u \in Tasks |-> "idle"] /\ at \in [Tasks -> Minors]
  /\ want = [u \in Tasks |-> NoDev]
  /\ file = [u \in Tasks |-> NoTty] /\ hungf = [u \in Tasks |-> FALSE]

TableLocked == \E u \in Tasks : pc[u] = "found"

\* tty_mutex, from the lookup of the tty to its installation.
Installing == \E u \in Tasks : pc[u] \in {"found", "got"}

\* The tty's own lock: an open or a hang-up is in progress.
TtyLocked(x) ==
  \/ \E u \in Tasks : pc[u] = "opening" /\ file[u] = x
  \/ tdev[x] \in Devs /\ hup[tdev[x]]

Openers(x) == {u \in Tasks : pc[u] \in {"opening", "open", "failed"} /\ file[u] = x}

Interfaces(d) == {"control"} \cup IF d \in Split THEN {"data"} ELSE {}

\* tty_port_put: the last reference runs port_destruct.
Put(d) ==
  /\ refs' = [refs EXCEPT ![d] = @ - 1]
  /\ mem' = IF refs[d] = 1 THEN [mem EXCEPT ![d] = "dying"] ELSE mem

-----------------------------------------------------------------------------
(* probe.  A refused descriptor, or a full table, leaves nothing behind.   *)

\* kzalloc and alloc_minor: the first slot that is free.  A data interface
\* that was left with driver data has lost it when nobody claims it any more.
ProbeAlloc(d) ==
  /\ ph[d] = "unplugged" /\ mem[d] = "free" /\ bound[d] = {} /\ ~TableLocked
  /\ \E m \in Minors :
       /\ table[m] = NoDev
       /\ \A n \in Minors : table[n] = NoDev => m <= n
       /\ table' = [table EXCEPT ![m] = d]
       /\ minor' = [minor EXCEPT ![d] = m]
  /\ mem' = [mem EXCEPT ![d] = "zeroed"]
  /\ refs' = [refs EXCEPT ![d] = 0]
  /\ disconnected' = [disconnected EXCEPT ![d] = FALSE]
  /\ intfdata' = [intfdata EXCEPT ![d] = {}]
  /\ ph' = [ph EXCEPT ![d] = "published"]
  /\ UNCHANGED <<bound, node, gpio, held, urbs, hold, portVars, ttyVars, taskVars>>

\* The locks, the mutex and tty_port_init.
ProbeInit(d) ==
  /\ ph[d] = "published"
  /\ mem' = [mem EXCEPT ![d] = "ready"]
  /\ refs' = [refs EXCEPT ![d] = 1]
  /\ ph' = [ph EXCEPT ![d] = "locked"]
  /\ UNCHANGED <<table, minor, disconnected, intfdata, bound, node, gpio, held, urbs, hold,
                 portVars, ttyVars, taskVars>>

\* release_minor and kfree, where a probe that fails ends.
Discard(d) ==
  /\ ~TableLocked
  /\ table' = [table EXCEPT ![minor[d]] = NoDev]
  /\ mem' = [mem EXCEPT ![d] = "free"]
  /\ ph' = [ph EXCEPT ![d] = "unplugged"]

\* Buffers, URBs, the driver data of the interface and its sysfs files.
ProbeFill(d) ==
  /\ ph[d] = "locked"
  /\ urbs' = [urbs EXCEPT ![d] = TRUE]
  /\ intfdata' = [intfdata EXCEPT ![d] = {"control"}]
  /\ ph' = [ph EXCEPT ![d] = "filled"]
  /\ UNCHANGED <<objVars, bound, node, gpio, held, hold, portVars, ttyVars, taskVars>>

\* alloc_fail2 to alloc_fail7: what was allocated is freed again.
ProbeFillFails(d) ==
  /\ ph[d] = "locked"
  /\ Discard(d)
  /\ UNCHANGED <<refs, minor, disconnected, intfdata, bound, node, gpio, held, urbs, hold,
                 portVars, ttyVars, taskVars>>

\* pre_setup, the first settings, then the data interface is claimed and
\* given its driver data, even when the claim is refused.
ProbeClaim(d) ==
  /\ ph[d] = "filled"
  /\ \E claimed \in SUBSET Interfaces(d) :
       bound' = [bound EXCEPT ![d] = {"control"} \cup claimed]
  /\ intfdata' = [intfdata EXCEPT ![d] = Interfaces(d)]
  /\ held' = [held EXCEPT ![d] = TRUE]
  /\ ph' = [ph EXCEPT ![d] = "claimed"]
  /\ UNCHANGED <<objVars, node, gpio, urbs, hold, portVars, ttyVars, taskVars>>

\* tty_port_register_device: users may open from here on.
ProbeRegister(d) ==
  /\ ph[d] = "claimed"
  /\ node' = [node EXCEPT ![d] = TRUE]
  /\ ph' = [ph EXCEPT ![d] = "registered"]
  /\ UNCHANGED <<objVars, intfdata, bound, gpio, held, urbs, hold, portVars, ttyVars, taskVars>>

\* alloc_fail8 frees the structure; a data interface stays claimed with its
\* driver data, and the reference to the control interface is kept.
ProbeRegisterFails(d) ==
  /\ ph[d] = "claimed"
  /\ Discard(d)
  /\ urbs' = [urbs EXCEPT ![d] = FALSE]
  /\ intfdata' = [intfdata EXCEPT ![d] = @ \ {"control"}]
  /\ bound' = [bound EXCEPT ![d] = @ \ {"control"}]
  /\ UNCHANGED <<refs, minor, disconnected, node, gpio, held, hold, portVars, ttyVars, taskVars>>

\* gpiochip_add, tried with every base up to 502; probe returns 0.
ProbeGpio(d, ok) ==
  /\ ph[d] = "registered"
  /\ gpio' = [gpio EXCEPT ![d] = ok]
  /\ ph' = [ph EXCEPT ![d] = "bound"]
  /\ UNCHANGED <<objVars, intfdata, bound, node, held, urbs, hold, portVars, ttyVars, taskVars>>

-----------------------------------------------------------------------------
(* Opening.                                                                *)

\* The character device of a registered minor is looked up.
Resolve(u, m) ==
  /\ pc[u] = "idle"
  /\ \E d \in Devs : node[d] /\ minor[d] = m
  /\ pc' = [pc EXCEPT ![u] = "resolved"]
  /\ at' = [at EXCEPT ![u] = m]
  /\ UNCHANGED <<objVars, usbVars, portVars, ttyVars, want, file, hungf>>

\* The minor has a tty: it is opened once more.
Reopen(u) ==
  LET x == ttys[at[u]] IN
  /\ pc[u] = "resolved" /\ ~Installing
  /\ x # NoTty /\ ~TtyLocked(x)
  /\ file' = [file EXCEPT ![u] = x]
  /\ pc' = [pc EXCEPT ![u] = "opening"]
  /\ UNCHANGED <<objVars, usbVars, portVars, ttyVars, at, want, hungf>>

\* It has none: tty_install calls get_by_index, which takes table_lock.
FindMinor(u) ==
  LET d == table[at[u]] IN
  /\ pc[u] = "resolved" /\ ~Installing
  /\ ttys[at[u]] = NoTty
  /\ d \in Devs /\ ph[d] \in Probing => StaleOpen
  /\ want' = [want EXCEPT ![u] = d]
  /\ pc' = [pc EXCEPT ![u] = IF d = NoDev THEN "idle" ELSE "found"]
  /\ UNCHANGED <<objVars, usbVars, portVars, ttyVars, at, file, hungf>>

GetByIndexBug(u) ==
  /\ pc[u] = "found"
  /\ \E x \in Ttys :
       /\ tstate[x] = "none"
       /\ refs' = [refs EXCEPT ![want[u]] = @ + 1]
       /\ tstate' = [tstate EXCEPT ![x] = "new"]
       /\ tdev' = [tdev EXCEPT ![x] = want[u]]
       /\ file' = [file EXCEPT ![u] = x]
       /\ pc' = [pc EXCEPT ![u] = "got"]
  /\ want' = [want EXCEPT ![u] = NoDev]
  /\ UNCHANGED <<table, mem, minor, disconnected, usbVars, portVars, ttys, hupwork, at, hungf>>

\* Under the mutex too: a reference for the new tty.
GetByIndex(u) ==
  /\ pc[u] = "found" /\ ~disconnected[want[u]]
  /\ \E x \in Ttys :
       /\ tstate[x] = "none"
       /\ refs' = [refs EXCEPT ![want[u]] = @ + 1]
       /\ tstate' = [tstate EXCEPT ![x] = "new"]
       /\ tdev' = [tdev EXCEPT ![x] = want[u]]
       /\ file' = [file EXCEPT ![u] = x]
       /\ pc' = [pc EXCEPT ![u] = "got"]
  /\ want' = [want EXCEPT ![u] = NoDev]
  /\ UNCHANGED <<table, mem, minor, disconnected, usbVars, portVars, ttys, hupwork, at, hungf>>

\* Disconnected: tty_install returns -ENODEV.
GetByIndexFails(u) ==
  /\ pc[u] = "found" /\ disconnected[want[u]]
  /\ pc' = [pc EXCEPT ![u] = "idle"]
  /\ want' = [want EXCEPT ![u] = NoDev]
  /\ UNCHANGED <<objVars, usbVars, portVars, ttyVars, at, file, hungf>>

\* tty_standard_install, and the structure becomes the tty's driver_data.
Install(u) ==
  /\ pc[u] = "got"
  /\ ttys' = [ttys EXCEPT ![at[u]] = file[u]]
  /\ tstate' = [tstate EXCEPT ![file[u]] = "alive"]
  /\ pc' = [pc EXCEPT ![u] = "opening"]
  /\ UNCHANGED <<objVars, usbVars, portVars, tdev, hupwork, at, want, file, hungf>>

InstallFailsBug(u) ==
  /\ pc[u] = "got"
  /\ tstate' = [tstate EXCEPT ![file[u]] = "none"]
  /\ tdev' = [tdev EXCEPT ![file[u]] = NoDev]
  /\ pc' = [pc EXCEPT ![u] = "idle"]
  /\ file' = [file EXCEPT ![u] = NoTty]
  /\ UNCHANGED <<objVars, usbVars, portVars, ttys, hupwork, at, want, hungf>>

\* error_init_termios: the reference is given back.
InstallFails(u) ==
  /\ pc[u] = "got"
  /\ Put(tdev[file[u]])
  /\ tstate' = [tstate EXCEPT ![file[u]] = "none"]
  /\ tdev' = [tdev EXCEPT ![file[u]] = NoDev]
  /\ pc' = [pc EXCEPT ![u] = "idle"]
  /\ file' = [file EXCEPT ![u] = NoTty]
  /\ UNCHANGED <<table, minor, disconnected, usbVars, portVars, ttys, hupwork, at, want, hungf>>

\* tty_open and tty_port_open of a port that is initialized already.
OpenPortAgain(u) ==
  LET d == tdev[file[u]] IN
  /\ pc[u] = "opening" /\ initialized[d]
  /\ count' = [count EXCEPT ![d] = @ + 1]
  /\ ptty' = [ptty EXCEPT ![d] = file[u]]
  /\ pc' = [pc EXCEPT ![u] = "open"]
  /\ UNCHANGED <<objVars, usbVars, traffic, initialized, hup, ttyVars, at, want, file, hungf>>

OpenPortBug(u, talks) ==
  LET d == tdev[file[u]] IN
  /\ pc[u] = "opening" /\ ~initialized[d]
  /\ count' = [count EXCEPT ![d] = @ + 1]
  /\ ptty' = [ptty EXCEPT ![d] = file[u]]
  /\ initialized' = [initialized EXCEPT ![d] = TRUE]
  /\ traffic' = [traffic EXCEPT ![d] = @ \/ talks]
  /\ pc' = [pc EXCEPT ![u] = "open"]
  /\ UNCHANGED <<objVars, usbVars, hup, ttyVars, at, want, file, hungf>>

\* The first open calls port_activate, which submits URBs; when that is
\* abandoned half way it returns 0 all the same.
OpenPort(u, talks) ==
  LET d == tdev[file[u]] IN
  /\ pc[u] = "opening" /\ ~initialized[d] /\ ~disconnected[d]
  /\ count' = [count EXCEPT ![d] = @ + 1]
  /\ ptty' = [ptty EXCEPT ![d] = file[u]]
  /\ initialized' = [initialized EXCEPT ![d] = TRUE]
  /\ traffic' = [traffic EXCEPT ![d] = @ \/ talks]
  /\ pc' = [pc EXCEPT ![u] = "open"]
  /\ UNCHANGED <<objVars, usbVars, hup, ttyVars, at, want, file, hungf>>

\* Disconnected (-ENODEV), or the device cannot be woken.
OpenPortFails(u) ==
  LET d == tdev[file[u]] IN
  /\ pc[u] = "opening" /\ ~initialized[d]
  /\ count' = [count EXCEPT ![d] = @ + 1]
  /\ ptty' = [ptty EXCEPT ![d] = file[u]]
  /\ pc' = [pc EXCEPT ![u] = "failed"]
  /\ UNCHANGED <<objVars, usbVars, traffic, initialized, hup, ttyVars, at, want, file, hungf>>

\* tty_write, throttling and the completion handlers keep URBs at work;
\* they do not look at disconnected.
Write(u) ==
  /\ pc[u] = "open" /\ ~hungf[u]
  /\ traffic' = [traffic EXCEPT ![tdev[file[u]]] = TRUE]
  /\ UNCHANGED <<objVars, usbVars, ptty, count, initialized, hup, ttyVars, taskVars>>

-----------------------------------------------------------------------------
(* Closing and hanging up.                                                 *)

\* port_shutdown kills the URBs, unless the device is disconnected.
Shutdown(d) ==
  /\ initialized' = [initialized EXCEPT ![d] = FALSE]
  /\ traffic' = [traffic EXCEPT ![d] = @ /\ disconnected[d]]

PortCloseBug(d, hung) ==
  /\ count' = [count EXCEPT ![d] = @ - 1]
  /\ IF count[d] = 1
     THEN /\ ptty' = [ptty EXCEPT ![d] = NoTty]
          /\ IF initialized[d] THEN Shutdown(d) ELSE UNCHANGED <<traffic, initialized>>
     ELSE UNCHANGED <<traffic, ptty, initialized>>

\* tty_port_close: nothing for a file that was hung up; the last one that
\* was not shuts the port down.
PortClose(d, hung) ==
  IF hung
  THEN UNCHANGED <<traffic, ptty, count, initialized>>
  ELSE /\ count' = [count EXCEPT ![d] = @ - 1]
       /\ IF count[d] = 1
          THEN /\ ptty' = [ptty EXCEPT ![d] = NoTty]
               /\ IF initialized[d] THEN Shutdown(d) ELSE UNCHANGED <<traffic, initialized>>
          ELSE UNCHANGED <<traffic, ptty, initialized>>

\* close; with the last file the tty leaves the table.
Close(u) ==
  LET x == file[u] IN
  /\ pc[u] \in {"open", "failed"} /\ ~TtyLocked(x)
  /\ PortClose(tdev[x], hungf[u])
  /\ IF Openers(x) = {u}
     THEN /\ ~Installing
          /\ tstate' = [tstate EXCEPT ![x] = "released"]
          /\ ttys' = [m \in Minors |-> IF ttys[m] = x THEN NoTty ELSE ttys[m]]
          /\ hupwork' = [hupwork EXCEPT ![x] = FALSE]
     ELSE UNCHANGED <<tstate, ttys, hupwork>>
  /\ pc' = [pc EXCEPT ![u] = "idle"]
  /\ file' = [file EXCEPT ![u] = NoTty]
  /\ hungf' = [hungf EXCEPT ![u] = FALSE]
  /\ UNCHANGED <<objVars, usbVars, hup, tdev, at, want>>

\* Nobody refers to the tty any more: tty_cleanup puts the port.
Cleanup(x) ==
  /\ tstate[x] = "released"
  /\ \A d \in Devs : hold[d] # x /\ ptty[d] # x
  /\ Put(tdev[x])
  /\ tstate' = [tstate EXCEPT ![x] = "none"]
  /\ tdev' = [tdev EXCEPT ![x] = NoDev]
  /\ UNCHANGED <<table, minor, disconnected, usbVars, portVars, ttys, hupwork, taskVars>>

\* tty_hangup up to the driver's hangup: every file of the tty is cut off,
\* the port forgets the tty and its opens.
HangUp(d, x) ==
  /\ ~TtyLocked(x)
  /\ hungf' = [u \in Tasks |-> hungf[u] \/ u \in Openers(x)]
  /\ count' = [count EXCEPT ![d] = 0]
  /\ ptty' = [ptty EXCEPT ![d] = NoTty]
  /\ hup' = [hup EXCEPT ![d] = TRUE]

\* Carrier lost (ctrl_irq) or a reset device (reset_resume): the hang-up of
\* the port's tty is queued.
Carrier(d) ==
  /\ initialized[d] /\ ptty[d] # NoTty
  /\ hupwork' = [hupwork EXCEPT ![ptty[d]] = TRUE]
  /\ UNCHANGED <<objVars, usbVars, portVars, ttys, tstate, tdev, taskVars>>

\* hangup_work, perhaps long after it was asked for.
HangupWork(x) ==
  /\ hupwork[x]
  /\ hupwork' = [hupwork EXCEPT ![x] = FALSE]
  /\ HangUp(tdev[x], x)
  /\ UNCHANGED <<objVars, usbVars, traffic, initialized, ttys, tstate, tdev, pc, at, want, file>>

HangupShutdown(d) ==
  /\ hup[d]
  /\ IF initialized[d] THEN Shutdown(d) ELSE UNCHANGED <<traffic, initialized>>
  /\ hup' = [hup EXCEPT ![d] = FALSE]
  /\ UNCHANGED <<objVars, usbVars, ptty, count, ttyVars, taskVars>>

-----------------------------------------------------------------------------
(* disconnect.                                                             *)

\* The core unbinds either interface first; under the mutex.
Disconnect(d) ==
  /\ ph[d] = "bound"
  /\ bound[d] \cap intfdata[d] # {}
  /\ disconnected' = [disconnected EXCEPT ![d] = TRUE]
  /\ intfdata' = [intfdata EXCEPT ![d] = {}]
  /\ ph' = [ph EXCEPT ![d] = "marked"]
  /\ UNCHANGED <<table, mem, refs, minor, bound, node, gpio, held, urbs, hold,
                 portVars, ttyVars, taskVars>>

\* tty_port_tty_get.
DisconnectTty(d) ==
  /\ ph[d] = "marked"
  /\ hold' = [hold EXCEPT ![d] = ptty[d]]
  /\ ph' = [ph EXCEPT ![d] = IF ptty[d] = NoTty THEN "quiet" ELSE "tty"]
  /\ UNCHANGED <<objVars, intfdata, bound, node, gpio, held, urbs, portVars, ttyVars, taskVars>>

DisconnectHangup(d) ==
  /\ ph[d] = "tty"
  /\ HangUp(d, hold[d])
  /\ ph' = [ph EXCEPT ![d] = "hanging"]
  /\ UNCHANGED <<objVars, intfdata, bound, node, gpio, held, urbs, hold,
                 traffic, initialized, ttyVars, pc, at, want, file>>

DisconnectHungUpBug(d) ==
  /\ ph[d] = "hanging" /\ ~hup[d] /\ tstate[hold[d]] # "alive"
  /\ hold' = [hold EXCEPT ![d] = NoTty]
  /\ ph' = [ph EXCEPT ![d] = "quiet"]
  /\ UNCHANGED <<objVars, intfdata, bound, node, gpio, held, urbs, portVars, ttyVars, taskVars>>

\* The hang-up is over: tty_kref_put.
DisconnectHungUp(d) ==
  /\ ph[d] = "hanging" /\ ~hup[d]
  /\ hold' = [hold EXCEPT ![d] = NoTty]
  /\ ph' = [ph EXCEPT ![d] = "quiet"]
  /\ UNCHANGED <<objVars, intfdata, bound, node, gpio, held, urbs, portVars, ttyVars, taskVars>>

DisconnectStopBug(d) ==
  /\ ph[d] = "quiet"
  /\ ph' = [ph EXCEPT ![d] = "stopped"]
  /\ UNCHANGED <<objVars, intfdata, bound, node, gpio, held, urbs, hold, portVars, ttyVars, taskVars>>

\* stop_data_traffic.
DisconnectStop(d) ==
  /\ ph[d] = "quiet"
  /\ traffic' = [traffic EXCEPT ![d] = FALSE]
  /\ ph' = [ph EXCEPT ![d] = "stopped"]
  /\ UNCHANGED <<objVars, intfdata, bound, node, gpio, held, urbs, hold,
                 ptty, count, initialized, hup, ttyVars, taskVars>>

DisconnectUnregister(d) ==
  /\ ph[d] = "stopped"
  /\ node' = [node EXCEPT ![d] = FALSE]
  /\ ph' = [ph EXCEPT ![d] = "unlisted"]
  /\ UNCHANGED <<objVars, intfdata, bound, gpio, held, urbs, hold, portVars, ttyVars, taskVars>>

DisconnectFree(d) ==
  /\ ph[d] = "unlisted"
  /\ urbs' = [urbs EXCEPT ![d] = FALSE]
  /\ ph' = [ph EXCEPT ![d] = "emptied"]
  /\ UNCHANGED <<objVars, intfdata, bound, node, gpio, held, hold, portVars, ttyVars, taskVars>>

\* The sibling interface is released: its disconnect finds no driver data.
DisconnectRelease(d) ==
  /\ ph[d] = "emptied"
  /\ bound' = [bound EXCEPT ![d] = {}]
  /\ ph' = [ph EXCEPT ![d] = "single"]
  /\ UNCHANGED <<objVars, intfdata, node, gpio, held, urbs, hold, portVars, ttyVars, taskVars>>

DisconnectPutBug(d) ==
  /\ ph[d] = "single" /\ ~TableLocked
  /\ Put(d)
  /\ table' = [table EXCEPT ![minor[d]] = NoDev]
  /\ ph' = [ph EXCEPT ![d] = "unplugged"]
  /\ UNCHANGED <<minor, disconnected, intfdata, bound, node, gpio, held, urbs, hold,
                 portVars, ttyVars, taskVars>>

\* tty_port_put: what probe's tty_port_init gave.
DisconnectPut(d) ==
  /\ ph[d] = "single"
  /\ Put(d)
  /\ ph' = [ph EXCEPT ![d] = "unplugged"]
  /\ UNCHANGED <<table, minor, disconnected, intfdata, bound, node, gpio, held, urbs, hold,
                 portVars, ttyVars, taskVars>>

DestructMinorBug(d) ==
  /\ mem[d] = "dying"
  /\ gpio' = [gpio EXCEPT ![d] = FALSE]
  /\ table' = [table EXCEPT ![minor[d]] = NoDev]
  /\ mem' = [mem EXCEPT ![d] = "released"]
  /\ UNCHANGED <<refs, minor, disconnected, ph, intfdata, bound, node, held, urbs, hold,
                 portVars, ttyVars, taskVars>>

\* port_destruct: gpiochip_remove, then release_minor under table_lock.
DestructMinor(d) ==
  /\ mem[d] = "dying" /\ ~TableLocked
  /\ gpio' = [gpio EXCEPT ![d] = FALSE]
  /\ table' = [table EXCEPT ![minor[d]] = NoDev]
  /\ mem' = [mem EXCEPT ![d] = "released"]
  /\ UNCHANGED <<refs, minor, disconnected, ph, intfdata, bound, node, held, urbs, hold,
                 portVars, ttyVars, taskVars>>

\* usb_put_intf and kfree.
DestructFree(d) ==
  /\ mem[d] = "released"
  /\ mem' = [mem EXCEPT ![d] = "free"]
  /\ held' = [held EXCEPT ![d] = FALSE]
  /\ disconnected' = [disconnected EXCEPT ![d] = FALSE]
  /\ UNCHANGED <<table, refs, minor, ph, intfdata, bound, node, gpio, urbs, hold,
                 portVars, ttyVars, taskVars>>

-----------------------------------------------------------------------------
Probe(d) ==
  \/ ProbeAlloc(d) \/ ProbeInit(d) \/ ProbeFill(d) \/ ProbeFillFails(d) \/ ProbeClaim(d)
  \/ ProbeRegister(d) \/ ProbeRegisterFails(d) \/ \E ok \in BOOLEAN : ProbeGpio(d, ok)

\* The steps of a disconnect once it has begun, and what it sets off.
DisconnectStep(d) ==
  \/ DisconnectTty(d) \/ DisconnectHangup(d) \/ DisconnectHungUp(d) \/ DisconnectStop(d)
  \/ DisconnectUnregister(d) \/ DisconnectFree(d) \/ DisconnectRelease(d) \/ DisconnectPut(d)

Destruct(d) == DestructMinor(d) \/ DestructFree(d)

\* An open, once its task has begun it.
OpenStep(u) ==
  \/ Reopen(u) \/ FindMinor(u) \/ GetByIndex(u) \/ GetByIndexFails(u)
  \/ Install(u) \/ InstallFails(u)
  \/ OpenPortAgain(u) \/ OpenPortFails(u) \/ \E talks \in BOOLEAN : OpenPort(u, talks)

Next ==
  \/ \E d \in Devs :
       \/ Probe(d) \/ Disconnect(d) \/ DisconnectStep(d) \/ Destruct(d)
       \/ Carrier(d) \/ HangupShutdown(d)
  \/ \E u \in Tasks :
       \/ \E m \in Minors : Resolve(u, m)
       \/ OpenStep(u) \/ Write(u) \/ Close(u)
  \/ \E x \in Ttys : HangupWork(x) \/ Cleanup(x)

Spec == Init /\ [][Next]_vars

\* What the driver and the core have begun they finish; a sleeper on a mutex
\* that is released again and again gets it at last.  A task may keep a tty
\* open, or a device stay plugged, for ever.
Fairness ==
  /\ \A d \in Devs :
       /\ WF_vars(DisconnectStep(d)) /\ SF_vars(DisconnectHangup(d))
       /\ SF_vars(Destruct(d)) /\ WF_vars(HangupShutdown(d))
  /\ \A u \in Tasks : WF_vars(OpenStep(u))

FairSpec == Spec /\ Fairness

-----------------------------------------------------------------------------
(* Properties.                                                             *)

\* The values every variable keeps (xr_usb_serial_common.h:116-175); no count
\* of references or of open files goes below zero.
TypeOK ==
  /\ table \in [Minors -> Devs \cup {NoDev}]
  /\ mem \in [Devs -> {"free", "zeroed", "ready", "dying", "released"}]
  /\ refs \in [Devs -> Nat] /\ minor \in [Devs -> Minors]
  /\ disconnected \in [Devs -> BOOLEAN]
  /\ ph \in [Devs -> Phases]
  /\ intfdata \in [Devs -> SUBSET {"control", "data"}]
  /\ bound \in [Devs -> SUBSET {"control", "data"}]
  /\ node \in [Devs -> BOOLEAN] /\ gpio \in [Devs -> BOOLEAN]
  /\ held \in [Devs -> BOOLEAN] /\ urbs \in [Devs -> BOOLEAN]
  /\ traffic \in [Devs -> BOOLEAN] /\ count \in [Devs -> Nat]
  /\ ptty \in [Devs -> Ttys \cup {NoTty}] /\ hold \in [Devs -> Ttys \cup {NoTty}]
  /\ initialized \in [Devs -> BOOLEAN] /\ hup \in [Devs -> BOOLEAN]
  /\ ttys \in [Minors -> Ttys \cup {NoTty}]
  /\ tstate \in [Ttys -> {"none", "new", "alive", "released"}]
  /\ tdev \in [Ttys -> Devs \cup {NoDev}] /\ hupwork \in [Ttys -> BOOLEAN]
  /\ pc \in [Tasks -> PCs] /\ at \in [Tasks -> Minors]
  /\ want \in [Tasks -> Devs \cup {NoDev}]
  /\ file \in [Tasks -> Ttys \cup {NoTty}] /\ hungf \in [Tasks -> BOOLEAN]

\* What alloc_fail8 leaves of a device with a data interface of its own: that
\* interface with the freed structure for its driver data.
Orphaned(d) == d \in Split /\ ph[d] = "unplugged" /\ intfdata[d] = {"data"}

\* The ttys whose driver_data is d, each with a reference of d's port.
TtysOf(d) == {x \in Ttys : tdev[x] = d}

\* probe's own reference, from tty_port_init to the end of disconnect.
Own(d) == IF ph[d] \in {"unplugged", "published"} THEN 0 ELSE 1

\* "Increment its refcount and return it": the kref of a port counts its
\* ttys, those being installed and those waiting for cleanup too, and the
\* driver's own reference (lines 81-103, 569, 661-677, 705, 1872).
RefsExact ==
  \A d \in Devs : mem[d] = "ready" => refs[d] = Cardinality(TtysOf(d)) + Own(d)

\* No pointer to a structure outlives it: the minor table, the one a lookup
\* waits with, the driver_data of a tty, the driver data of an interface,
\* the tty device, the GPIO chip and the disconnect that is under way; but
\* for the data interface of a device whose registration failed (line 1732).
PointersLive ==
  /\ \A m \in Minors : table[m] \in Devs => mem[table[m]] \notin {"free", "released"}
  /\ \A u \in Tasks : pc[u] = "found" => mem[want[u]] \notin {"free", "released"}
  /\ \A x \in Ttys : tdev[x] \in Devs => mem[tdev[x]] = "ready"
  /\ \A d \in Devs :
       /\ intfdata[d] # {} => mem[d] = "ready" \/ Orphaned(d)
       /\ node[d] \/ ph[d] \in Leaving => mem[d] = "ready"
       /\ gpio[d] => mem[d] \in {"ready", "dying"}

\* A minor is not given to a new device while a tty of the old one is in the
\* tty driver's table: an open of the minor never finds the old tty with
\* the new device behind the minor (lines 108-130, 673).
TtyOfItsMinor ==
  \A m \in Minors : ttys[m] # NoTty => table[m] \in Devs /\ tdev[ttys[m]] = table[m]

\* The URBs and buffers that disconnect frees are not in use, whatever opens,
\* writes, closes and hang-ups it met (lines 605, 687, 1854-1866).
NoTrafficAfterFree == \A d \in Devs : traffic[d] => urbs[d]

\* Once disconnect stops the traffic, every open file of the device has been
\* hung up and nobody can start it again (lines 1849-1854).
NobodyWrites ==
  \A d \in Devs : ph[d] \in {"quiet"} \cup Cut =>
    \A u \in Tasks : pc[u] = "open" /\ tdev[file[u]] = d => hungf[u]

\* disconnect ends, whatever opens and hang-ups hold the tty it waits for.
DisconnectEnds == \A d \in Devs : (ph[d] = "marked") ~> (ph[d] = "unplugged")

\* A device that is gone and that no tty points to gives its minor and its
\* memory back (lines 661-677, 705, 1872).
Reclaimed ==
  \A d \in Devs : (ph[d] = "unplugged" /\ TtysOf(d) = {}) ~> (mem[d] = "free")
-----------------------------------------------------------------------------
(* Refinement.                                                             *)

\* Who holds a structure, in the terms of XrLifetime: its ttys, and the
\* driver (NoTty) from probe's tty_port_init to the end of disconnect.
HoldersOf(d) == TtysOf(d) \cup (IF Own(d) = 1 THEN {NoTty} ELSE {})
Holders == [d \in Devs |-> HoldersOf(d)]

\* The device that a lookup under table_lock has found.
Found == IF TableLocked THEN want[CHOOSE u \in Tasks : pc[u] = "found"] ELSE NoDev

Lifetime == INSTANCE XrLifetime WITH
              Users <- Ttys, Driver <- NoTty, life <- mem, holders <- Holders,
              slot <- table, found <- Found, gone <- {d \in Devs : disconnected[d]}

\* The structure of every device lives and dies as XrLifetime says: as long
\* as it has holders, who come only through the minor table while the device
\* is there; the count of the kref is the number of holders at every put
\* (lines 81-130, 569, 661-677, 705, 1820-1880).
ImplementsLifetime == Lifetime!Spec
=============================================================================
