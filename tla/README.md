# A TLA+ model of teknic_hardware

The repository holds two programs that meet on one USB cable:

* `TeknicSystemHardware` (`src/src/system.cpp`), a ros2_control hardware plugin
  that drives Teknic ClearPath-SC motors through the sFoundation SDK;
* the Exar USB-serial driver for Linux (`src/ExarKernelDriver/`) that the
  SC4-HUB of those motors needs.

They share no state: bytes of the SDK's port go through the tty of the driver.
Each is therefore modelled on its own; within the driver, `XrWrite`, `XrRead`,
`XrPort` and `XrLine` divide its state between them: buffers and power, read
URBs, object lifetime, device registers. What one of them needs of another it
keeps as one variable (`XrPort`'s `traffic` is all of `XrWrite`'s and `XrRead`'s
URBs; their `port` is the open and closed of `XrPort`). The sessions and the
power of a device are in `XrWrite` and in `XrRead`; the contract both implement is
`XrPower`.

## Inventory

### TeknicSystemHardware (modelled: `TeknicSystem`)

*State.* The parameters of each joint (`homing_`, `read_only_`, limits), the
conversion `counts_conversions_`, `hw_states_*`, `hw_commands_*`,
`control_mode_`, `start_modes_`, `stop_modes_`; in the SDK: the ports and, per
node, Enable Request, Ready, WasHomed, the move it executes and its limits; in
the framework: the lifecycle state and the claimed command interfaces.

*Operations.* `on_init`, `on_configure`, `on_cleanup`, `on_activate`,
`on_deactivate`, the destructor, `prepare_` and `perform_command_mode_switch`,
`read`, `write`, and the setters behind `export_command_interfaces`.

*Interactions.* The resource manager calls them one at a time; the nodes run on
their own and are polled; controllers write through interfaces they claimed.

*Hard.* `on_activate` polls motors that become ready late, fault in between, or
never finish homing; any SDK call may throw half way through a loop over the
joints; the destructor runs in any state; what a switch leaves behind is used
by later cycles; a second activation starts from what the first left.

*Correct when* a motor is enabled only when the lifecycle says so, homing is
honoured, limits and commands use one conversion, control modes follow claims,
and no joint moves on an unclaimed or stale command.

### Exar driver, write path and power management (modelled: `XrWrite`)

*State.* The buffers `wb[]` with their `use` flags, `transmitting`,
`delayed_wb`, `susp_count`, the work `work`, the tty port's initialized flag; in
the USB core: the URBs in flight, the runtime PM count, where a suspend or
resume is.

*Operations.* `tty_write`, `write_bulk`, `softint`, `suspend`, `resume`,
`reset_resume`, `start_wb`, `write_done`, and what `port_activate` and
`port_shutdown` do to them.

*Hard.* Locks are released between a test and its use (suspend), or not taken
(`resume` calling `start_wb`); a suspend arrives in the middle of anything; a
write to a sleeping device is parked; a close meets a suspend.

Of the three places that take a PM reference two, in `port_shutdown` and in
`tty_write`, do not look whether they got it.

*Correct when* no buffer is reused in flight, PM references balance but for those
that were not got, a parked write is kept and goes out, writers are woken, a
close ends and leaves nothing in flight.

### Exar driver, read path and control interrupt (partly: `XrRead`)

*State.* `read_urbs_free`, the URBs with the controller, `ctrlurb`,
`throttled`, `throttle_req`, `susp_count`; where each caller of
`submit_read_urb` is.

*Operations.* `submit_read_urb(s)`, `read_bulk_callback`, `ctrl_irq`,
`tty_throttle`, `tty_unthrottle`, `port_activate`, `port_shutdown`, `suspend`,
`resume`.

*Hard.* Four contexts submit the same URBs with nothing but an atomic bit
between them, while others kill them.

*Correct when* an URB has one owner, a closed port has every URB back, and an
open, awake, unthrottled port reads and watches its status.

The bytes of an URB, which change none of this state, are `XrDecode`'s.

### Exar driver, probe, minor table, open, disconnect (modelled: `XrPort`)

*State.* `xr_usb_serial_table`, the `xr_usb_serial` structure with `minor` and
`disconnected`, the kref of its `tty_port`, `port.tty`, `port.count`, the driver
data and the claims of its interfaces, its tty device, GPIO chip and URBs; in
the tty core: the ttys, their table and their queued hang-ups.

*Operations.* `probe`, `disconnect`, `alloc_minor`, `release_minor`,
`get_by_index`, `tty_install`, `tty_open`, `port_activate`, `port_shutdown`,
`tty_close`, `tty_hangup`, `tty_cleanup`, `port_destruct`, `reset_resume`'s and
`ctrl_irq`'s `tty_hangup`.

*Hard.* A device is pulled while it is being opened, closed, hung up or
written; its structure outlives it until the last tty is gone; the same minor
goes to the next device; `disconnect` waits for a tty's lock that an open holds
while it waits for the device's mutex.

*Correct when* no pointer outlives the structure, every reference is put once,
a minor never leads to the tty of another device, no URB is at work when it is
freed, and `disconnect` ends.

### Exar driver, settings and register access (partly: `XrLine`)

*State.* The tty's termios, `line`, `ctrlout`, `trans9`, `preciseflags`, the
registers of the device, the messages each handler has yet to send.

*Operations.* `set_termios`, `tiocmset`, `xr_usb_serial_tty_ioctl`'s
`SET_ANY_BAUD_RATE`, `SET_PRECISE_FLAGS`, `LOOPBACK` and `SET_GPIO_MODE`, the
modem lines, the GPIO chip's `set` and directions, each with the HAL's `set_*`, `enable`,
`disable` and `set_control`.

*Hard.* No lock covers what the driver remembers together with the messages
that carry it; each handler disables the UART and enables it again in between;
`set_termios` sends only what it believes has changed; the GPIO chip and the
ioctls write registers that the line settings also use; any int is taken for a
baud rate, 0 too; the device may sleep, and nobody looks at a message's result.

*Correct when* at rest the registers are what the driver remembers and the UART
is enabled.

### Not modelled

* Of the line settings: `XR_USB_SERIAL_SET_REG`, by which a program may give any
  register any value. What `XrLine` says of a register it says of executions in
  which no program sets it so. Further break, `serial_info`, and what only reads
  (`XR_USB_SERIAL_GET_REG`, `tiocmget`, the values of GPIO pins); the loopback
  register, the xon and xoff characters, and the levels of the pins other than
  DTR and RTS, which nothing else in the driver writes. Of the GPIO mode register only the choice
  of pins for RTS/CTS is modelled.
* Of the control interrupt: `ctrlin`, which nobody but `tiocmget` reads.
* Descriptor parsing in `probe`, older kernels than 3.7, module init and exit.
* The sFoundation SDK: about 24 000 of the tree's lines are declarations of a
  binary library. What `system.cpp` uses of it is in `TeknicSystem` as external
  actions; there is no behaviour in the headers to model.
* Packaging and driver installation: nothing at run time.

Of the repository's own program text (the plugin and the driver, about 3 500
lines) the modules stand for about three quarters.

## Modules

| Module | What it is |
|---|---|
| `TeknicSystem` | the plugin, its motors, its resource manager and controllers |
| `TeknicSystemProofs` | type correctness and the mode-switch theorems |
| `TeknicMotors` | what the plugin promises of the motors: when each is energised and moves |
| `TeknicLifecycleProofs` | the lifecycle, homing and unit theorems, that `TeknicSystem` implements `TeknicMotors`, and that an activation comes nearer its end |
| `MCTeknicSystem` | joint tables for TLC |
| `XrWrite`, `XrWriteProofs`, `MCXrWrite` | the transmit path, its theorems, its instance |
| `XrPool`, `XrPoolProofs` | what the transmit path promises of each buffer, and that `XrWrite` implements it |
| `XrRead`, `XrReadProofs`, `MCXrRead` | the receive path, its theorems, its instance |
| `XrUrbs` | what the receive path promises of each read URB |
| `XrPower` | sessions, suspends and resumes as `XrWrite` and `XrRead` share them |
| `XrDecode`, `XrDecodeProofs` | what `process_read_urb` makes of the bytes of an URB, as functions, and theorems about them |
| `XrPort`, `XrPortProofs`, `MCXrPort` | the lifetime of a device, its theorems, its instance |
| `XrLifetime` | what the driver promises of the life of a device's structure |
| `XrLine`, `XrLineProofs`, `MCXrLine` | the settings of a port, their theorems, their instance |

A definition whose name ends in `Bug` (in `XrWrite` also `ParkKeepsReference`,
`ParkNoReference`) is a deliberately wrong variant
of its neighbour, used to confirm that the properties notice it; no
specification uses one.

### TeknicSystem and the code

The names of variables with a trailing underscore are the class's own. `lc` is
the lifecycle state the resource manager keeps. `on_activate` is a loop of
steps (`step`, with the joint `cur`) since nodes change under it; `EnableNode`,
`ReadySeen`, `InitiateHoming`, `HomedSeen`, `FinishJoint` are its sections,
`EnableTimeout` and `HomingTimeout` its early returns, `ActivateFault` the
`catch` of an `mnErr`. Every other callback is one action; when its loop can
throw, a parameter `last` chooses how many joints were done.

Conversions are counted, not computed: `scale[j]` is how many times
`PositioningResolution` has been multiplied into `counts_conversions_[j]`
(`system.cpp:374`), `limitScale[j]` the scale the limits were set with. Keys are
matched to joints by substring in the code; `NameOccursIn` gives which names
occur in which keys.

Assumed of the framework, which is not under `src/` (ros2_control on the
distribution the package targets): calls are serialised; ERROR from a
callback, or an error in read or write, goes through the default `on_error` to
finalized; FAILURE of `on_configure` returns to unconfigured, of `on_cleanup`
it ends in finalized; `on_shutdown` is the default; `read` runs in inactive and
active, `write` in active; a switch is prepared before it is performed, and
claims change with the performed switch. Of the SDK: a node asked to enable
becomes ready at any later time or never; a fault ends its motion and
may lose its home; `Homing.Initiate` drops WasHomed.

### TeknicMotors and TeknicSystem

`TeknicMotors` knows no interfaces, modes, conversions, timeouts or SDK: only
the phase of the component (`Phase`: the lifecycle state, "activating" while
`step` is not "idle"), the joints whose Enable Request is set (`Powered`), and
whether each is still, homing or commanded (`Doing`, from `motion`). `lost` is
`abandoned`, set when the destructor could not reach a motor. It orders what
`on_activate` does to the motors (joint by joint, one moving at a time, a
read-only joint deenergised before the next is touched), lets a joint move
otherwise only while the component is active, and says that a motor stays
energised outside "activating" and "active" only in "finalized", or after a
`lost` destruction. That an inactive component has deenergised its motors, and
that the writable motors of an active one are enabled, follow from it.

### XrWrite and the code

A section under `write_lock` is one step. `resume` calls `start_wb` after it has
released the lock, so its `transmitting++` is `ResumeLoad` then `ResumeStore`,
and `write_done` on a failed submission `ResumeUndoLoad` then
`ResumeUndoStore`. `suspend` is `SuspendCheck` (the test under the lock),
`SuspendCount` (the increment, under both locks), `SuspendStop`
(`stop_data_traffic`), then the core's flush. `pm` is the runtime PM count of
the control interface, `waiting` a writer asleep in the line discipline. A
failing `usb_autopm_get_interface` refuses an open (`ActivateRefused`);
everything after it in `port_activate` returns 0, because `retval` is not set
again, so the tty core marks the port initialized.

Nobody looks at the gets of `port_shutdown` (line 688) and `tty_write` (line 755).
When they are refused (`ShutdownRefused`, `got = FALSE` of the writes) the
driver goes on: it kills the URBs of a device that may be asleep, submits
or parks the write, and puts in the end (696, 195, 760) a reference that it never
took. `unbacked` is a history variable that counts these, and the second put of an
activation whose `submit_read_urbs` fails (650 after 633). `PMBalance` says that
`pm + unbacked` is the number of owners, so that nothing else unbalances.
Kernels that refuse to take the count below zero are not told from those that do
not. After a stray put a runtime suspend may begin under an open, a close or a
write; the model explores what follows, and the properties that the balance
is for (`HeldAwake`, which is proved, `DelayedGoesOut`, the guard of `XrPower`) say what holds until then, the
others (`NoBufferReuse`, `ClosedIsQuiet`, `ShutdownFinishes`, `ImplementsPool`) hold
all the same.

`suspend` reads the initialized flag just after the locks under which it counts;
`SuspendCount` has the two in one step, in `XrRead` too. An open or a close that falls between them
is one that came before the step or after it.

Assumed of the kernel: one suspend or resume at a time, with a call per
interface; `usb_kill_urb` returns after the completion handler; tasks are frozen
during a system sleep, and not inside an open or a close; a runtime suspend
starts only at a PM count of zero or less; a get that waits fails only once the
transition that runs has ended.

### XrRead and the code

`at` and `ph` say, for each of the four callers of `submit_read_urb`, which URB
it is at and whether it is about to test the bit (`Take`), to submit
(`Submit`, `SubmitFails`) or to set the bit again (`Restore`). The handler
(`cb`, `cbpc`) sets the bit (`GiveBack`), copies (`Process`), checks the throttle
under the lock (`CheckThrottle`) and becomes one of those callers. `k` is the
URB that `port_shutdown` or `stop_data_traffic` is killing. `excused` is a
history variable: it records that, in this session, a submission failed on a
device that could have taken it, that `port_activate` went on without reading,
or that a suspend met the end of an open. After such an event the code makes no
attempt to restart what stopped; the properties that speak of reading going on
exclude those sessions and no others.

Assumed of the kernel, beyond the above: the controller gives back one URB of
the device at a time; the core refuses submissions while it flushes and
suspends; no reader is inside the line discipline when `shutdown` is called.

### XrPool and the code

`XrPool` gives each buffer an owner: nobody, the controller, the parking place,
`resume`, or "stranded". `XrWrite` maps to it with `Owner`, read off `inflight`,
`delayed_wb`, `handoff` and `use`, and `Awake`. The pool has no locks, counts or
interfaces: it says that one buffer at a time changes hands, along seven edges.
"stranded" is a defect the promise must name (finding 4): there is an edge into
it and none out.

### XrUrbs and XrRead

`XrUrbs` gives each read URB an owner: nobody, one caller of `submit_read_urb`,
or the controller; `XrRead` maps to it with `Owner`, read off `hcd`, `free` and the
callers' places. `Power` is where the core's suspend is, of which the URBs see
only "flush" and "suspended". `Killed` is what the loop of `port_shutdown` has
passed, all of them while the port is closed: such an URB moves no more. The
loop of `stop_data_traffic` promises less, since `tty_unthrottle` may submit
between two of its kills; the core's flush makes up for it.

### XrPower, XrWrite and XrRead

`XrPower` has four variables: `session` (the models' `port`), `level` (`Level`,
from where a suspend or resume is), `suspended` (`susp_count`) and `sound`: no
reference has been put that was not taken. While it is sound `SuspendStart` is
impossible during the referenced part of an open or a close ("opening", "held",
"closing", "killing"). In
`XrRead`, which has no PM count, that is a guard, an assumption about the core.
In `XrWrite` it follows from the references that opens, closes and
writes take and put (`PMBalance`), so the assumption of one model is a theorem of the
other.

### XrPort and the code

A section under the device's mutex is one step. `table_lock` is held from
`FindMinor` to `GetByIndex`, since `get_by_index` takes the mutex inside it.
`mem` is the structure: "zeroed" from `alloc_minor`, "ready" from
`tty_port_init`, "dying" when the last reference is put, "released" once
`port_destruct` has freed the minor. `ph` is where `probe` or `disconnect` is;
`pc` where a task's open is. `traffic` says whether any URB may be with the
controller. A device in `Split` has a data interface of its own, so `disconnect`
may be entered by either.

Assumed of the kernel: one probe or disconnect of a device at a time; one tty is
installed at a time; a tty's own lock makes its opens and hang-ups exclusive;
after a hang-up no operation of an old file reaches the driver; `cleanup` runs
when nobody refers to the tty.

Two defects of the code that no line of the repository speaks of are hazards and
not findings.

* When `tty_port_register_device` fails for a device with a data interface of its
  own (`ProbeRegisterFails`, line 1732), `alloc_fail8` frees the structure and leaves
  that interface with a pointer to it: it is `Orphaned`. `PointersLive` excuses this one
  pointer and holds of all others, and every other property holds with
  the path in. The interface's own `disconnect`, if it was claimed, would then work on freed memory, which
  may do anything: it has no action, and what is said of the driver is said of the time before it.
  A claim of the data interface that is refused (line 1723, `ProbeClaim`) is not looked
  at; the interface gets its driver data all the same.
* A lookup that began before a minor was released may reach the minor of the next
  probe, which publishes the structure (line 1536) before it initialises its
  locks and port. The constant `StaleOpen` switches this: with `TRUE` TLC finds `RefsExact`
  violated; the run and the theorems assume `~StaleOpen`.

### XrLifetime and XrPort

`XrLifetime` replaces the kref by the set of a structure's holders: its ttys, and
the driver (`NoTty`) from `tty_port_init` to the end of `disconnect`
(`HoldersOf`). `Found` is the device a lookup under `table_lock` has found. Its
`Put` sends the structure to its end exactly when the last holder leaves,
`Get` needs a device that is not gone, and `Unlist` and `Publish` need that no
lookup is under way.

### XrLine and the code

A handler queues the messages of each of its sections in `todo`; `Send` delivers
one. `op` is the handler a task is in, `at` its next section. A register is a
name ("uart", "urm", "dtr", "coding", ...), of which a product family uses its
own; `Enable`, `Disable`, `SetLine`, `SetControl`, `SetWide`, `SetFlow` are the
HAL's functions. `Divisor` and `MaskIndex` are its arithmetic, in the 24 and 5 bits
that are sent. The rate 0 is one that `SET_ANY_BAUD_RATE` stores (line 1056)
and a later `set_termios` may keep: what the division does then depends on the processor. Where it
traps (place "divide") the kernel kills the task (`Dies`), with the UART disabled
and, in `set_termios`, `termios_rwsem` held; where it does not, it gives 0.

Hardware flow control is two registers, "flow" and "gmode", the choice of pins in
the GPIO mode register. `gpio_dir_output` of an offset above 7 reads and rewrites the second
(`GpioDirMode`), `SET_GPIO_MODE` gives it any value. The GPIO chip's `set` of offsets 3 and
5 (`GpioSet`) drives DTR and RTS behind `ctrlout`.

`spoilt` is a history variable. It records the group of registers for which
agreement was lost in a way the code does not try to prevent: a message sent to
a sleeping device, two handlers that write one group at a time, an ioctl
that returns half way or is killed, a program that sets the GPIO mode itself.
"chip" is added when the GPIO chip sets DTR or RTS, and taken away when the driver next
sends both. A property speaks of the groups that are not spoilt.
"uart" is spoilt until the first handler enables it, and no longer once one
does; the others stay spoilt, since a handler that compares with what the driver remembers
need not send it again.

Assumed of the kernel: `set_termios` runs under the tty's `termios_rwsem`, so
there is one at a time; activate and shutdown run under the port's mutex.

## Runs

| Run | Question | Bounds, and why they are enough |
|---|---|---|
| `lifecycle` | do motors, homing, units and lifecycle agree, whatever fails (`ImplementsMotors`)? does activation return? | 2 joints with different parameters (one writable and homed each time, one read only and homed once): the smallest loop with a joint before and one after the failure. `MaxActivations = 2`: the second activation is where leftovers show |
| `mode_switch` | do modes and commands follow claims? | 2 joints, all 4 interfaces, every pair of start and stop sets; one activation, since a switch reads nothing an activation writes |
| `units_compound` | violation: limits in the declared units | as `lifecycle` |
| `claims_overlap` | violation: never both interfaces claimed | as `mode_switch`, with a second controller allowed |
| `xr_write` | buffers, PM references (`PMBalance`), suspend, parked writes, a close that ends and is quiet; `ImplementsPool`, `ImplementsPower` | 3 buffers: one in flight, one parked, one leaking or handed over. 2 interfaces: a suspend can be called off between them. `MaxDrift = 1` and `MaxUnbacked = 1` below |
| `xr_transmitting`, `xr_delayed_leak`, `xr_wakeup` | violations, see Findings | 2 buffers are enough for each |
| `xr_read` | ownership of read URBs, reading goes on; `ImplementsUrbs`, `ImplementsPower` | 2 URBs: the loop has a first and a last; 3 were tried too and agree. 2 interfaces |
| `xr_port` | live pointers, exact references, one tty per minor, quiet before free, disconnect ends, everything is given back; `ImplementsLifetime` | 2 devices, one split, that compete for one minor: the smallest case of a minor that is given again; 2 ttys: the old one waiting for cleanup and the new; 2 tasks: one opens while the other closes. No counter needs a bound |
| `xr_line` | registers at rest are what the driver remembers | 2 tasks: every property is about two handlers at most. `MaxCalls = 3` handlers or suspends after an open: one to change, one to race or lose a message, one to ask again. 3 termios: the two flow controls and none, 8 and 9 bits, B0; rates 0 (no quotient) and 1 (more than 24 bits); both families; GPIOs 3 (DTR) and 8 (the mode register) |
| `xr_line_wide` | violation: nine-bit characters are sent in wide mode | as `xr_line` |

`MaxDrift` bounds how far `transmitting` may stray from the writes in flight
before a suspend begins: the lost update of `resume` can repeat for ever and the
counter with it. One lost update is enough to refute the count, and the
properties of `xr_write` do not depend on its value (they are proved without
the bound mattering). `MaxUnbacked` bounds how many references are put that were
never taken: one is enough to let a suspend in where none should be, and lets a
refused write meet the close that relied on its reference; the runs of the other
findings do without.

`MaxActivations` guards `ActivateBegin` alone, `MaxCalls` the calls of handlers
and `Sleep`. `TeknicSystem` allows a `Terminated` stutter after the destructor.
Deadlock is checked in every run but those of `XrPort`, where an unplugged
device with no open leaves nothing to do, and `XrLine`, which stops at
`MaxCalls`.

### Fairness

`TeknicSystem`: weak fairness of the steps of a running `on_activate`. Its
thread runs and its two waiting loops compare a clock with a timeout, so one of
"seen" and "timed out" happens. Nothing is assumed of motors or controllers.

`XrWrite`: weak fairness of the work queue, of the core's suspend and
resume steps, of killed URBs being given back, of waking a device that is
referenced, waited for or was put to sleep by the system, and of a close whose URBs are back.
It is strong for `ShutdownAwake`: the wait of a close is for its own resume, and ends when that has woken the
device even if an unbalanced count lets it fall asleep again at once, so the step cannot be
missed for ever. A write that nobody kills need never complete, and no
user task is assumed to do anything; that a reference is granted is never assumed.

`XrPort`: weak fairness of a disconnect, of the hang-up it waits for and of an
open that has begun, since each is a thread of the kernel that runs; strong
fairness of `DisconnectHangup` and of `port_destruct`, which wait for a lock
that others take and release again and again: a kernel mutex is fair to its
waiters. Nothing is assumed of users or of the cable.

`XrLine` and `XrRead` have only safety properties. The callers of `XrRead` are
loops over a fixed number of URBs, and what it shows is that the states they come to rest in still read.

## Findings

Each is a run whose one property quotes the repository and is violated.

1. `units_compound`: `counts_conversions_[i] *=` the resolution at every
   activation; nothing resets it. From the second activation on, limits,
   commands and states are scaled twice. They stay consistent with each other
   (`UnitsAgree`, proved), but not with the README's units.
2. `claims_overlap`: a second controller can take the other interface of a
   joint, against README.md:34; the joint then follows the later claim.
3. `xr_transmitting`: `transmitting` loses updates, because `resume` does not
   hold the lock `start_wb` asks its caller for.
4. `xr_delayed_leak`: of two writes to a sleeping device the second is reported
   as written, is queued nowhere, and its buffer is never used again.
5. `xr_wakeup`: a suspend cancels the pending wake-up work and a writer can
   sleep on with every buffer free.
6. `xr_line_wide`: setting the precise flags to 0 takes the device out of wide
   mode though the termios ask for nine bits; `trans9` stays set, and
   `set_wide_mode` is not called again until the next `set_termios`.

Other behaviours are listed as hazards in `PROJECT.json`
with a note: the GPIO chip sets DTR or RTS behind `ctrlout`, and a `tiocmset` of what
`ctrlout` already says returns early and leaves the pin there; a port whose `submit_read_urbs` failed puts its PM reference twice, and a close or
a write whose reference was refused puts one that it never took
(`PMBalance` counts both as `unbacked`), an unthrottle
can submit an URB whose handler is still copying its buffer, and with
`rx_buflimit` 1 an unthrottle across a suspend can leave the only URB
unsubmitted. A close while the device sleeps leaves the parked write, with
buffer and PM reference, to a later session.

In wide mode `process_read_urb` pairs a character with its status and means to
keep the character of a pair that two URBs share, but it never sets
`xr_usb_serial->have_extra_byte` (it computes a local of that name): after an URB
of odd length a character is lost and the next ones are paired wrongly. This
is a function of the bytes and no behaviour, so it is proved, not run:
`SplitPair` and `KeptByte` below.

Smaller ones, met while reading and not modelled: `tiocmget` treats a negative
result as success (`hal.c:668-678`); `get_reg` of the 141x family fills only the
low byte of its result; product 0x1421 is in the id table without a register map
(`common.c:1992`); after a device is plugged in again the tty keeps its old
termios, and `reset_resume` writes no register again.

## Proofs

All theorems are for every number of joints, buffers, URBs, devices, minors,
ttys, tasks and settings, every parameter table and (but for `XrLine`'s and
`TeknicSystem`'s own bound, which the proofs never use) any number of calls.
Each safety property of the passing runs, refinements included, is one of them.
`InactiveDisabled`, `ActiveEnabled`, `DestructorDisables`, `DelayedKept`,
`StaysAwake`, `DirsAreSet` and
`ThrottlePending` state properties that no run checks any more: the first
three follow from `ImplementsMotors`, the fourth from `ImplementsPool`, the fifth from
`ImplementsPower`.

`TeknicSystemProofs`

* `TypeCorrect` needs `Prepared`: a request that waits to be performed was
  allowed, and has a start mode for every joint. Without it `perform` could leave `control_mode_`
  undefined; `SwitchComplete` is its visible form.
* `UnclaimedCommands` (`UnclaimedIsNaN`) is inductive next to `Prepared`, which
  also says that the joints a waiting request stops are those marked in
  `stop_modes_`. It holds for overlapping names and sequential claims as well.
* `MovesClaimed` follows: what `write` sends has a command, hence a claim.
* `ModeFollowsClaim` assumes `~SequentialClaims` and that no joint's name
  occurs in another's; it also yields that no joint has both interfaces claimed.
  `claims_overlap` shows that the first assumption is needed.

`TeknicLifecycleProofs`

* `LifeInv` is the strengthening behind `InactiveDisabled`, `ActiveEnabled`,
  `HomingDone` and `DestructorDisables`: `NodesOK` (a node that is ready or
  moves is requested), `LoopOK` (while `on_activate` runs, joints before
  `cur` are finished, those after it untouched, and `cur` is where `step`
  says), `RestOK` (what holds when no activation runs) and `PortsOK` (the ports
  are open whenever a motor may be enabled). It is needed because the
  properties speak of the end of a loop and the steps of its middle.
* `UnitInv`, behind `UnitsAgreeAlways`: all joints have the same scale, except
  that those the running loop has passed are one ahead of the others.
* `SystemImplementsMotors`, a step simulation from `TypeOK` and `LifeInv`. The
  sections of `on_activate` need `LoopPowered` and `LoopStill`: what is powered and
  moves at each `step`, which is `LoopOK` in the terms of `TeknicMotors`. The
  destructor needs `PortsOK`: if the ports are closed no motor was left enabled, so
  skipping the joints is no loss.
* `ActivationShortens`: each step of a running activation lowers `Rank`, at
  most 5 N, and no other step changes `step` or `cur`. Of `ActivationReturns`
  only the fairness of its thread is left to TLC.

`XrWriteProofs`

* `IInv` = `Core` /\ `NoBufferReuse` /\ `QuietPhase`. `Core` holds the types and
  the bookkeeping of the USB core's transitions: how many interfaces are
  suspended at each `pc`, that `resume` holds a buffer exactly inside
  `start_wb`, that the initialized flag follows the port. `QuietPhase`: an open
  port with a suspended interface has no write in flight once
  `stop_data_traffic` is over, since direct writes need `susp_count = 0`. It also
  says that a port that is closed or opening has none, and none in `resume`'s hands. It
  gives `TypeCorrect`, `BuffersNotReused`, `SuspendIsQuiet`, `ClosedStaysQuiet` and `DelayedKept`.
* `ReferencesBalance` adds `PMBalance` to it, one step per path that takes or puts a
  reference or changes its owner, whatever references are refused.
* `WriteImplementsPower`, a step simulation from `IInv` and `PMBalance`. Its one
  hard step is the beginning of a suspend: the count is then at most zero, and
  while nothing is unbacked an open or a close in progress would make it positive
  (`SuspendNotHeld`). Once something is, `XrPower` allows the suspend, as the code does.
* `StaysAwake` (`HeldAwake`), from the steps of `XrPower` alone: a device that an open or a close has
  found awake stays awake until its reference is put, as long as nothing is unbacked.
* `PowerShortens`: each step of a suspend or a resume lowers `Rank`, and no other
  step changes `pc` or `susp_count`. This is what `ShutdownFinishes`
  rests on, besides fairness.

`XrReadProofs`

* `IInv` = `TypeOK` /\ `Phases` /\ `Counted` /\ `Unique`. `Unique` is `OneOwner`
  without cardinalities; `Phases` says that each context runs only at its place
  (the handler in "submit", an open in "starting", a resume in "reading"), so
  that none is started again with an URB in hand. It gives `TypeCorrect` and
  `UrbsHaveOneOwner`.
* `StatusInv`, behind `StatusIsWatched`: `ctrlurb` is submitted while an open is
  finished, and again when a resume has reached the read URBs.
* `QuietInv`, behind `ClosedQuiet`: while a close kills, the URBs before `k` are
  back and stay free, because unthrottle, open and resume are idle then and
  the handler is at its own URB.
* `ThrottlePending` is inductive as it stands.
* `ReadImplementsUrbs`, a step simulation. `Unique` makes `OwnerOf` well defined
  (`OwnersKnown`) and shows that a step moves one URB; `AsleepInv` (no URB is with
  the controller on a sleeping device) gives `Sleep` and that nothing
  completes then; `QuietInv` that no caller takes an URB in `Killed`.
* `ReadImplementsPower`, from `Counted`.
* `LostInv`, behind `ReadsContinue`: an URB that is free and that no thread will
  still come to (`Visited`) is lost. While an open, awake, unthrottled session is
  not excused at most one URB is, since only an unthrottle whose submission
  failed can lose one, and while it is about to give one back none is lost yet.
  `HandlerInv` says where the completion handler and a failed submission can be.

`XrPoolProofs`

* `WriteImplementsPool`, a step simulation: `IInv` of `XrWriteProofs` and
  `Asleep` (no write is in flight on a sleeping device); the initial state maps
  to the pool's, a step that moves no buffer to a stutter (`StillOwners`), and
  every other step to the one edge of the one buffer it moves.

`XrPortProofs` (assuming `~StaleOpen`, as above)

* `IInv` has a part for each thing that must agree. `MemPart`: the structure
  with `ph` and `disconnected`; `TablePart`: a minor's entry with the structure
  that has it; `LookupPart`: the one lookup under way; `TtyPart`, `FilePart`: a
  tty with its device and its files; `RefsPart`: the count; `UsbPart`: what probe
  set up and disconnect takes down, or a failed probe left (`Orphaned`). They give `TypeCorrect`, `ReferencesExact`,
  `PointersAreLive` and `TtyIsOfItsMinor`.
* `NoTrafficWhenFreed` and `NobodyWritesAfterHangup` are about a port, and need
  more: `CountPart` (`port.count` is the number of files not hung up, and
  `port.tty` theirs), `HangupPart` (a hang-up meets no open), `HoldPart` (the tty
  disconnect hangs up is the only one in use; it rests on `disconnected` being
  set under the mutex that `get_by_index` takes), `ShutPart` (from that hang-up on
  the port cannot be opened again) and `TrafficPart`. Without `HoldPart` a second
  tty could be opened behind disconnect's back.
* `PortImplementsLifetime`, a step simulation from `IInv`: `RefsPart` turns the
  count of the kref into the number of holders, so that a put that reaches zero
  is that of the last one, and `LookupPart` and `TablePart` say that what a lookup
  has found is live and listed.

`XrLineProofs`

* `Order` holds what every argument uses: `Ranges` and `Flags` (types, messages
  included), `Idle` (a task in no handler has nothing to send), `Scope` (a
  handler's messages go to its own registers), `Alone` (two live handlers at the same
  registers have spoilt them), `ModeSpares` (an ioctl under way that sends a GPIO mode has spoilt
  the flow control) and `OneTermios`.
* `Carried(r, S)`: register r has a value in S or a message that gives it one is
  on its way, and no message gives it another. `CodingInv`, `PinsInv`, `DirsInv`,
  `FlowInv` and `WideInv` say this of the value remembered, but for the places of
  a handler that has yet to decide it. At rest nothing is on its way, and the
  property follows. `FlowInv` says it of both registers of flow control.
* `UartInv` needs more, because handlers that overlap spoil nothing here: every
  message that disables is followed, in its own queue, by one that enables
  (`Restored`), and one that enables is due or the UART is on (`Mending`). A handler that is
  going to die has nothing to restore, and spoils "uart" when it does.
* `ExactQuotient`: the divisor and the mask index together are the
  quotient modulo 2^29, for every positive rate; `WholeQuotient`: the quotient itself,
  for every rate above 2. `CodingIsSet` needs the first, with `rate # 0`.
* `WideIsSet`: `WideFollows` has two implications, because nine-bit characters
  without precise flags are passed on in pairs as they come.

`XrDecodeProofs`

* `WholePairs`: if an URB has an even number of bytes, decoding it and the next is
  decoding the two as one. `SplitPair`: if it has not, its last character is
  lost and its status taken for a character. `KeptByte`: with the byte kept the
  first claim holds for every split. `MCXrRead` assumes the three of
  short URBs, so that the `xr_read` run evaluates them.

Only model-checked: the liveness properties (`ActivationReturns`,
`DelayedGoesOut`, `ShutdownFinishes`, `DisconnectEnds`, `Reclaimed`), since
liveness under fairness is beyond the prover's reach, and the violations. Of
the first and the third the progress they rest on is proved, see above.

## Plan

1. The composition of `XrWrite` with `XrPort`: the device pulled during a suspend,
   and `XrPort`'s `traffic` as an abstraction of the URBs of `XrWrite` and `XrRead`.
2. `ctrlin` and `tiocmget` in `XrRead`; `serial_info` and break in `XrLine`.
