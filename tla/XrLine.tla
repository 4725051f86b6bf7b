------------------------------- MODULE XrLine -------------------------------
(***************************************************************************)
(* The settings of a port of the Exar USB-serial driver: set_termios, the  *)
(* ioctls, the modem lines and the GPIO directions                         *)
(* (src/ExarKernelDriver/xr_usb_serial_common.c), as the register writes   *)
(* that the HAL (xr_usb_serial_hal.c) makes of them.                       *)
(*                                                                         *)
(* A handler queues control messages; each is sent in a step of its own,   *)
(* and the handlers of several tasks interleave between them.  Nothing     *)
(* excludes them from each other but what the tty core does: set_termios   *)
(* runs under termios_rwsem, activate and shutdown under the port's mutex. *)
(* No handler takes a power management reference, except those two: a      *)
(* message to a sleeping device is lost, and no caller looks at the result.*)
(*                                                                         *)
(* Left out: XR_USB_SERIAL_SET_REG, by which a program may give any        *)
(* register any value: what is said of a register is said of executions    *)
(* that do not set it so.  Break, xon and xoff characters, loopback, pins  *)
(* but DTR and RTS, and of the GPIO mode register all but the choice of    *)
(* RTS/CTS; parity and stop bits travel with bDataBits.                    *)
(*                                                                         *)
(* A definition named ...Bug is the one that follows it with a plausible   *)
(* mistake; no specification uses it.                                      *)
(***************************************************************************)
EXTENDS Integers, Sequences, FiniteSets

CONSTANTS
  Tasks,
  Products,    \* the families probed: "V141x" (0x1410, 12, 14) or "CDC", the rest
  Termios,     \* the settings asked for: [rate, size, flow]; rate 0 is B0, size CS5..CS8
  Rates,       \* the rates of XRIOC_SET_ANY_BAUD_RATE, 0 too
  Gpios,       \* offsets of the gpio_chip
  MaxCalls     \* bound: handlers called but activate, and suspends

Families == {"V141x", "CDC"}
Flows == {"none", "sw", "hw"}
Lines == {"dtr", "rts"}

ASSUME ProductAssumption == Products \subseteq Families /\ MaxCalls \in Nat
ASSUME RateAssumption ==
  /\ Rates \subseteq Nat
  /\ Termios \subseteq [rate : Nat, size : 5..8, flow : Flows]

VARIABLES
  product,      \* the device's family
  dev,          \* its registers
  awake,        \* it is not suspended
  open,         \* the port is open
  termios, oldflow,             \* of the tty, and what set_termios replaces
  ctrlout, line, trans9, preciseflags,  \* of struct xr_usb_serial
  op, at, todo,   \* a task's handler, the place in it, the messages queued
  newctrl, newline,  \* locals of tiocmset and set_termios
  dirs,         \* the GPIO directions asked for
  calls,        \* those so far
  spoilt        \* registers that are excused: two handlers that write them
                \* overlapped, or a message was lost; and "chip": the GPIO chip
                \* has set a pin since the driver last sent both

driverVars == <<ctrlout, line, trans9, preciseflags>>
ttyVars == <<open, termios, oldflow>>
localVars == <<newctrl, newline, dirs>>
vars == <<product, dev, awake, ttyVars, driverVars, op, at, todo, localVars, calls, spoilt>>

-----------------------------------------------------------------------------
(* The HAL: each function is the messages it sends, each message the       *)
(* registers it sets.                                                      *)

V141x == product = "V141x"
Set(r, v) == << [x \in {r} |-> v] >>

\* Where the processor does not trap (see TakesRate) it gives 0 for x / 0.
Quotient(x, rate) == IF rate = 0 THEN 0 ELSE x \div rate

\* The divisor of the 48 MHz clock, of which three bytes are sent, and the
\* thirty-seconds of it that the clock masks add (the row of
\* xr21v141x_baud_rates).
Divisor(rate) == Quotient(48000000, rate) % 2^24
MaskIndex(rate) == Quotient(32 * 48000000, rate) % 32

Enable ==
  IF V141x
  THEN Set("urm", "tx") \o Set("uart", TRUE) \o Set("urm", "txrx")
  ELSE Set("uart", TRUE)
Disable == Set("uart", FALSE) \o (IF V141x THEN Set("urm", "tx") ELSE << >>)

\* tiocmset writes the GPIO set and clear registers of any product.
SetPins(c) == Set("dtr", "dtr" \in c) \o Set("rts", "rts" \in c)
SetControl(c) == IF V141x THEN SetPins(c) ELSE << [x \in Lines |-> x \in c] >>

SetLine(l) ==
  IF V141x
  THEN Set("div", Divisor(l.rate)) \o Set("mask", MaskIndex(l.rate)) \o Set("format", l.bits)
  ELSE Set("coding", l)

\* Hardware flow control also takes pins of the GPIO for RTS and CTS.
Selected(f) == IF f = "hw" THEN "rtscts" ELSE "gpio"
SetFlow(f) == Set("flow", f) \o Set("gmode", Selected(f))
SetWide(on) == Disable \o Set("wide", on) \o Enable
SetLoopback == Disable \o Enable

Registers ==
  {"uart", "urm", "dtr", "rts", "div", "mask", "format", "coding", "flow",
   "gmode", "wide", "dir"}

\* What a register is about.
Group(r) ==
  CASE r \in {"uart", "urm"} -> "uart"
    [] r \in Lines -> "pins"
    [] r \in {"div", "mask", "format", "coding"} -> "coding"
    [] r \in {"flow", "gmode"} -> "flow"
    [] OTHER -> r

Enabled == dev["uart"] /\ (V141x => dev["urm"] = "txrx")

\* DTR and RTS are outputs: 0x28.
FirstDirs == {3, 5} \cap Gpios

\* pre_setup and probe's first settings; nothing enables the UART yet.
Init ==
  /\ product \in Products
  /\ line = [rate |-> 9600, bits |-> 8]
  /\ dev = [uart |-> FALSE, urm |-> "off", dtr |-> FALSE, rts |-> FALSE,
            div |-> Divisor(9600), mask |-> MaskIndex(9600), format |-> 8,
            coding |-> line, flow |-> "none", gmode |-> "gpio", wide |-> FALSE, dir |-> FirstDirs]
  /\ awake = TRUE /\ open = FALSE
  /\ termios = [rate |-> 9600, size |-> 8, flow |-> "none"] /\ oldflow = "none"
  /\ ctrlout = {} /\ trans9 = FALSE /\ preciseflags = FALSE
  /\ op = [t \in Tasks |-> "none"] /\ at = [t \in Tasks |-> "end"]
  /\ todo = [t \in Tasks |-> << >>]
  /\ newctrl = [t \in Tasks |-> {}] /\ newline = line
  /\ dirs = FirstDirs
  /\ calls = 0 /\ spoilt = {"uart"}

\* The registers a handler sets to what the driver remembers.
Writes(o) ==
  CASE o = "termios" -> {"pins", "coding", "flow", "wide"}
    [] o \in {"tiocm", "port", "gpio"} -> {"pins"}
    [] o = "baud" -> {"coding"}
    [] o = "precise" -> {"wide"}
    [] o = "dir" -> {"dir"}
    [] o = "high" -> {"dir", "flow"}
    [] OTHER -> {}

Begin(t, o, place) ==
  /\ op[t] = "none"
  /\ calls < MaxCalls
  /\ calls' = calls + 1
  /\ op' = [op EXCEPT ![t] = o]
  /\ at' = [at EXCEPT ![t] = place]

\* What a handler of kind o contends for with those under way.
Contended(o) == Writes(o) \cap UNION {Writes(op[s]) : s \in {s \in Tasks : at[s] # "dead"}}

\* The handler t of kind o goes on from a place once its messages are sent.
Goes(t, o, from, to) ==
  /\ op[t] = o /\ at[t] = from /\ todo[t] = << >>
  /\ at' = [at EXCEPT ![t] = to]

Queue(t, messages) == todo' = [todo EXCEPT ![t] = messages]

\* usb_control_msg: a sleeping device refuses it.
Send(t) ==
  /\ todo[t] # << >>
  /\ UNCHANGED <<calls, product, awake, ttyVars, driverVars, op, at, localVars>>
  /\ todo' = [todo EXCEPT ![t] = Tail(@)]
  /\ LET m == Head(todo[t]) IN
     IF awake
     THEN /\ dev' = [x \in Registers |-> IF x \in DOMAIN m THEN m[x] ELSE dev[x]]
          /\ spoilt' = IF Enabled' THEN spoilt \ {"uart"} ELSE spoilt
     ELSE /\ dev' = dev
          /\ spoilt' = spoilt \cup {Group(x) : x \in DOMAIN m}

\* Its locals are gone.
Return(t) ==
  /\ op[t] # "none" /\ at[t] \in {"end", "closing"} /\ todo[t] = << >>
  /\ op' = [op EXCEPT ![t] = "none"]
  /\ at' = [at EXCEPT ![t] = "end"]
  /\ newctrl' = [newctrl EXCEPT ![t] = {}]
  /\ UNCHANGED <<product, dev, awake, ttyVars, driverVars, todo, newline, dirs,
                 calls, spoilt>>

-----------------------------------------------------------------------------
(* set_termios.                                                            *)

SetTermios(t, new) ==
  /\ open /\ \A s \in Tasks : op[s] # "termios"
  /\ Begin(t, "termios", "lines")
  /\ spoilt' = spoilt \cup Contended("termios")
  /\ termios' = new /\ oldflow' = termios.flow
  /\ newctrl' = [newctrl EXCEPT ![t] = ctrlout]
  /\ Queue(t, Disable)
  /\ UNCHANGED <<product, dev, awake, open, driverVars, newline, dirs>>

\* CS5 stands for nine bits.
DataBitsBug == termios.size
DataBits == IF termios.size = 5 THEN 9 ELSE termios.size

\* B0 keeps the rate.
AskedRate == IF termios.rate = 0 THEN line.rate ELSE termios.rate

FlowChangeBug ==
  IF termios.flow = "hw" /\ oldflow # "hw" THEN SetFlow(termios.flow) ELSE << >>

\* Flow control only when CRTSCTS changed.
FlowChange ==
  IF (termios.flow = "hw") # (oldflow = "hw") THEN SetFlow(termios.flow) ELSE << >>

\* The lines as they were on entry; B0 drops DTR.
TermiosLines(t) ==
  LET new == IF termios.rate = 0 THEN newctrl[t] \ {"dtr"} ELSE newctrl[t] \cup {"dtr"} IN
  /\ Goes(t, "termios", "lines", "wide")
  /\ trans9' = (termios.size = 5)
  /\ newline' = [rate |-> AskedRate, bits |-> DataBits]
  /\ ctrlout' = new
  /\ Queue(t, (IF new # ctrlout THEN SetControl(new) ELSE << >>) \o FlowChange)
  /\ spoilt' = IF new # ctrlout THEN spoilt \ {"chip"} ELSE spoilt
  /\ UNCHANGED <<calls, product, dev, awake, ttyVars, line, preciseflags, op, newctrl, dirs>>

TermiosWideBug(t) ==
  /\ Goes(t, "termios", "wide", "line")
  /\ Queue(t, IF trans9 THEN SetWide(TRUE) ELSE SetWide(FALSE))
  /\ UNCHANGED <<calls, product, dev, awake, ttyVars, driverVars, op, localVars, spoilt>>

\* Wide mode for nine bits; off otherwise, unless it carries flags.
TermiosWide(t) ==
  /\ Goes(t, "termios", "wide", "line")
  /\ Queue(t, IF trans9 THEN SetWide(TRUE)
              ELSE IF preciseflags THEN << >> ELSE SetWide(FALSE))
  /\ UNCHANGED <<calls, product, dev, awake, ttyVars, driverVars, op, localVars, spoilt>>

\* Whether a line coding can be set, or the handler comes to divide by zero:
\* what that does depends on the processor.
TakesRate(l, place) == place = "end" \/ (place = "divide" /\ V141x /\ l.rate = 0)

\* The line coding, only when it is not what the driver remembers.
TermiosLine(t, place) ==
  /\ Goes(t, "termios", "line", place)
  /\ line' = newline
  /\ IF newline = line
     THEN place = "end" /\ Queue(t, Enable)
     ELSE /\ TakesRate(newline, place)
          /\ Queue(t, IF place = "end" THEN SetLine(newline) \o Enable ELSE << >>)
  /\ UNCHANGED <<calls, product, dev, awake, ttyVars, ctrlout, trans9, preciseflags,
                 op, localVars, spoilt>>

\* The kernel kills the task, with the UART disabled and, in set_termios,
\* termios_rwsem held.
Dies(t) ==
  /\ op[t] # "none" /\ at[t] = "divide" /\ todo[t] = << >>
  /\ at' = [at EXCEPT ![t] = "dead"]
  /\ spoilt' = spoilt \cup {"uart"}
  /\ UNCHANGED <<calls, product, dev, awake, ttyVars, driverVars, op, todo, localVars>>

-----------------------------------------------------------------------------
(* The ioctls.                                                             *)

AnyBaudRateBug(t, rate, place) ==
  /\ open
  /\ Begin(t, "baud", place)
  /\ spoilt' = spoilt \cup Contended("baud")
  /\ line' = [line EXCEPT !.rate = rate]
  /\ TakesRate(line, place)
  /\ Queue(t, Disable \o (IF place = "end" THEN SetLine(line) \o Enable ELSE << >>))
  /\ UNCHANGED <<product, dev, awake, ttyVars, ctrlout, trans9, preciseflags, localVars>>

\* Any int is taken for a rate.
AnyBaudRate(t, rate, place) ==
  /\ open
  /\ Begin(t, "baud", place)
  /\ spoilt' = spoilt \cup Contended("baud")
  /\ line' = [line EXCEPT !.rate = rate]
  /\ TakesRate(line', place)
  /\ Queue(t, Disable \o (IF place = "end" THEN SetLine(line') \o Enable ELSE << >>))
  /\ UNCHANGED <<product, dev, awake, ttyVars, ctrlout, trans9, preciseflags, localVars>>

PreciseFlags(t) ==
  /\ open
  /\ Begin(t, "precise", "flags")
  /\ spoilt' = spoilt \cup Contended("precise")
  /\ Queue(t, Disable)
  /\ UNCHANGED <<product, dev, awake, ttyVars, driverVars, localVars>>

PreciseWide(t, on) ==
  /\ Goes(t, "precise", "flags", "end")
  /\ preciseflags' = on
  /\ Queue(t, SetWide(on) \o Enable)
  /\ UNCHANGED <<calls, product, dev, awake, ttyVars, ctrlout, line, trans9, op,
                 localVars, spoilt>>

Loopback(t) ==
  /\ open
  /\ Begin(t, "loopback", "end")
  /\ spoilt' = spoilt \cup Contended("loopback")
  /\ Queue(t, SetLoopback)
  /\ UNCHANGED <<product, dev, awake, ttyVars, driverVars, localVars>>

\* XR_USB_SERIAL_SET_GPIO_MODE_REG and ..._GET_...
GpioMode(t) ==
  /\ open
  /\ Begin(t, "mode", "arguments")
  /\ spoilt' = spoilt \cup Contended("mode")
  /\ Queue(t, Disable)
  /\ UNCHANGED <<product, dev, awake, ttyVars, driverVars, localVars>>

GpioModeAccessBug(t) ==
  /\ Goes(t, "mode", "arguments", "end")
  /\ Queue(t, << >>)
  /\ UNCHANGED <<calls, product, dev, awake, ttyVars, driverVars, op, localVars, spoilt>>

\* The register, if it is this channel's, is read or given any value.
GpioModeAccess(t) ==
  /\ Goes(t, "mode", "arguments", "end")
  /\ \/ Queue(t, Enable) /\ UNCHANGED spoilt
     \/ /\ \E v \in {"gpio", "rtscts"} : Queue(t, Set("gmode", v) \o Enable)
        /\ spoilt' = spoilt \cup {"flow"}
  /\ UNCHANGED <<calls, product, dev, awake, ttyVars, driverVars, op, localVars>>

\* An argument that cannot be read, or no memory: the UART stays disabled.
GpioModeFaults(t) ==
  /\ Goes(t, "mode", "arguments", "end")
  /\ spoilt' = spoilt \cup {"uart"}
  /\ UNCHANGED <<calls, product, dev, awake, ttyVars, driverVars, op, todo, localVars>>

-----------------------------------------------------------------------------
(* The modem lines.                                                        *)

TiocmSet(t, set, clear) ==
  LET new == (ctrlout \ clear) \cup set IN
  /\ open /\ new # ctrlout
  /\ Begin(t, "tiocm", "write")
  /\ spoilt' = spoilt \cup Contended("tiocm")
  /\ newctrl' = [newctrl EXCEPT ![t] = new]
  /\ UNCHANGED <<product, dev, awake, ttyVars, driverVars, todo, newline, dirs>>

TiocmWriteBug(t) ==
  /\ Goes(t, "tiocm", "write", "end")
  /\ ctrlout' = newctrl[t]
  /\ Queue(t, Set("dtr", "dtr" \in newctrl[t]) \o Set("rts", "dtr" \in newctrl[t]))
  /\ spoilt' = spoilt \ {"chip"}
  /\ UNCHANGED <<calls, product, dev, awake, ttyVars, line, trans9, preciseflags, op, localVars>>

TiocmWrite(t) ==
  /\ Goes(t, "tiocm", "write", "end")
  /\ ctrlout' = newctrl[t]
  /\ Queue(t, SetPins(newctrl[t]))
  /\ spoilt' = spoilt \ {"chip"}
  /\ UNCHANGED <<calls, product, dev, awake, ttyVars, line, trans9, preciseflags, op, localVars>>

\* port_activate wakes the device and raises the lines, unless the control
\* URB cannot be submitted.
Activate(t, ok) ==
  /\ ~open /\ \A s \in Tasks : op[s] # "port"
  /\ op[t] = "none" /\ op' = [op EXCEPT ![t] = "port"]
  /\ at' = [at EXCEPT ![t] = IF ok THEN "opening" ELSE "failed"]
  /\ awake' = TRUE
  /\ IF ok
     THEN /\ ctrlout' = Lines
          /\ Queue(t, SetControl(Lines))
          /\ spoilt' = (spoilt \ {"chip"}) \cup Contended("port")
     ELSE UNCHANGED ctrlout /\ Queue(t, << >>) /\ spoilt' = spoilt \cup Contended("port")
  /\ UNCHANGED <<calls, product, dev, ttyVars, line, trans9, preciseflags, localVars>>

\* The reference is put.  When the read URBs cannot be submitted then the
\* lines are dropped again; 0 is returned on every path.
ActivateEnds(t, ok) ==
  /\ \/ Goes(t, "port", "opening", "end")
     \/ ok /\ Goes(t, "port", "failed", "end")
  /\ open' = TRUE
  /\ ctrlout' = IF ok THEN ctrlout ELSE {}
  /\ Queue(t, IF ok THEN << >> ELSE SetControl({}))
  /\ spoilt' = IF ok THEN spoilt ELSE spoilt \ {"chip"}
  /\ UNCHANGED <<calls, product, dev, awake, termios, oldflow, line, trans9,
                 preciseflags, op, localVars>>

\* port_shutdown, of a close, or of a hang-up with handlers under way; it
\* goes on when its reference is refused.
Shutdown(t, got) ==
  /\ open /\ \A s \in Tasks : op[s] # "port"
  /\ Begin(t, "port", IF got THEN "closing" ELSE "end")
  /\ spoilt' = (spoilt \ {"chip"}) \cup Contended("port")
  /\ open' = FALSE /\ awake' = (awake \/ got)
  /\ ctrlout' = {}
  /\ Queue(t, SetControl({}))
  /\ UNCHANGED <<product, dev, termios, oldflow, line, trans9, preciseflags, localVars>>

-----------------------------------------------------------------------------
(* The GPIO chip, also of a closed port.                                   *)

Dir(v, g, out) == IF out THEN v \cup {g} ELSE v \ {g}

\* The direction register is read, and written in a second message; a
\* sleeping device leaves what the buffer held.
GpioDir(t, g, out) ==
  LET o == IF out /\ g > 7 THEN "high" ELSE "dir" IN
  /\ Begin(t, o, IF o = "high" THEN "mode" ELSE "end")
  /\ spoilt' = spoilt \cup Contended(o) \cup (IF awake THEN {} ELSE {"dir"})
  /\ dirs' = IF out THEN dirs \cup {g} ELSE dirs \ {g}
  /\ \E v \in SUBSET Gpios :
       /\ awake => v = dev["dir"]
       /\ Queue(t, Set("dir", Dir(v, g, out)))
  /\ UNCHANGED <<product, dev, awake, ttyVars, driverVars, newctrl, newline>>

\* An output above 7 also has its bit of the mode register cleared.
GpioDirMode(t) ==
  /\ Goes(t, "high", "mode", "end")
  /\ spoilt' = spoilt \cup (IF awake THEN {} ELSE {"flow"})
  /\ \E v \in {"gpio", "rtscts"} :
       /\ awake => v = dev["gmode"]
       /\ Queue(t, Set("gmode", v))
  /\ UNCHANGED <<calls, product, dev, awake, ttyVars, driverVars, op, localVars>>

\* Pins 3 and 5 are DTR and RTS, low when they are raised; ctrlout is not told.
GpioSet(t, g, high) ==
  /\ g \in {3, 5}
  /\ Begin(t, "gpio", "end")
  /\ spoilt' = spoilt \cup Contended("gpio") \cup {"chip"}
  /\ Queue(t, Set(IF g = 3 THEN "dtr" ELSE "rts", ~high))
  /\ UNCHANGED <<product, dev, awake, ttyVars, driverVars, localVars>>

-----------------------------------------------------------------------------
\* Autosuspend and its end; a reference granted to activate or shutdown
\* keeps the device awake.
Held(t) == op[t] = "port" /\ at[t] \in {"opening", "failed", "closing"}

Sleep ==
  /\ awake /\ \A t \in Tasks : ~Held(t)
  /\ calls < MaxCalls /\ calls' = calls + 1
  /\ awake' = FALSE
  /\ UNCHANGED <<product, dev, ttyVars, driverVars, op, at, todo, localVars, spoilt>>

Wake ==
  /\ ~awake
  /\ awake' = TRUE
  /\ UNCHANGED <<calls, product, dev, ttyVars, driverVars, op, at, todo, localVars,
                 spoilt>>

-----------------------------------------------------------------------------
Call(t) ==
  \/ \E new \in Termios : SetTermios(t, new)
  \/ \E rate \in Rates, place \in {"end", "divide"} : AnyBaudRate(t, rate, place)
  \/ \E set, clear \in SUBSET Lines : TiocmSet(t, set, clear)
  \/ \E g \in Gpios, b \in BOOLEAN : GpioDir(t, g, b) \/ GpioSet(t, g, b)
  \/ \E ok \in BOOLEAN : Activate(t, ok) \/ Shutdown(t, ok)
  \/ PreciseFlags(t) \/ Loopback(t) \/ GpioMode(t)

Step(t) ==
  \/ Send(t) \/ Return(t) \/ Dies(t)
  \/ TermiosLines(t) \/ TermiosWide(t)
  \/ \E place \in {"end", "divide"} : TermiosLine(t, place)
  \/ \E on \in BOOLEAN : PreciseWide(t, on) \/ ActivateEnds(t, on)
  \/ GpioModeAccess(t) \/ GpioModeFaults(t)
  \/ TiocmWrite(t) \/ GpioDirMode(t)

Next == Sleep \/ Wake \/ \E t \in Tasks : Call(t) \/ Step(t)

Spec == Init /\ [][Next]_vars

-----------------------------------------------------------------------------
(* Properties.                                                             *)

\* The values every variable keeps, the bits of a character between 6 and 9
\* (xr_usb_serial_common.h:116-175).
TypeOK ==
  /\ product \in Families /\ DOMAIN dev = Registers
  /\ awake \in BOOLEAN /\ open \in BOOLEAN
  /\ termios \in [rate : Nat, size : 5..8, flow : Flows] /\ oldflow \in Flows
  /\ ctrlout \subseteq Lines /\ line \in [rate : Nat, bits : 6..9]
  /\ trans9 \in BOOLEAN /\ preciseflags \in BOOLEAN
  /\ op \in [Tasks -> {"none", "termios", "baud", "precise", "loopback", "mode",
                       "tiocm", "port", "dir", "high", "gpio"}]
  /\ at \in [Tasks -> {"lines", "wide", "line", "divide", "dead", "flags", "arguments",
                       "write", "opening", "failed", "closing", "mode", "end"}]
  /\ \A t \in Tasks : \A i \in 1..Len(todo[t]) : DOMAIN todo[t][i] \subseteq Registers
  /\ newctrl \in [Tasks -> SUBSET Lines] /\ newline \in [rate : Nat, bits : 6..9]
  /\ dirs \subseteq Gpios
  /\ calls \in 0..MaxCalls
  /\ spoilt \subseteq {"uart", "pins", "chip", "coding", "flow", "wide", "dir"}

\* Every handler has returned, or was killed.
Quiet == \A t \in Tasks : op[t] = "none" \/ at[t] = "dead"

\* However the handlers that disable and enable the UART interleave, once
\* they have returned it is enabled, transmitter and receiver, unless a
\* message was lost, an ioctl gave up half way or a handler was killed, and
\* none has enabled it since (xr_usb_serial_hal.c:532).
UartOn == Quiet /\ "uart" \notin spoilt => Enabled

\* The pins DTR and RTS carry ctrlout once it is quiet, unless two callers
\* raced to set them, a message was lost, or the GPIO chip has set one of
\* them since the driver last did (xr_usb_serial_common.c:1155,
\* xr_usb_serial_hal.c:692).
PinsFollow ==
  Quiet /\ spoilt \cap {"pins", "chip"} = {} => ctrlout = {x \in Lines : dev[x]}

\* The device uses the line coding the driver remembers; for the 141x family
\* the divisor and the thirty-seconds of the clock masks are the quotient of
\* the 48 MHz clock in the 24 and 5 bits they have, which is the exact one
\* but for the rates 1 and 2, and but for the rate 0, that is remembered and
\* has no quotient (xr_usb_serial_hal.c:391-409, 439-462).
CodingFollows ==
  Quiet /\ "coding" \notin spoilt =>
    IF V141x
    THEN line.rate # 0 =>
           /\ 32 * dev["div"] + dev["mask"] = ((32 * 48000000) \div line.rate) % 2^29
           /\ dev["format"] = line.bits
    ELSE dev["coding"] = line

\* While process_read_urb takes pairs of bytes (preciseflags) the device
\* sends pairs; and it is in wide mode for those flags or for nine-bit
\* characters only, whose pairs go to the reader as they are, never left
\* over from either (xr_usb_serial_common.c:413, 1067-1077, 1164-1172).
WideFollows ==
  Quiet /\ "wide" \notin spoilt =>
    /\ preciseflags => dev["wide"]
    /\ dev["wide"] => preciseflags \/ trans9

\* "USB: wide mode, serial 9N1" (xr_usb_serial_common.h:157).
NineIsWide == Quiet /\ "wide" \notin spoilt /\ trans9 => dev["wide"]

\* The device does hardware flow control, and has pins for it, exactly when
\* the termios of the tty ask for it, though set_termios compares only with
\* the last ones and a GPIO callback rewrites the register of the pins;
\* unless the two overlapped, a message was lost or a program has set that
\* register itself (xr_usb_serial_common.c:1001, 1158, 1294-1298,
\* xr_usb_serial_hal.c:501-502).
FlowFollows ==
  Quiet /\ "flow" \notin spoilt =>
    /\ dev["flow"] = "hw" <=> termios.flow = "hw"
    /\ dev["gmode"] = Selected(termios.flow)

\* A direction that was asked for is lost only by two callbacks at a time or
\* on a sleeping device (xr_usb_serial_common.c:1267-1302).
DirsFollow == Quiet /\ "dir" \notin spoilt => dev["dir"] = dirs
=============================================================================
