---------------------------- MODULE XrLineProofs ----------------------------
(***************************************************************************)
(* Theorems about XrLine for every set of tasks, of settings, of rates and *)
(* of GPIOs, and any number of calls.                                      *)
(*                                                                         *)
(* What a property says of a quiet driver is proved of every state by      *)
(* saying what the messages still queued will do: a register that a        *)
(* handler disturbs is set right again by a message behind the one that    *)
(* disturbs it, or by a place the handler has yet to come to (Restored);   *)
(* a register that follows a variable has its value, or a message with     *)
(* that value on its way and no other (Carried).                           *)
(***************************************************************************)
EXTENDS XrLine, SequenceTheorems, TLAPS

-----------------------------------------------------------------------------
\* Types.  A message sets some registers to values a register may have.
LineSet == [rate : Nat, bits : 6..9]

Values ==
  BOOLEAN \cup {"off", "tx", "txrx"} \cup Flows \cup {"gpio", "rtscts"} \cup Nat
    \cup LineSet \cup SUBSET Gpios

Kinds == {"none", "termios", "baud", "precise", "loopback", "mode", "tiocm", "port",
          "dir", "high", "gpio"}
Places == {"lines", "wide", "line", "divide", "dead", "flags", "arguments", "write",
           "opening", "failed", "closing", "mode", "end"}

Messages == UNION {[D -> Values] : D \in SUBSET Registers}

LEMMA Domains == \A m \in Messages : \E D \in SUBSET Registers : m \in [D -> Values]
  BY DEF Messages

LEMMA Concat == \A a, b \in Seq(Messages) : a \o b \in Seq(Messages)
  OBVIOUS

LEMMA Booleans == BOOLEAN \subseteq Values
  BY DEF Values

LEMMA SetTyped ==
  ASSUME NEW r \in Registers, NEW v \in Values
  PROVE  Set(r, v) \in Seq(Messages)
<1>1. [x \in {r} |-> v] \in [{r} -> Values]
  OBVIOUS
<1>2. {r} \in SUBSET Registers
  OBVIOUS
<1>3. [x \in {r} |-> v] \in Messages
  BY <1>1, <1>2 DEF Messages
<1> QED
  BY <1>3 DEF Set

\* The divisor and the index of the clock masks are numbers, the index that
\* of a row of the table, for every rate.
LEMMA Divisors ==
  ASSUME NEW rate \in Nat
  PROVE  Divisor(rate) \in Nat /\ MaskIndex(rate) \in 0..31
<1>1. Quotient(48000000, rate) \in Nat /\ Quotient(32 * 48000000, rate) \in Nat
  <2>1. CASE rate = 0
    BY <2>1, SMT DEF Quotient
  <2>2. CASE rate # 0
    BY <2>2, SMT DEF Quotient
  <2> QED
    BY <2>1, <2>2
<1>2. 2^24 = 16777216
  BY SMT
<1>3. Divisor(rate) \in Nat
  BY <1>1, <1>2, SMT DEF Divisor
<1>4. MaskIndex(rate) \in 0..31
  BY <1>1, SMT DEF MaskIndex
<1> QED
  BY <1>3, <1>4

LEMMA Remainder ==
  ASSUME NEW k \in Nat \ {0}, NEW a \in Nat, NEW b \in Nat, NEW r \in Nat, r < k, a = k * b + r
  PROVE  a % k = r
  BY SMT

\* Together they are the whole quotient, but for what exceeds 24 bits: no
\* rate rounds the two apart (xr_usb_serial_hal.c:391-409).
THEOREM ExactQuotient ==
  ASSUME NEW rate \in Nat \ {0}
  PROVE  32 * Divisor(rate) + MaskIndex(rate) = ((32 * 48000000) \div rate) % 2^29
<1> DEFINE d == 48000000 \div rate
           q == (32 * 48000000) \div rate
           h == d \div 2^24
           l == d % 2^24
           m == q % 32
<1>1. 2^24 = 16777216 /\ 2^29 = 536870912
  BY SMT
<1>2. d \in Nat /\ d * rate <= 48000000 /\ 48000000 < (d + 1) * rate
  BY SMT
<1>3. q \in Nat /\ q * rate <= 32 * 48000000 /\ 32 * 48000000 < (q + 1) * rate
  BY SMT
<1>4. q \div 32 = d
  BY <1>2, <1>3, SMT
<1>5. q = 32 * d + m /\ m \in 0..31
  BY <1>3, <1>4, SMT
<1>6. d = 16777216 * h + l /\ l \in Nat /\ l < 16777216 /\ h \in Nat
  BY <1>1, <1>2, SMT
<1>7. Divisor(rate) = l /\ MaskIndex(rate) = m
  BY SMT DEF Divisor, MaskIndex, Quotient
<1> HIDE DEF d, h, l, m
<1>8. q = 536870912 * h + (32 * l + m)
  BY <1>5, <1>6, SMT
<1>9. 32 * l + m \in Nat /\ 32 * l + m < 536870912
  BY <1>5, <1>6, SMT
<1> HIDE DEF q
<1>10. q % 536870912 = 32 * l + m
  BY <1>3, <1>6, <1>8, <1>9, Remainder, SMT
<1> QED
  BY <1>1, <1>7, <1>10, SMT DEF q

\* Only the rates 1 and 2 exceed them.
THEOREM WholeQuotient ==
  ASSUME NEW rate \in Nat, rate > 2
  PROVE  32 * Divisor(rate) + MaskIndex(rate) = (32 * 48000000) \div rate
<1> DEFINE q == (32 * 48000000) \div rate
<1>1. q \in Nat /\ q * rate <= 1536000000
  BY SMT
<1>2. 32 * Divisor(rate) + MaskIndex(rate) = q % 2^29
  <2>1. rate \in Nat \ {0}
    BY SMT
  <2> QED
    BY <2>1, ExactQuotient, SMT
<1> HIDE DEF q
<1>3. q * 3 <= q * rate
  BY <1>1, SMT
<1>4. q < 536870912 /\ 2^29 = 536870912
  BY <1>1, <1>3, SMT
<1> QED
  BY <1>1, <1>2, <1>4, SMT DEF q

LEMMA EnableTyped == Enable \in Seq(Messages) /\ Disable \in Seq(Messages)
<1>1. /\ Set("urm", "tx") \in Seq(Messages) /\ Set("urm", "txrx") \in Seq(Messages)
      /\ Set("uart", TRUE) \in Seq(Messages) /\ Set("uart", FALSE) \in Seq(Messages)
  BY SetTyped DEF Registers, Values
<1> QED
  <2>1. Disable \in Seq(Messages)
    <3>1. (IF V141x THEN Set("urm", "tx") ELSE << >>) \in Seq(Messages)
      BY <1>1
    <3> QED
      BY <1>1, <3>1, Concat DEF Disable
  <2>2. Enable \in Seq(Messages)
    <3>1. Set("urm", "tx") \o Set("uart", TRUE) \in Seq(Messages)
      BY <1>1, Concat
    <3>2. Set("urm", "tx") \o Set("uart", TRUE) \o Set("urm", "txrx") \in Seq(Messages)
      BY <1>1, <3>1, Concat
    <3> QED
      BY <1>1, <3>2 DEF Enable
  <2> QED
    BY <2>1, <2>2

LEMMA PinsTyped ==
  ASSUME NEW c \in SUBSET Lines
  PROVE  SetPins(c) \in Seq(Messages) /\ SetControl(c) \in Seq(Messages)
<1>1. Set("dtr", "dtr" \in c) \in Seq(Messages) /\ Set("rts", "rts" \in c) \in Seq(Messages)
  <2>0. ("dtr" \in c) \in BOOLEAN /\ ("rts" \in c) \in BOOLEAN
    BY SMT
  <2>1. ("dtr" \in c) \in Values /\ ("rts" \in c) \in Values
    BY <2>0, Booleans, Zenon
  <2> QED
    BY <2>1, SetTyped DEF Registers
<1>2. [x \in Lines |-> x \in c] \in Messages
  <2>0. \A x \in Lines : (x \in c) \in BOOLEAN
    BY SMT
  <2>1. \A x \in Lines : (x \in c) \in Values
    BY <2>0, Booleans, Zenon
  <2>2. [x \in Lines |-> x \in c] \in [Lines -> Values]
    BY <2>1, Zenon
  <2>3. Lines \in SUBSET Registers
    BY DEF Lines, Registers
  <2> QED
    BY <2>2, <2>3 DEF Messages
<1>3. SetPins(c) \in Seq(Messages)
  BY <1>1, Concat DEF SetPins
<1> QED
  BY <1>2, <1>3 DEF SetControl

LEMMA LineTyped ==
  ASSUME NEW l \in LineSet
  PROVE  SetLine(l) \in Seq(Messages)
<1>1. Set("div", Divisor(l.rate)) \in Seq(Messages) /\ Set("mask", MaskIndex(l.rate)) \in Seq(Messages)
  <2>1. Divisor(l.rate) \in Nat /\ MaskIndex(l.rate) \in Nat
    BY Divisors DEF LineSet
  <2> QED
    BY <2>1, SetTyped DEF Registers, Values
<1>2. Set("format", l.bits) \in Seq(Messages) /\ Set("coding", l) \in Seq(Messages)
  <2>1. l.bits \in Nat
    BY DEF LineSet
  <2> QED
    BY <2>1, SetTyped DEF Registers, Values
<1>3. Set("div", Divisor(l.rate)) \o Set("mask", MaskIndex(l.rate)) \in Seq(Messages)
  BY <1>1, Concat
<1>4. Set("div", Divisor(l.rate)) \o Set("mask", MaskIndex(l.rate)) \o Set("format", l.bits)
        \in Seq(Messages)
  BY <1>2, <1>3, Concat
<1> QED
  BY <1>2, <1>4 DEF SetLine

LEMMA OthersTyped ==
  /\ \A f \in Flows : SetFlow(f) \in Seq(Messages)
  /\ \A on \in BOOLEAN : SetWide(on) \in Seq(Messages)
  /\ \A v \in SUBSET Gpios : Set("dir", v) \in Seq(Messages)
  /\ \A v \in {"gpio", "rtscts"} : Set("gmode", v) \in Seq(Messages)
<1>1. \A f \in Flows : SetFlow(f) \in Seq(Messages)
  <2> TAKE f \in Flows
  <2>1. Set("flow", f) \in Seq(Messages) /\ Set("gmode", Selected(f)) \in Seq(Messages)
    BY SetTyped DEF Selected, Registers, Values
  <2> QED
    BY <2>1, Concat DEF SetFlow
<1>2. \A on \in BOOLEAN : SetWide(on) \in Seq(Messages)
  <2> TAKE on \in BOOLEAN
  <2>1. Set("wide", on) \in Seq(Messages)
    BY SetTyped DEF Registers, Values
  <2> QED
    BY <2>1, EnableTyped, Concat DEF SetWide
<1>3. \A v \in SUBSET Gpios : Set("dir", v) \in Seq(Messages)
  BY SetTyped DEF Registers, Values
<1>4. \A v \in {"gpio", "rtscts"} : Set("gmode", v) \in Seq(Messages)
  BY SetTyped DEF Registers, Values
<1> QED
  BY <1>1, <1>2, <1>3, <1>4

Marks == {"uart", "pins", "chip", "coding", "flow", "wide", "dir"}

\* TypeOK but for the flags, with the messages typed in full.
Ranges ==
  /\ product \in Families /\ dev \in [Registers -> Values]
  /\ termios \in [rate : Nat, size : 5..8, flow : Flows] /\ oldflow \in Flows
  /\ ctrlout \subseteq Lines /\ line \in LineSet
  /\ op \in [Tasks -> Kinds] /\ at \in [Tasks -> Places]
  /\ todo \in [Tasks -> Seq(Messages)]
  /\ newctrl \in [Tasks -> SUBSET Lines] /\ newline \in LineSet
  /\ dirs \subseteq Gpios
  /\ calls \in 0..MaxCalls
  /\ spoilt \subseteq Marks

Flags ==
  /\ awake \in BOOLEAN /\ open \in BOOLEAN
  /\ trans9 \in BOOLEAN /\ preciseflags \in BOOLEAN

LEMMA MarksOnly ==
  /\ \A o : Contended(o) \subseteq Marks
  /\ \A r \in Registers : Group(r) \in Marks
  /\ {"uart"} \subseteq Marks /\ {"chip"} \subseteq Marks /\ {"flow"} \subseteq Marks
  /\ {"dir"} \subseteq Marks
<1>1. \A o : Writes(o) \subseteq Marks
  BY SMT DEF Writes, Marks
<1>2. \A r \in Registers : Group(r) \in Marks
  BY SMT DEF Group, Registers, Lines, Marks
<1> QED
  BY <1>1, <1>2, Zenon DEF Contended, Marks

LEMMA NextFlags ==
  ASSUME Flags, [Next]_vars
  PROVE  Flags'
<1> USE DEF Flags, ttyVars, driverVars
<1>1. CASE Sleep \/ Wake \/ UNCHANGED vars
  BY <1>1, Zenon DEF Sleep, Wake, vars
<1>2. ASSUME NEW t \in Tasks, Call(t) PROVE Flags'
  BY <1>2, Zenon DEF Call, SetTermios, AnyBaudRate, TiocmSet, GpioDir, GpioSet, PreciseFlags, Loopback,
                     GpioMode, Activate, Shutdown
<1>3. ASSUME NEW t \in Tasks, Step(t) PROVE Flags'
  BY <1>3, Zenon DEF Step, Send, Return, TermiosLines, TermiosWide, TermiosLine, PreciseWide,
                     ActivateEnds, GpioModeAccess, GpioModeFaults, TiocmWrite, GpioDirMode, Dies
<1> QED
  BY <1>1, <1>2, <1>3 DEF Next

LEMMA InitTypes == Init => Ranges /\ Flags
<1> SUFFICES ASSUME Init PROVE Ranges /\ Flags
  OBVIOUS
<1>1. Flags
  <2>1. awake = TRUE /\ open = FALSE /\ trans9 = FALSE /\ preciseflags = FALSE
    BY SMT DEF Init
  <2> QED
    BY <2>1, Zenon DEF Flags
<1>2. dev \in [Registers -> Values]
  <2>0. line \in LineSet /\ 9600 \in Nat
    BY SMT DEF Init, LineSet
  <2>1. Divisor(9600) \in Nat /\ MaskIndex(9600) \in Nat
    BY <2>0, Divisors, SMT
  <2>2. FirstDirs \in SUBSET Gpios
    BY DEF FirstDirs
  <2>3. dev = [uart |-> FALSE, urm |-> "off", dtr |-> FALSE, rts |-> FALSE,
            div |-> Divisor(9600), mask |-> MaskIndex(9600), format |-> 8,
            coding |-> line, flow |-> "none", gmode |-> "gpio", wide |-> FALSE, dir |-> FirstDirs]
    BY SMT DEF Init
  <2>4. /\ dev["uart"] \in BOOLEAN /\ dev["dtr"] \in BOOLEAN /\ dev["rts"] \in BOOLEAN
        /\ dev["wide"] \in BOOLEAN
    BY <2>3, SMT
  <2>5. /\ dev["urm"] \in {"off"} /\ dev["gmode"] \in {"gpio"} /\ dev["flow"] \in Flows /\ dev["div"] \in Nat
        /\ dev["mask"] \in Nat /\ dev["format"] \in Nat /\ dev["dir"] \in SUBSET Gpios
        /\ dev["coding"] \in LineSet
    BY <2>0, <2>1, <2>2, <2>3, SMT DEF Flows
  <2>6. \A x \in Registers : dev[x] \in Values
    BY <2>4, <2>5, SMT DEF Registers, Values
  <2>7. dev = [x \in Registers |-> dev[x]]
    BY <2>3, SMT DEF Registers
  <2> QED
    BY <2>6, <2>7, SMT
<1>3. /\ line \in LineSet /\ newline = line
      /\ termios \in [rate : Nat, size : 5..8, flow : Flows] /\ oldflow \in Flows
  BY SMT DEF Init, Flows, LineSet
<1>4. /\ op = [t \in Tasks |-> "none"] /\ at = [t \in Tasks |-> "end"]
      /\ todo = [t \in Tasks |-> << >>] /\ newctrl = [t \in Tasks |-> {}]
      /\ dirs \subseteq Gpios /\ ctrlout = {}
      /\ product \in Families /\ calls = 0 /\ spoilt = {"uart"} /\ MaxCalls \in Nat
  BY ProductAssumption, SMT DEF Init, FirstDirs
<1> QED
  BY <1>1, <1>2, <1>3, <1>4, MarksOnly, SMT DEF Ranges, Kinds, Places

LEMMA NextRanges ==
  ASSUME Ranges, Flags, [Next]_vars
  PROVE  Ranges'
<1> USE RateAssumption, ProductAssumption, MarksOnly DEF Ranges, Families, Lines, Kinds, Places, ttyVars, driverVars, localVars, Queue, Goes, Begin
<1>1. ASSUME NEW t \in Tasks, NEW new \in Termios, SetTermios(t, new) PROVE Ranges'
  <2>1. new \in [rate : Nat, size : 5..8, flow : Flows]
    OBVIOUS
  <2> QED
    BY <1>1, <2>1, EnableTyped DEF SetTermios
<1>2. ASSUME NEW t \in Tasks, TermiosLines(t) PROVE Ranges'
  <2>1. AskedRate \in Nat /\ DataBits \in 6..9
    BY DEF AskedRate, DataBits, LineSet
  <2>2. ctrlout' \subseteq Lines
    BY <1>2 DEF TermiosLines
  <2>3. (IF ctrlout' # ctrlout THEN SetControl(ctrlout') ELSE << >>) \o FlowChange \in Seq(Messages)
    <3>1. << >> \in Seq(Messages)
      OBVIOUS
    <3>2. FlowChange \in Seq(Messages)
      BY <3>1, OthersTyped, Zenon DEF FlowChange
    <3>3. (IF ctrlout' # ctrlout THEN SetControl(ctrlout') ELSE << >>) \in Seq(Messages)
      BY <2>2, <3>1, PinsTyped, Zenon
    <3> QED
      BY <3>2, <3>3, Concat, Zenon
  <2>4. todo' \in [Tasks -> Seq(Messages)]
    BY <1>2, <2>3 DEF TermiosLines
  <2>5. newline' \in LineSet
    BY <1>2, <2>1 DEF TermiosLines, LineSet
  <2>6. spoilt' \subseteq Marks
    BY <1>2, Zenon DEF TermiosLines
  <2> QED
    BY <1>2, <2>2, <2>4, <2>5, <2>6 DEF TermiosLines
<1>3. ASSUME NEW t \in Tasks, TermiosWide(t) PROVE Ranges'
  <2>1. (IF trans9 THEN SetWide(TRUE) ELSE IF preciseflags THEN << >> ELSE SetWide(FALSE))
          \in Seq(Messages)
    <3>1. SetWide(TRUE) \in Seq(Messages) /\ SetWide(FALSE) \in Seq(Messages)
      BY OthersTyped, Zenon
    <3>2. << >> \in Seq(Messages)
      OBVIOUS
    <3> QED
      BY <3>1, <3>2, Zenon
  <2> QED
    BY <1>3, <2>1 DEF TermiosWide
<1>4. ASSUME NEW t \in Tasks, NEW place \in {"end", "divide"}, TermiosLine(t, place) PROVE Ranges'
  <2>1. /\ Enable \in Seq(Messages) /\ SetLine(newline) \o Enable \in Seq(Messages)
        /\ << >> \in Seq(Messages)
    BY LineTyped, EnableTyped, Concat
  <2>2. PICK q \in Seq(Messages) : Queue(t, q)
    BY <1>4, <2>1, Zenon DEF TermiosLine
  <2> QED
    BY <1>4, <2>2 DEF TermiosLine
<1>5. ASSUME NEW t \in Tasks, NEW rate \in Rates, NEW place \in {"end", "divide"},
             AnyBaudRate(t, rate, place)
      PROVE  Ranges'
  <2>1. rate \in Nat
    OBVIOUS
  <2>2. line' \in LineSet
    BY <1>5, <2>1 DEF AnyBaudRate, LineSet
  <2>3. Disable \o (IF place = "end" THEN SetLine(line') \o Enable ELSE << >>) \in Seq(Messages)
    <3>1. PICK l \in LineSet : l = line'
      BY <2>2
    <3>2. SetLine(line') = SetLine(l)
      BY <3>1, Zenon
    <3>3. SetLine(l) \o Enable \in Seq(Messages) /\ << >> \in Seq(Messages)
      BY LineTyped, EnableTyped, Concat
    <3>4. (IF place = "end" THEN SetLine(l) \o Enable ELSE << >>) \in Seq(Messages)
      BY <3>3, Zenon
    <3> QED
      BY <3>2, <3>4, EnableTyped, Concat, Zenon
  <2> QED
    BY <1>5, <2>2, <2>3 DEF AnyBaudRate
<1>6. ASSUME NEW t \in Tasks, PreciseFlags(t) \/ Loopback(t) \/ GpioMode(t) PROVE Ranges'
  <2>1. Disable \in Seq(Messages) /\ SetLoopback \in Seq(Messages)
    BY EnableTyped DEF SetLoopback
  <2>2. CASE PreciseFlags(t)
    BY <2>1, <2>2 DEF PreciseFlags
  <2>3. CASE Loopback(t)
    BY <2>1, <2>3 DEF Loopback
  <2>4. CASE GpioMode(t)
    BY <2>1, <2>4 DEF GpioMode
  <2> QED
    BY <1>6, <2>2, <2>3, <2>4
<1>7. ASSUME NEW t \in Tasks, NEW on \in BOOLEAN, PreciseWide(t, on) PROVE Ranges'
  <2>1. SetWide(on) \o Enable \in Seq(Messages)
    BY OthersTyped, EnableTyped
  <2> QED
    BY <1>7, <2>1 DEF PreciseWide
<1>8. ASSUME NEW t \in Tasks, GpioModeAccess(t) \/ GpioModeFaults(t) PROVE Ranges'
  <2>1. CASE GpioModeAccess(t)
    <3>1. Enable \in Seq(Messages) /\ \A v \in {"gpio", "rtscts"} : Set("gmode", v) \o Enable \in Seq(Messages)
      BY EnableTyped, OthersTyped, Concat
    <3>2. PICK q \in Seq(Messages) : Queue(t, q)
      BY <2>1, <3>1, Zenon DEF GpioModeAccess
    <3>3. spoilt' \subseteq Marks
      BY <2>1, Zenon DEF GpioModeAccess
    <3> QED
      BY <2>1, <3>2, <3>3 DEF GpioModeAccess
  <2>2. CASE GpioModeFaults(t)
    BY <2>2 DEF GpioModeFaults
  <2> QED
    BY <1>8, <2>1, <2>2
<1>9. ASSUME NEW t \in Tasks, NEW set \in SUBSET Lines, NEW clear \in SUBSET Lines,
             TiocmSet(t, set, clear)
      PROVE  Ranges'
  BY <1>9 DEF TiocmSet
<1>10. ASSUME NEW t \in Tasks, TiocmWrite(t) PROVE Ranges'
  BY <1>10, PinsTyped DEF TiocmWrite
<1>11. ASSUME NEW t \in Tasks, NEW ok \in BOOLEAN, Activate(t, ok) \/ Shutdown(t, ok) PROVE Ranges'
  <2>1. SetControl({}) \in Seq(Messages) /\ SetControl({"dtr", "rts"}) \in Seq(Messages)
    BY PinsTyped
  <2>2. CASE Activate(t, ok)
    <3>1. spoilt' \subseteq Marks
      BY <2>2, Zenon DEF Activate
    <3>2. << >> \in Seq(Messages)
      OBVIOUS
    <3>3. PICK q \in Seq(Messages) : Queue(t, q)
      BY <2>1, <2>2, <3>2, Zenon DEF Activate
    <3> QED
      BY <2>2, <3>1, <3>3 DEF Activate
  <2>3. CASE Shutdown(t, ok)
    BY <2>1, <2>3 DEF Shutdown
  <2> QED
    BY <1>11, <2>2, <2>3
<1>12. ASSUME NEW t \in Tasks, NEW ok \in BOOLEAN, ActivateEnds(t, ok) PROVE Ranges'
  <2>1. SetControl({}) \in Seq(Messages)
    BY PinsTyped
  <2> QED
    BY <1>12, <2>1 DEF ActivateEnds
<1>13. ASSUME NEW t \in Tasks, NEW g \in Gpios, NEW out \in BOOLEAN, GpioDir(t, g, out) PROVE Ranges'
  <2>1. PICK v \in SUBSET Gpios : Queue(t, Set("dir", Dir(v, g, out)))
    BY <1>13, Zenon DEF GpioDir
  <2>2. Dir(v, g, out) \in SUBSET Gpios
    BY DEF Dir
  <2>3. Set("dir", Dir(v, g, out)) \in Seq(Messages)
    BY <2>2, OthersTyped, Zenon
  <2>4. spoilt' \subseteq Marks
    BY <1>13, Zenon DEF GpioDir
  <2> QED
    BY <1>13, <2>1, <2>3, <2>4 DEF GpioDir
<1>14. ASSUME NEW t \in Tasks, GpioDirMode(t) PROVE Ranges'
  <2>1. PICK v \in {"gpio", "rtscts"} : Queue(t, Set("gmode", v))
    BY <1>14, Zenon DEF GpioDirMode
  <2>2. Set("gmode", v) \in Seq(Messages)
    BY OthersTyped, Zenon
  <2>3. spoilt' \subseteq Marks
    BY <1>14, Zenon DEF GpioDirMode
  <2> QED
    BY <1>14, <2>1, <2>2, <2>3 DEF GpioDirMode
<1>20. ASSUME NEW t \in Tasks, NEW g \in Gpios, NEW high \in BOOLEAN, GpioSet(t, g, high) PROVE Ranges'
  <2>1. Set(IF g = 3 THEN "dtr" ELSE "rts", ~high) \in Seq(Messages)
    <3>1. PICK r : r = (IF g = 3 THEN "dtr" ELSE "rts")
      BY Zenon
    <3>2. r \in Registers
      BY <3>1, SMT DEF Registers
    <3>3. (~high) \in Values
      BY Booleans, Zenon
    <3>4. Set(r, ~high) \in Seq(Messages)
      BY <3>2, <3>3, SetTyped, Zenon
    <3> QED
      BY <3>1, <3>4, Zenon
  <2> QED
    BY <1>20, <2>1 DEF GpioSet
<1>21. ASSUME NEW t \in Tasks, Dies(t) PROVE Ranges'
  BY <1>21 DEF Dies
<1>15. ASSUME NEW t \in Tasks, Send(t) PROVE Ranges'
  <2>1. todo[t] \in Seq(Messages) /\ todo[t] # << >>
    BY <1>15 DEF Send
  <2>2. Tail(todo[t]) \in Seq(Messages) /\ Head(todo[t]) \in Messages
    BY <2>1
  <2>3. PICK D \in SUBSET Registers : Head(todo[t]) \in [D -> Values]
    BY <2>2, Domains, Zenon
  <2>4. dev' \in [Registers -> Values]
    BY <1>15, <2>3 DEF Send
  <2>5. spoilt' \subseteq Marks
    <3>1. DOMAIN Head(todo[t]) \subseteq Registers
      BY <2>3
    <3>2. {Group(x) : x \in DOMAIN Head(todo[t])} \subseteq Marks
      BY <3>1, MarksOnly
    <3>3. \/ spoilt' = spoilt \cup {Group(x) : x \in DOMAIN Head(todo[t])}
          \/ spoilt' = spoilt \/ spoilt' = spoilt \ {"uart"}
      BY <1>15, Zenon DEF Send
    <3> QED
      BY <3>2, <3>3, Zenon
  <2>6. todo' \in [Tasks -> Seq(Messages)]
    BY <1>15, <2>2 DEF Send
  <2> QED
    BY <1>15, <2>4, <2>5, <2>6 DEF Send
<1>16. ASSUME NEW t \in Tasks, Return(t) PROVE Ranges'
  BY <1>16 DEF Return
<1>17. CASE Sleep \/ Wake \/ UNCHANGED vars
  <2>1. calls' \in 0..MaxCalls
    BY <1>17 DEF Sleep, Wake, vars
  <2> QED
    BY <1>17, <2>1, Zenon DEF Sleep, Wake, vars
<1>18. ASSUME NEW t \in Tasks, Call(t) PROVE Ranges'
  <2>1. CASE \E new \in Termios : SetTermios(t, new)
    BY <1>1, <2>1, Zenon
  <2>2. CASE \E rate \in Rates, place \in {"end", "divide"} : AnyBaudRate(t, rate, place)
    BY <1>5, <2>2, Zenon
  <2>3. CASE \E set, clear \in SUBSET Lines : TiocmSet(t, set, clear)
    BY <1>9, <2>3, Zenon DEF Lines
  <2>4. CASE \E g \in Gpios, b \in BOOLEAN : GpioDir(t, g, b) \/ GpioSet(t, g, b)
    BY <1>13, <1>20, <2>4, SMT
  <2>5. CASE \E ok \in BOOLEAN : Activate(t, ok) \/ Shutdown(t, ok)
    BY <1>11, <2>5, Zenon
  <2> QED
    BY <1>6, <1>18, <2>1, <2>2, <2>3, <2>4, <2>5, Zenon DEF Call
<1>19. ASSUME NEW t \in Tasks, Step(t) PROVE Ranges'
  <2>1. CASE \E place \in {"end", "divide"} : TermiosLine(t, place)
    BY <1>4, <2>1, Zenon
  <2>2. CASE \E on \in BOOLEAN : PreciseWide(t, on) \/ ActivateEnds(t, on)
    BY <1>7, <1>12, <2>2, Zenon
  <2> QED
    BY <1>2, <1>3, <1>8, <1>10, <1>14, <1>15, <1>16, <1>19, <1>21, <2>1, <2>2, Zenon DEF Step
<1> QED
  BY <1>17, <1>18, <1>19, Zenon DEF Next

LEMMA Types == Spec => [](Ranges /\ Flags)
  BY InitTypes, NextRanges, NextFlags, PTL DEF Spec

\* Every variable keeps its type: what is queued goes to registers there are,
\* and every character has 6 to 9 bits (xr_usb_serial_common.h:116-175,
\* xr_usb_serial_common.c:1130-1145).
THEOREM TypeCorrect == Spec => []TypeOK
<1>1. ASSUME Ranges, Flags PROVE TypeOK
  <2>1. \A t \in Tasks : \A i \in 1..Len(todo[t]) : DOMAIN todo[t][i] \subseteq Registers
    <3> TAKE t \in Tasks
    <3> TAKE i \in 1..Len(todo[t])
    <3>1. todo[t][i] \in Messages
      BY <1>1 DEF Ranges
    <3> QED
      BY <3>1 DEF Messages
  <2>2. DOMAIN dev = Registers
    BY <1>1 DEF Ranges
  <2> QED
    BY <1>1, <2>1, <2>2 DEF Ranges, Flags, TypeOK, Marks, Kinds, Places, LineSet
<1> QED
  BY Types, <1>1, PTL

-----------------------------------------------------------------------------
\* Queues of messages.  One spares a register that none of its messages sets,
\* and agrees with a set of values when it sets the register to those only.
Spares(q, r) == \A k \in 1..Len(q) : r \notin DOMAIN q[k]
Agrees(q, r, S) == \A k \in 1..Len(q) : r \in DOMAIN q[k] => q[k][r] \in S

LEMMA Empty == \A r, S : Spares(<< >>, r) /\ Agrees(<< >>, r, S)
  BY DEF Spares, Agrees

LEMMA SparesAgrees == \A q, r, S : Spares(q, r) => Agrees(q, r, S)
  BY Zenon DEF Spares, Agrees

LEMMA Joined ==
  ASSUME NEW a \in Seq(Messages), NEW b \in Seq(Messages), NEW r, NEW S
  PROVE  /\ Spares(a \o b, r) <=> Spares(a, r) /\ Spares(b, r)
         /\ Agrees(a \o b, r, S) <=> Agrees(a, r, S) /\ Agrees(b, r, S)
<1>1. \A k \in 1..Len(a) : k \in 1..Len(a \o b) /\ (a \o b)[k] = a[k]
  OBVIOUS
<1>2. \A k \in 1..Len(b) : Len(a) + k \in 1..Len(a \o b) /\ (a \o b)[Len(a) + k] = b[k]
  OBVIOUS
<1>3. ASSUME NEW k \in 1..Len(a \o b)
      PROVE  \/ \E i \in 1..Len(a) : (a \o b)[k] = a[i]
             \/ \E i \in 1..Len(b) : (a \o b)[k] = b[i]
  <2>1. CASE k <= Len(a)
    <3>1. k \in 1..Len(a) /\ (a \o b)[k] = a[k]
      BY <2>1
    <3> QED
      BY <3>1, Zenon
  <2>2. CASE k > Len(a)
    <3>1. k - Len(a) \in 1..Len(b) /\ (a \o b)[k] = b[k - Len(a)]
      BY <2>2
    <3> QED
      BY <3>1, Zenon
  <2> QED
    BY <2>1, <2>2
<1> DEFINE c == a \o b
<1> HIDE DEF c
<1>4. /\ \A k \in 1..Len(a) : k \in 1..Len(c) /\ c[k] = a[k]
      /\ \A k \in 1..Len(b) : \E j \in 1..Len(c) : c[j] = b[k]
      /\ \A k \in 1..Len(c) : (\E i \in 1..Len(a) : c[k] = a[i]) \/ (\E i \in 1..Len(b) : c[k] = b[i])
  BY <1>1, <1>2, <1>3, Zenon DEF c
<1>5. Spares(c, r) <=> Spares(a, r) /\ Spares(b, r)
  BY <1>4, Zenon DEF Spares
<1>6. Agrees(c, r, S) <=> Agrees(a, r, S) /\ Agrees(b, r, S)
  BY <1>4, Zenon DEF Agrees
<1> QED
  BY <1>5, <1>6, Zenon DEF c

LEMMA OneSet ==
  ASSUME NEW x, NEW v, NEW r, NEW S
  PROVE  /\ Spares(Set(x, v), r) <=> r # x
         /\ r # x \/ v \in S => Agrees(Set(x, v), r, S)
<1>1. Len(Set(x, v)) = 1 /\ Set(x, v)[1] = [y \in {x} |-> v]
  BY DEF Set
<1>2. DOMAIN [y \in {x} |-> v] = {x} /\ [y \in {x} |-> v][x] = v
  OBVIOUS
<1> QED
  BY <1>1, <1>2 DEF Spares, Agrees

LEMMA UartSpares ==
  ASSUME NEW r \in Registers \ {"uart", "urm"}
  PROVE  Spares(Disable, r) /\ Spares(Enable, r)
<1>1. /\ Set("urm", "tx") \in Seq(Messages) /\ Set("urm", "txrx") \in Seq(Messages)
      /\ Set("uart", TRUE) \in Seq(Messages) /\ Set("uart", FALSE) \in Seq(Messages)
  BY SetTyped DEF Registers, Values
<1>2. /\ Spares(Set("urm", "tx"), r) /\ Spares(Set("urm", "txrx"), r)
      /\ Spares(Set("uart", TRUE), r) /\ Spares(Set("uart", FALSE), r)
  BY OneSet
<1>3. Spares(Disable, r)
  <2>1. CASE V141x
    BY <1>1, <1>2, <2>1, Joined DEF Disable
  <2>2. CASE ~V141x
    <3>1. << >> \in Seq(Messages)
      OBVIOUS
    <3>2. Disable = Set("uart", FALSE) \o << >>
      BY <2>2, Zenon DEF Disable
    <3> QED
      BY <1>1, <1>2, <3>1, <3>2, Joined, Empty, Zenon
  <2> QED
    BY <2>1, <2>2
<1>4. Spares(Enable, r)
  <2>1. Set("urm", "tx") \o Set("uart", TRUE) \in Seq(Messages)
    BY <1>1, Concat
  <2>2. Spares(Set("urm", "tx") \o Set("uart", TRUE), r)
    BY <1>1, <1>2, Joined
  <2>3. Spares(Set("urm", "tx") \o Set("uart", TRUE) \o Set("urm", "txrx"), r)
    BY <1>1, <1>2, <2>1, <2>2, Joined
  <2> QED
    BY <1>2, <2>3 DEF Enable
<1> QED
  BY <1>3, <1>4

\* The level of a pin: up when it is among those asked for.
Level(c, x) == {v \in BOOLEAN : v <=> x \in c}

LEMMA Levels == \A c, x : (x \in c) \in Level(c, x)
<1> TAKE c, x
<1>1. (x \in c) \in BOOLEAN
  BY SMT
<1> QED
  BY <1>1, Zenon DEF Level

\* The pins: every message of a change agrees with it, and one sets each.
LEMMA PinsSpare ==
  ASSUME NEW c \in SUBSET Lines, NEW r \in Registers
  PROVE  /\ r \notin Lines => Spares(SetControl(c), r) /\ Spares(SetPins(c), r)
         /\ r \in Lines => /\ ~Spares(SetControl(c), r) /\ ~Spares(SetPins(c), r)
                           /\ Agrees(SetControl(c), r, Level(c, r))
                           /\ Agrees(SetPins(c), r, Level(c, r))
<1>1. Set("dtr", "dtr" \in c) \in Seq(Messages) /\ Set("rts", "rts" \in c) \in Seq(Messages)
  <2>0. ("dtr" \in c) \in BOOLEAN /\ ("rts" \in c) \in BOOLEAN
    BY SMT
  <2>1. ("dtr" \in c) \in Values /\ ("rts" \in c) \in Values
    BY <2>0, Booleans, Zenon
  <2> QED
    BY <2>1, SetTyped DEF Registers
<1>2. /\ Spares(Set("dtr", "dtr" \in c), r) <=> r # "dtr"
      /\ Spares(Set("rts", "rts" \in c), r) <=> r # "rts"
  BY OneSet, Zenon
<1>3. Spares(SetPins(c), r) <=> r \notin Lines
  BY <1>1, <1>2, Joined, Zenon DEF SetPins, Lines
<1>4. r \in Lines => Agrees(SetPins(c), r, Level(c, r))
  <2>1. CASE r = "dtr"
    <3>1. r # "rts" /\ ("dtr" \in c) \in Level(c, "dtr")
      BY <2>1, Levels
    <3>2. Agrees(Set("dtr", "dtr" \in c), r, Level(c, "dtr")) /\ Agrees(Set("rts", "rts" \in c), r, Level(c, "dtr"))
      BY <3>1, OneSet, Zenon
    <3>3. Agrees(SetPins(c), r, Level(c, "dtr"))
      BY <1>1, <3>2, Joined, Zenon DEF SetPins
    <3> QED
      BY <2>1, <3>3, Zenon
  <2>2. CASE r = "rts"
    <3>1. r # "dtr" /\ ("rts" \in c) \in Level(c, "rts")
      BY <2>2, Levels
    <3>2. Agrees(Set("dtr", "dtr" \in c), r, Level(c, "rts")) /\ Agrees(Set("rts", "rts" \in c), r, Level(c, "rts"))
      BY <3>1, OneSet, Zenon
    <3>3. Agrees(SetPins(c), r, Level(c, "rts"))
      BY <1>1, <3>2, Joined, Zenon DEF SetPins
    <3> QED
      BY <2>2, <3>3, Zenon
  <2> QED
    BY <2>1, <2>2, Zenon DEF Lines
<1>5. /\ Spares(<< [x \in Lines |-> x \in c] >>, r) <=> r \notin Lines
      /\ r \in Lines => Agrees(<< [x \in Lines |-> x \in c] >>, r, Level(c, r))
  <2> DEFINE f == [x \in Lines |-> x \in c]
  <2>1. DOMAIN f = Lines /\ (r \in Lines => f[r] \in Level(c, r))
    BY Levels, Zenon
  <2> HIDE DEF f
  <2>2. Len(<< f >>) = 1 /\ << f >>[1] = f
    OBVIOUS
  <2>3. Spares(<< f >>, r) <=> r \notin Lines
    BY <2>1, <2>2 DEF Spares
  <2>4. r \in Lines => Agrees(<< f >>, r, Level(c, r))
    BY <2>1, <2>2 DEF Agrees
  <2> QED
    BY <2>3, <2>4, Zenon DEF f
<1> QED
  BY <1>3, <1>4, <1>5, Zenon DEF SetControl

LEMMA LineSpares ==
  ASSUME NEW l \in LineSet, NEW r \in Registers
  PROVE  /\ r \notin {"div", "mask", "format", "coding"} => Spares(SetLine(l), r)
         /\ V141x => /\ r \in {"div", "mask", "format"} => ~Spares(SetLine(l), r)
                     /\ Agrees(SetLine(l), "div", {Divisor(l.rate)})
                     /\ Agrees(SetLine(l), "mask", {MaskIndex(l.rate)})
                     /\ Agrees(SetLine(l), "format", {l.bits})
         /\ ~V141x => ~Spares(SetLine(l), "coding") /\ Agrees(SetLine(l), "coding", {l})
<1>1. Set("div", Divisor(l.rate)) \in Seq(Messages) /\ Set("mask", MaskIndex(l.rate)) \in Seq(Messages)
  <2>1. Divisor(l.rate) \in Nat /\ MaskIndex(l.rate) \in Nat
    BY Divisors DEF LineSet
  <2> QED
    BY <2>1, SetTyped DEF Registers, Values
<1>2. Set("format", l.bits) \in Seq(Messages)
  <2>1. l.bits \in Nat
    BY DEF LineSet
  <2> QED
    BY <2>1, SetTyped DEF Registers, Values
<1> DEFINE d == Divisor(l.rate)
           m == MaskIndex(l.rate)
           b == l.bits
<1> HIDE DEF d, m, b
<1>3. Set("div", d) \o Set("mask", m) \in Seq(Messages)
  BY <1>1, Concat, Zenon DEF d, m
<1>4. \A x, S : /\ Spares(Set("div", d) \o Set("mask", m) \o Set("format", b), x)
                     <=> Spares(Set("div", d), x) /\ Spares(Set("mask", m), x) /\ Spares(Set("format", b), x)
                /\ Agrees(Set("div", d) \o Set("mask", m) \o Set("format", b), x, S)
                     <=> Agrees(Set("div", d), x, S) /\ Agrees(Set("mask", m), x, S) /\ Agrees(Set("format", b), x, S)
  <2> TAKE x, S
  <2>1. /\ Spares(Set("div", d) \o Set("mask", m), x) <=> Spares(Set("div", d), x) /\ Spares(Set("mask", m), x)
        /\ Agrees(Set("div", d) \o Set("mask", m), x, S) <=> Agrees(Set("div", d), x, S) /\ Agrees(Set("mask", m), x, S)
    BY <1>1, Joined, Zenon DEF d, m
  <2> DEFINE ab == Set("div", d) \o Set("mask", m)
  <2> HIDE DEF ab
  <2>2. /\ Spares(ab \o Set("format", b), x) <=> Spares(ab, x) /\ Spares(Set("format", b), x)
        /\ Agrees(ab \o Set("format", b), x, S) <=> Agrees(ab, x, S) /\ Agrees(Set("format", b), x, S)
    BY <1>2, <1>3, Joined, Zenon DEF b, ab
  <2> QED
    BY <2>1, <2>2, Zenon DEF ab
<1>5. CASE V141x
  <2>1. SetLine(l) = Set("div", d) \o Set("mask", m) \o Set("format", b)
    BY <1>5, Zenon DEF SetLine, d, m, b
  <2>2. \A x : Spares(SetLine(l), x) <=> x \notin {"div", "mask", "format"}
    BY <1>4, <2>1, OneSet
  <2>3. Agrees(SetLine(l), "div", {d})
    <3>1. d \in {d}
      OBVIOUS
    <3>2. /\ Agrees(Set("div", d), "div", {d}) /\ Agrees(Set("mask", m), "div", {d})
          /\ Agrees(Set("format", b), "div", {d})
      BY <3>1, OneSet, SMT
    <3> QED
      BY <1>4, <2>1, <3>2, Zenon
  <2>4. Agrees(SetLine(l), "mask", {m})
    <3>1. m \in {m}
      OBVIOUS
    <3>2. /\ Agrees(Set("div", d), "mask", {m}) /\ Agrees(Set("mask", m), "mask", {m})
          /\ Agrees(Set("format", b), "mask", {m})
      BY <3>1, OneSet, SMT
    <3> QED
      BY <1>4, <2>1, <3>2, Zenon
  <2>5. Agrees(SetLine(l), "format", {b})
    <3>1. b \in {b}
      OBVIOUS
    <3>2. /\ Agrees(Set("div", d), "format", {b}) /\ Agrees(Set("mask", m), "format", {b})
          /\ Agrees(Set("format", b), "format", {b})
      BY <3>1, OneSet, SMT
    <3> QED
      BY <1>4, <2>1, <3>2, Zenon
  <2>6. r \in {"div", "mask", "format"} => ~Spares(SetLine(l), r)
    BY <2>2, Zenon
  <2>7. r \notin {"div", "mask", "format", "coding"} => Spares(SetLine(l), r)
    BY <2>2, Zenon
  <2> QED
    BY <1>5, <2>3, <2>4, <2>5, <2>6, <2>7, Zenon DEF d, m, b
<1>6. CASE ~V141x
  <2>1. SetLine(l) = Set("coding", l)
    BY <1>6, Zenon DEF SetLine
  <2>2. Spares(Set("coding", l), r) <=> r # "coding"
    BY OneSet, Zenon
  <2>3. ~Spares(Set("coding", l), "coding")
    BY OneSet, Zenon
  <2>4. l \in {l}
    OBVIOUS
  <2>5. Agrees(Set("coding", l), "coding", {l})
    BY <2>4, OneSet, Zenon
  <2> QED
    BY <1>6, <2>1, <2>2, <2>3, <2>5
<1> QED
  BY <1>5, <1>6

LEMMA WideSpares ==
  ASSUME NEW on \in BOOLEAN, NEW r \in Registers
  PROVE  /\ r \notin {"uart", "urm", "wide"} => Spares(SetWide(on), r)
         /\ ~Spares(SetWide(on), "wide") /\ Agrees(SetWide(on), "wide", {on})
<1>1. /\ Disable \in Seq(Messages) /\ Enable \in Seq(Messages)
      /\ Set("wide", on) \in Seq(Messages) /\ Disable \o Set("wide", on) \in Seq(Messages)
  BY EnableTyped, SetTyped, Concat DEF Registers, Values
<1>2. \A x, S : /\ Spares(SetWide(on), x) <=> Spares(Disable, x) /\ Spares(Set("wide", on), x) /\ Spares(Enable, x)
                /\ Agrees(SetWide(on), x, S) <=> Agrees(Disable, x, S) /\ Agrees(Set("wide", on), x, S) /\ Agrees(Enable, x, S)
  BY <1>1, Joined, Zenon DEF SetWide
<1>3. "wide" \in Registers \ {"uart", "urm"}
  BY DEF Registers
<1>4. /\ r \notin {"uart", "urm"} => Spares(Disable, r) /\ Spares(Enable, r)
      /\ Spares(Disable, "wide") /\ Spares(Enable, "wide")
  BY <1>3, UartSpares
<1>5. \A S : Agrees(Disable, "wide", S) /\ Agrees(Enable, "wide", S)
  BY <1>4, SparesAgrees, Zenon
<1>6. r # "wide" => Spares(Set("wide", on), r)
  BY OneSet, Zenon
<1>7. ~Spares(Set("wide", on), "wide") /\ Agrees(Set("wide", on), "wide", {on})
  BY OneSet
<1> QED
  BY <1>2, <1>4, <1>5, <1>6, <1>7

-----------------------------------------------------------------------------
\* Who sends what.  Turn: the handler t, of kind o from here on, queues q.
\* Does: it queues messages for registers of R only.
Turn(t, o, q) ==
  /\ todo[t] = << >> /\ todo' = [todo EXCEPT ![t] = q]
  /\ op' = [op EXCEPT ![t] = o]
  /\ dev' = dev /\ product' = product

Does(t, o, R) ==
  \E q \in Seq(Messages) : Turn(t, o, q) /\ \A r \in Registers \ R : Spares(q, r)

\* A task without a handler, and one that was killed, has nothing to send.
Idle ==
  \A t \in Tasks :
    /\ op[t] = "none" => at[t] = "end" /\ todo[t] = << >>
    /\ at[t] = "dead" => todo[t] = << >>

LEMMA Quietly ==
  ASSUME Ranges, NEW t \in Tasks, NEW o, NEW R,
         todo[t] = << >>, UNCHANGED <<todo, dev, product>>, op' = [op EXCEPT ![t] = o]
  PROVE  Does(t, o, R)
<1>1. todo' = [todo EXCEPT ![t] = << >>]
  BY DEF Ranges
<1>2. Turn(t, o, << >>)
  BY <1>1, Zenon DEF Turn
<1>3. << >> \in Seq(Messages)
  OBVIOUS
<1> QED
  BY <1>2, <1>3, Empty, Zenon DEF Does

LEMMA Unmoved ==
  ASSUME Ranges, NEW t \in Tasks, op' = op
  PROVE  op' = [op EXCEPT ![t] = op[t]]
  BY DEF Ranges

UartRegs == {"uart", "urm"}
CodingRegs == {"div", "mask", "format", "coding"}
FlowRegs == {"flow", "gmode"}

LEMMA Sent ==
  /\ \A r \in Registers \ UartRegs : Spares(Disable, r) /\ Spares(Enable, r)
  /\ \A f \in Flows : \A r \in Registers \ FlowRegs : Spares(SetFlow(f), r)
  /\ \A v : \A r \in Registers \ {"gmode"} : Spares(Set("gmode", v), r)
  /\ \A x \in Lines : \A v : \A r \in Registers \ Lines : Spares(Set(x, v), r)
  /\ \A v \in SUBSET Gpios : \A r \in Registers \ {"dir"} : Spares(Set("dir", v), r)
  /\ \A c \in SUBSET Lines : \A r \in Registers \ Lines : Spares(SetControl(c), r) /\ Spares(SetPins(c), r)
  /\ \A on \in BOOLEAN : \A r \in Registers \ (UartRegs \cup {"wide"}) : Spares(SetWide(on), r)
  /\ \A l \in LineSet :
       \A r \in Registers \ CodingRegs : Spares(SetLine(l), r)
<1>1. \A r \in Registers \ UartRegs : Spares(Disable, r) /\ Spares(Enable, r)
  BY UartSpares DEF UartRegs
<1>2. \A f \in Flows : \A r \in Registers \ FlowRegs : Spares(SetFlow(f), r)
  <2> TAKE f \in Flows
  <2> TAKE r \in Registers \ FlowRegs
  <2>1. Set("flow", f) \in Seq(Messages) /\ Set("gmode", Selected(f)) \in Seq(Messages)
    BY SetTyped DEF Selected, Registers, Values
  <2>2. Spares(Set("flow", f), r) /\ Spares(Set("gmode", Selected(f)), r)
    BY OneSet DEF FlowRegs
  <2> QED
    BY <2>1, <2>2, Joined, Zenon DEF SetFlow
<1>3. \A v \in SUBSET Gpios : \A r \in Registers \ {"dir"} : Spares(Set("dir", v), r)
  BY OneSet
<1>4. \A c \in SUBSET Lines : \A r \in Registers \ Lines : Spares(SetControl(c), r) /\ Spares(SetPins(c), r)
  BY PinsSpare
<1>5. \A on \in BOOLEAN : \A r \in Registers \ (UartRegs \cup {"wide"}) : Spares(SetWide(on), r)
  BY WideSpares DEF UartRegs
<1>6. \A l \in LineSet :
        \A r \in Registers \ CodingRegs : Spares(SetLine(l), r)
  BY LineSpares DEF CodingRegs
<1>7. \A v : \A r \in Registers \ {"gmode"} : Spares(Set("gmode", v), r)
  BY OneSet, Zenon
<1>8. \A x \in Lines : \A v : \A r \in Registers \ Lines : Spares(Set(x, v), r)
  BY OneSet, Zenon
<1> QED
  BY <1>1, <1>2, <1>3, <1>4, <1>5, <1>6, <1>7, <1>8, Zenon

\* A queue that is all of a handler's next messages.
LEMMA Queues ==
  ASSUME NEW t, NEW o, NEW R, NEW q \in Seq(Messages), todo[t] = << >>, Queue(t, q),
         op' = [op EXCEPT ![t] = o], UNCHANGED <<dev, product>>,
         \A r \in Registers \ R : Spares(q, r)
  PROVE  Does(t, o, R)
  BY Zenon DEF Does, Turn, Queue

LEMMA TermiosTurns ==
  ASSUME Ranges, Flags, Idle, NEW t \in Tasks
  PROVE  /\ \A new \in Termios : SetTermios(t, new) => Does(t, "termios", UartRegs)
         /\ TermiosLines(t) => Does(t, "termios", Lines \cup FlowRegs)
         /\ TermiosWide(t) => Does(t, "termios", UartRegs \cup {"wide"})
         /\ \A place \in {"end", "divide"} :
              TermiosLine(t, place) => Does(t, "termios", UartRegs \cup CodingRegs)
<1>1. ASSUME NEW new \in Termios, SetTermios(t, new) PROVE Does(t, "termios", UartRegs)
  <2>1. /\ todo[t] = << >> /\ Queue(t, Disable) /\ op' = [op EXCEPT ![t] = "termios"]
        /\ UNCHANGED <<dev, product>>
    BY <1>1, Zenon DEF SetTermios, Begin, Idle
  <2> QED
    BY <2>1, EnableTyped, Sent, Queues, Zenon
<1>2. ASSUME TermiosLines(t) PROVE Does(t, "termios", Lines \cup FlowRegs)
  <2>1. ctrlout' \in SUBSET Lines
    BY <1>2 DEF TermiosLines, Ranges, Lines
  <2>2. PICK a : a = IF ctrlout' # ctrlout THEN SetControl(ctrlout') ELSE << >>
    BY Zenon
  <2>3. a \in Seq(Messages) /\ \A r \in Registers \ Lines : Spares(a, r)
    <3>1. << >> \in Seq(Messages)
      OBVIOUS
    <3>2. PICK c \in SUBSET Lines : c = ctrlout'
      BY <2>1, Zenon
    <3>3. SetControl(c) \in Seq(Messages) /\ \A r \in Registers \ Lines : Spares(SetControl(c), r)
      BY PinsTyped, Sent, Zenon
    <3>4. a = SetControl(c) \/ a = << >>
      BY <2>2, <3>2, Zenon
    <3> QED
      BY <3>1, <3>3, <3>4, Empty, Zenon
  <2>4. FlowChange \in Seq(Messages) /\ \A r \in Registers \ FlowRegs : Spares(FlowChange, r)
    <3>1. << >> \in Seq(Messages)
      OBVIOUS
    <3>2. termios.flow \in Flows
      BY DEF Ranges
    <3>3. FlowChange = SetFlow(termios.flow) \/ FlowChange = << >>
      BY Zenon DEF FlowChange
    <3> QED
      BY <3>1, <3>2, <3>3, OthersTyped, Sent, Empty, Zenon
  <2>5. PICK b : b = FlowChange
    BY Zenon
  <2>6. /\ Queue(t, a \o b) /\ todo[t] = << >> /\ op[t] = "termios" /\ op' = op
        /\ UNCHANGED <<dev, product>>
    BY <1>2, <2>2, <2>5, Zenon DEF TermiosLines, Goes
  <2>7. a \o b \in Seq(Messages) /\ \A r \in Registers \ (Lines \cup FlowRegs) : Spares(a \o b, r)
    BY <2>3, <2>4, <2>5, Joined, Concat, Zenon
  <2>8. op' = [op EXCEPT ![t] = "termios"]
    BY <2>6, Unmoved, Zenon
  <2> QED
    BY <2>6, <2>7, <2>8, Queues, Zenon
<1>3. ASSUME TermiosWide(t) PROVE Does(t, "termios", UartRegs \cup {"wide"})
  <2>1. PICK q : q = IF trans9 THEN SetWide(TRUE) ELSE IF preciseflags THEN << >> ELSE SetWide(FALSE)
    BY Zenon
  <2>2. q \in Seq(Messages) /\ \A r \in Registers \ (UartRegs \cup {"wide"}) : Spares(q, r)
    <3>1. << >> \in Seq(Messages) /\ TRUE \in BOOLEAN /\ FALSE \in BOOLEAN
      OBVIOUS
    <3>2. q = SetWide(TRUE) \/ q = << >> \/ q = SetWide(FALSE)
      BY <2>1, Zenon
    <3> QED
      BY <3>1, <3>2, OthersTyped, Sent, Empty, Zenon
  <2>3. /\ Queue(t, q) /\ todo[t] = << >> /\ op[t] = "termios" /\ op' = op
        /\ UNCHANGED <<dev, product>>
    BY <1>3, <2>1, Zenon DEF TermiosWide, Goes
  <2>4. op' = [op EXCEPT ![t] = "termios"]
    BY <2>3, Unmoved, Zenon
  <2> QED
    BY <2>2, <2>3, <2>4, Queues, Zenon
<1>4. ASSUME NEW place \in {"end", "divide"}, TermiosLine(t, place)
      PROVE  Does(t, "termios", UartRegs \cup CodingRegs)
  <2>1. PICK a : a = IF newline # line THEN SetLine(newline) ELSE << >>
    BY Zenon
  <2>2. a \in Seq(Messages) /\ \A r \in Registers \ CodingRegs : Spares(a, r)
    <3>1. << >> \in Seq(Messages)
      OBVIOUS
    <3>2. PICK l \in LineSet : l = newline
      BY DEF Ranges
    <3>3. SetLine(l) \in Seq(Messages) /\ \A r \in Registers \ CodingRegs : Spares(SetLine(l), r)
      BY LineTyped, Sent, Zenon
    <3>4. a = SetLine(l) \/ a = << >>
      BY <2>1, <3>2, Zenon
    <3> QED
      BY <3>1, <3>3, <3>4, Empty, Zenon
  <2>3. /\ todo[t] = << >> /\ op[t] = "termios" /\ op' = op /\ UNCHANGED <<dev, product>>
    BY <1>4, Zenon DEF TermiosLine, Goes
  <2>9. Queue(t, a \o Enable) \/ Queue(t, << >>)
    <3>1. << >> \o Enable = Enable
      BY EnableTyped
    <3> QED
      BY <1>4, <2>1, <3>1, Zenon DEF TermiosLine
  <2>4. PICK b : b = Enable
    BY Zenon
  <2>5. b \in Seq(Messages) /\ \A r \in Registers \ UartRegs : Spares(b, r)
    BY <2>4, EnableTyped, Sent, Zenon
  <2>6. /\ a \o b \in Seq(Messages)
        /\ \A r \in Registers \ (UartRegs \cup CodingRegs) : Spares(a \o b, r)
    BY <2>2, <2>5, Joined, Concat, Zenon
  <2>7. op' = [op EXCEPT ![t] = "termios"]
    BY <2>3, Unmoved, Zenon
  <2>8. << >> \in Seq(Messages) /\ \A r : Spares(<< >>, r)
    BY Empty
  <2> QED
    BY <2>3, <2>4, <2>6, <2>7, <2>8, <2>9, Queues, Zenon
<1> QED
  BY <1>1, <1>2, <1>3, <1>4

LEMMA IoctlTurns ==
  ASSUME Ranges, Flags, Idle, NEW t \in Tasks
  PROVE  /\ \A rate \in Rates, place \in {"end", "divide"} :
              AnyBaudRate(t, rate, place) => Does(t, "baud", UartRegs \cup CodingRegs)
         /\ PreciseFlags(t) => Does(t, "precise", UartRegs)
         /\ \A on \in BOOLEAN : PreciseWide(t, on) => Does(t, "precise", UartRegs \cup {"wide"})
         /\ Loopback(t) => Does(t, "loopback", UartRegs)
         /\ GpioMode(t) => Does(t, "mode", UartRegs)
         /\ GpioModeAccess(t) => Does(t, "mode", UartRegs \cup {"gmode"})
         /\ GpioModeFaults(t) => Does(t, "mode", UartRegs)
<1>1. ASSUME NEW rate \in Rates, NEW place \in {"end", "divide"}, AnyBaudRate(t, rate, place)
      PROVE  Does(t, "baud", UartRegs \cup CodingRegs)
  <2>1. line' \in LineSet
    BY <1>1, RateAssumption DEF AnyBaudRate, Ranges, LineSet
  <2>2. PICK l \in LineSet : l = line'
    BY <2>1, Zenon
  <2>3. SetLine(line') = SetLine(l)
    BY <2>2, Zenon
  <2>4. PICK a, b : a = Disable /\ b = Enable
    BY Zenon
  <2>5. /\ a \in Seq(Messages) /\ \A r \in Registers \ UartRegs : Spares(a, r)
        /\ b \in Seq(Messages) /\ \A r \in Registers \ UartRegs : Spares(b, r)
    BY <2>4, EnableTyped, Sent, Zenon
  <2>6. SetLine(l) \in Seq(Messages) /\ \A r \in Registers \ CodingRegs : Spares(SetLine(l), r)
    BY LineTyped, Sent, Zenon
  <2>7. PICK c : c = IF place = "end" THEN SetLine(l) \o b ELSE << >>
    BY Zenon
  <2>8. c \in Seq(Messages) /\ \A r \in Registers \ (UartRegs \cup CodingRegs) : Spares(c, r)
    <3>1. /\ SetLine(l) \o b \in Seq(Messages)
          /\ \A r \in Registers \ (UartRegs \cup CodingRegs) : Spares(SetLine(l) \o b, r)
      BY <2>5, <2>6, Joined, Concat, Zenon
    <3>2. << >> \in Seq(Messages) /\ \A r : Spares(<< >>, r)
      BY Empty
    <3> QED
      BY <2>7, <3>1, <3>2, Zenon
  <2>9. /\ a \o c \in Seq(Messages)
        /\ \A r \in Registers \ (UartRegs \cup CodingRegs) : Spares(a \o c, r)
    BY <2>5, <2>8, Joined, Concat, Zenon
  <2>10. /\ todo[t] = << >>
         /\ Queue(t, Disable \o (IF place = "end" THEN SetLine(line') \o Enable ELSE << >>))
         /\ op' = [op EXCEPT ![t] = "baud"] /\ UNCHANGED <<dev, product>>
    BY <1>1, Zenon DEF AnyBaudRate, Begin, Idle
  <2>11. Queue(t, a \o c)
    BY <2>3, <2>4, <2>7, <2>10, Zenon
  <2> QED
    BY <2>9, <2>10, <2>11, Queues, Zenon
<1>2. ASSUME PreciseFlags(t) PROVE Does(t, "precise", UartRegs)
  <2>1. /\ todo[t] = << >> /\ Queue(t, Disable) /\ op' = [op EXCEPT ![t] = "precise"]
        /\ UNCHANGED <<dev, product>>
    BY <1>2, Zenon DEF PreciseFlags, Begin, Idle
  <2> QED
    BY <2>1, EnableTyped, Sent, Queues, Zenon
<1>3. ASSUME NEW on \in BOOLEAN, PreciseWide(t, on)
      PROVE  Does(t, "precise", UartRegs \cup {"wide"})
  <2>1. PICK a, b : a = SetWide(on) /\ b = Enable
    BY Zenon
  <2>2. /\ a \in Seq(Messages) /\ \A r \in Registers \ (UartRegs \cup {"wide"}) : Spares(a, r)
        /\ b \in Seq(Messages) /\ \A r \in Registers \ UartRegs : Spares(b, r)
    BY <2>1, EnableTyped, OthersTyped, Sent, Zenon
  <2>3. /\ a \o b \in Seq(Messages)
        /\ \A r \in Registers \ (UartRegs \cup {"wide"}) : Spares(a \o b, r)
    BY <2>2, Joined, Concat, Zenon
  <2>4. /\ todo[t] = << >> /\ Queue(t, SetWide(on) \o Enable) /\ op[t] = "precise" /\ op' = op
        /\ UNCHANGED <<dev, product>>
    BY <1>3, Zenon DEF PreciseWide, Goes
  <2>5. op' = [op EXCEPT ![t] = "precise"] /\ Queue(t, a \o b)
    BY <2>1, <2>4, Unmoved, Zenon
  <2> QED
    BY <2>3, <2>4, <2>5, Queues, Zenon
<1>4. ASSUME Loopback(t) PROVE Does(t, "loopback", UartRegs)
  <2>1. /\ todo[t] = << >> /\ Queue(t, SetLoopback) /\ op' = [op EXCEPT ![t] = "loopback"]
        /\ UNCHANGED <<dev, product>>
    BY <1>4, Zenon DEF Loopback, Begin, Idle
  <2>2. SetLoopback \in Seq(Messages) /\ \A r \in Registers \ UartRegs : Spares(SetLoopback, r)
    BY EnableTyped, Sent, Joined, Concat, Zenon DEF SetLoopback
  <2> QED
    BY <2>1, <2>2, Queues, Zenon
<1>5. ASSUME GpioMode(t) PROVE Does(t, "mode", UartRegs)
  <2>1. /\ todo[t] = << >> /\ Queue(t, Disable) /\ op' = [op EXCEPT ![t] = "mode"]
        /\ UNCHANGED <<dev, product>>
    BY <1>5, Zenon DEF GpioMode, Begin, Idle
  <2> QED
    BY <2>1, EnableTyped, Sent, Queues, Zenon
<1>6. ASSUME GpioModeAccess(t) PROVE Does(t, "mode", UartRegs \cup {"gmode"})
  <2>1. /\ Queue(t, Enable) \/ \E v \in {"gpio", "rtscts"} : Queue(t, Set("gmode", v) \o Enable)
        /\ todo[t] = << >> /\ op[t] = "mode" /\ op' = op /\ UNCHANGED <<dev, product>>
    BY <1>6, Zenon DEF GpioModeAccess, Goes
  <2>2. op' = [op EXCEPT ![t] = "mode"]
    BY <2>1, Unmoved, Zenon
  <2>3. /\ Enable \in Seq(Messages)
        /\ \A r \in Registers \ (UartRegs \cup {"gmode"}) : Spares(Enable, r)
    BY EnableTyped, Sent, Zenon
  <2>4. ASSUME NEW v \in {"gpio", "rtscts"}
        PROVE  /\ Set("gmode", v) \o Enable \in Seq(Messages)
               /\ \A r \in Registers \ (UartRegs \cup {"gmode"}) : Spares(Set("gmode", v) \o Enable, r)
    BY <2>3, OthersTyped, Sent, Joined, Concat, Zenon
  <2> QED
    BY <2>1, <2>2, <2>3, <2>4, Queues, Zenon
<1>7. ASSUME GpioModeFaults(t) PROVE Does(t, "mode", UartRegs)
  <2>1. /\ todo[t] = << >> /\ op[t] = "mode" /\ op' = op /\ UNCHANGED <<todo, dev, product>>
    BY <1>7, Zenon DEF GpioModeFaults, Goes
  <2>2. op' = [op EXCEPT ![t] = "mode"]
    BY <2>1, Unmoved, Zenon
  <2> QED
    BY <2>1, <2>2, Quietly, Zenon
<1> QED
  BY <1>1, <1>2, <1>3, <1>4, <1>5, <1>6, <1>7

LEMMA LinesTurns ==
  ASSUME Ranges, Flags, Idle, NEW t \in Tasks
  PROVE  /\ \A set, clear \in SUBSET Lines : TiocmSet(t, set, clear) => Does(t, "tiocm", {})
         /\ TiocmWrite(t) => Does(t, "tiocm", Lines)
         /\ \A ok \in BOOLEAN : Activate(t, ok) => Does(t, "port", Lines)
         /\ \A ok \in BOOLEAN : ActivateEnds(t, ok) => Does(t, "port", Lines)
         /\ \A got \in BOOLEAN : Shutdown(t, got) => Does(t, "port", Lines)
         /\ \A g \in Gpios, high \in BOOLEAN : GpioSet(t, g, high) => Does(t, "gpio", Lines)
         /\ \A g \in Gpios, out \in BOOLEAN :
              GpioDir(t, g, out) => Does(t, IF out /\ g > 7 THEN "high" ELSE "dir", {"dir"})
         /\ GpioDirMode(t) => Does(t, "high", {"gmode"})
         /\ Dies(t) => Does(t, op[t], {})
<1>0. {} \in SUBSET Lines /\ Lines \in SUBSET Lines
  OBVIOUS
<1>1. ASSUME NEW set \in SUBSET Lines, NEW clear \in SUBSET Lines, TiocmSet(t, set, clear)
      PROVE  Does(t, "tiocm", {})
  <2>1. /\ todo[t] = << >> /\ op' = [op EXCEPT ![t] = "tiocm"] /\ UNCHANGED <<todo, dev, product>>
    BY <1>1, Zenon DEF TiocmSet, Begin, Idle
  <2> QED
    BY <2>1, Quietly, Zenon
<1>2. ASSUME TiocmWrite(t) PROVE Does(t, "tiocm", Lines)
  <2>1. PICK c \in SUBSET Lines : c = newctrl[t]
    BY DEF Ranges
  <2>2. /\ Queue(t, SetPins(c)) /\ todo[t] = << >> /\ op[t] = "tiocm" /\ op' = op
        /\ UNCHANGED <<dev, product>>
    BY <1>2, <2>1, Zenon DEF TiocmWrite, Goes
  <2>3. op' = [op EXCEPT ![t] = "tiocm"]
    BY <2>2, Unmoved, Zenon
  <2> QED
    BY <2>2, <2>3, PinsTyped, Sent, Queues, Zenon
<1>3. ASSUME NEW ok \in BOOLEAN, Activate(t, ok) PROVE Does(t, "port", Lines)
  <2>1. PICK q : q = IF ok THEN SetControl(Lines) ELSE << >>
    BY Zenon
  <2>2. q \in Seq(Messages) /\ \A r \in Registers \ Lines : Spares(q, r)
    <3>1. << >> \in Seq(Messages)
      OBVIOUS
    <3> QED
      BY <1>0, <2>1, <3>1, PinsTyped, Sent, Empty, Zenon
  <2>3. /\ todo[t] = << >> /\ Queue(t, q) /\ op' = [op EXCEPT ![t] = "port"]
        /\ UNCHANGED <<dev, product>>
    BY <1>3, <2>1, Zenon DEF Activate, Idle
  <2> QED
    BY <2>2, <2>3, Queues, Zenon
<1>4. ASSUME NEW ok \in BOOLEAN, ActivateEnds(t, ok) PROVE Does(t, "port", Lines)
  <2>1. PICK q : q = IF ok THEN << >> ELSE SetControl({})
    BY Zenon
  <2>2. q \in Seq(Messages) /\ \A r \in Registers \ Lines : Spares(q, r)
    <3>1. << >> \in Seq(Messages)
      OBVIOUS
    <3> QED
      BY <1>0, <2>1, <3>1, PinsTyped, Sent, Empty, Zenon
  <2>3. /\ Queue(t, q) /\ todo[t] = << >> /\ op[t] = "port" /\ op' = op
        /\ UNCHANGED <<dev, product>>
    BY <1>4, <2>1, Zenon DEF ActivateEnds, Goes
  <2>4. op' = [op EXCEPT ![t] = "port"]
    BY <2>3, Unmoved, Zenon
  <2> QED
    BY <2>2, <2>3, <2>4, Queues, Zenon
<1>5. ASSUME NEW got \in BOOLEAN, Shutdown(t, got) PROVE Does(t, "port", Lines)
  <2>1. /\ todo[t] = << >> /\ Queue(t, SetControl({})) /\ op' = [op EXCEPT ![t] = "port"]
        /\ UNCHANGED <<dev, product>>
    BY <1>5, Zenon DEF Shutdown, Begin, Idle
  <2> QED
    BY <1>0, <2>1, PinsTyped, Sent, Queues, Zenon
<1>6. ASSUME NEW g \in Gpios, NEW out \in BOOLEAN, GpioDir(t, g, out)
      PROVE  Does(t, IF out /\ g > 7 THEN "high" ELSE "dir", {"dir"})
  <2>1. PICK o : o = IF out /\ g > 7 THEN "high" ELSE "dir"
    BY Zenon
  <2>2. PICK v \in SUBSET Gpios : Queue(t, Set("dir", Dir(v, g, out)))
    BY <1>6, Zenon DEF GpioDir
  <2>3. PICK w \in SUBSET Gpios : w = Dir(v, g, out)
    BY DEF Dir
  <2>4. todo[t] = << >> /\ op' = [op EXCEPT ![t] = o] /\ UNCHANGED <<dev, product>>
    BY <1>6, <2>1, Zenon DEF GpioDir, Begin, Idle
  <2> QED
    BY <2>1, <2>2, <2>3, <2>4, OthersTyped, Sent, Queues, Zenon
<1>7. ASSUME GpioDirMode(t) PROVE Does(t, "high", {"gmode"})
  <2>1. PICK v \in {"gpio", "rtscts"} : Queue(t, Set("gmode", v))
    BY <1>7, Zenon DEF GpioDirMode
  <2>2. todo[t] = << >> /\ op[t] = "high" /\ op' = op /\ UNCHANGED <<dev, product>>
    BY <1>7, Zenon DEF GpioDirMode, Goes
  <2>3. op' = [op EXCEPT ![t] = "high"]
    BY <2>2, Unmoved, Zenon
  <2> QED
    BY <2>1, <2>2, <2>3, OthersTyped, Sent, Queues, Zenon
<1>8. ASSUME NEW g \in Gpios, NEW high \in BOOLEAN, GpioSet(t, g, high) PROVE Does(t, "gpio", Lines)
  <2>1. PICK x \in Lines : x = IF g = 3 THEN "dtr" ELSE "rts"
    BY DEF Lines
  <2>2. PICK v : v = (~high)
    BY Zenon
  <2>3. Set(x, v) \in Seq(Messages)
    <3>1. x \in Registers
      BY DEF Lines, Registers
    <3>2. v \in Values
      BY <2>2, Booleans, Zenon
    <3> QED
      BY <3>1, <3>2, SetTyped, Zenon
  <2>4. /\ todo[t] = << >> /\ Queue(t, Set(x, v)) /\ op' = [op EXCEPT ![t] = "gpio"]
        /\ UNCHANGED <<dev, product>>
    BY <1>8, <2>1, <2>2, Zenon DEF GpioSet, Begin, Idle
  <2> QED
    BY <2>3, <2>4, Sent, Queues, Zenon
<1>9. ASSUME Dies(t) PROVE Does(t, op[t], {})
  <2>1. todo[t] = << >> /\ op' = op /\ UNCHANGED <<todo, dev, product>>
    BY <1>9, Zenon DEF Dies
  <2> QED
    BY <2>1, Unmoved, Quietly, Zenon
<1> QED
  BY <1>1, <1>2, <1>3, <1>4, <1>5, <1>6, <1>7, <1>8, <1>9, Zenon

\* The kinds of handlers that set a register.
Owners(r) ==
  IF r \in UartRegs THEN {"termios", "baud", "precise", "loopback", "mode"}
  ELSE IF r \in Lines THEN {"termios", "tiocm", "port", "gpio"}
  ELSE IF r \in CodingRegs THEN {"termios", "baud"}
  ELSE IF r = "flow" THEN {"termios"}
  ELSE IF r = "gmode" THEN {"termios", "mode", "high"}
  ELSE IF r = "wide" THEN {"termios", "precise"}
  ELSE {"dir", "high"}

\* Only they have messages for it.
Scope == \A t \in Tasks : \A r \in Registers : Spares(todo[t], r) \/ op[t] \in Owners(r)

\* What is not spoilt has one handler at a time that writes it, of those that
\* were not killed.
Shared == {"pins", "coding", "flow", "wide", "dir"}
Active(t, g) == at[t] # "dead" /\ g \in Writes(op[t])
Alone ==
  \A g \in Shared :
    g \in spoilt \/ \A s, t \in Tasks : Active(s, g) /\ Active(t, g) => s = t

\* A program that sets the GPIO mode register has spoilt it.
ModeSpares ==
  "flow" \notin spoilt => \A t \in Tasks : op[t] = "mode" => Spares(todo[t], "gmode")

\* The tty core runs one set_termios at a time.
OneTermios == \A s, t \in Tasks : op[s] = "termios" /\ op[t] = "termios" => s = t

\* A change of a handler's own that may queue messages: it begins, or goes on.
Begins(t) ==
  \/ \E new \in Termios : SetTermios(t, new)
  \/ \E rate \in Rates, place \in {"end", "divide"} : AnyBaudRate(t, rate, place)
  \/ PreciseFlags(t) \/ Loopback(t) \/ GpioMode(t)
  \/ \E set, clear \in SUBSET Lines : TiocmSet(t, set, clear)
  \/ \E ok \in BOOLEAN : Activate(t, ok)
  \/ \E got \in BOOLEAN : Shutdown(t, got)
  \/ \E g \in Gpios, out \in BOOLEAN : GpioDir(t, g, out)
  \/ \E g \in Gpios, high \in BOOLEAN : GpioSet(t, g, high)

GoesOn(t) ==
  \/ TermiosLines(t) \/ TermiosWide(t)
  \/ \E place \in {"end", "divide"} : TermiosLine(t, place)
  \/ \E on \in BOOLEAN : PreciseWide(t, on)
  \/ GpioModeAccess(t) \/ GpioModeFaults(t) \/ TiocmWrite(t)
  \/ \E ok \in BOOLEAN : ActivateEnds(t, ok)
  \/ GpioDirMode(t)

Turns(t) == Begins(t) \/ GoesOn(t) \/ Dies(t)

LEMMA Cases ==
  ASSUME [Next]_vars
  PROVE  \/ Sleep \/ Wake \/ UNCHANGED vars
         \/ \E t \in Tasks : Send(t) \/ Return(t) \/ Turns(t)
<1>1. ASSUME NEW t \in Tasks, Call(t) PROVE Turns(t)
  BY <1>1 DEF Call, Turns, Begins
<1>2. ASSUME NEW t \in Tasks, Step(t) PROVE Send(t) \/ Return(t) \/ Turns(t)
  BY <1>2 DEF Step, Turns, GoesOn
<1> QED
  BY <1>1, <1>2, Zenon DEF Next

\* A handler begins where there was none, and goes on as the same one.
LEMMA Beginning ==
  ASSUME NEW t \in Tasks, Begins(t)
  PROVE  \E o \in Kinds \ {"none"}, place \in Places \ {"dead"} :
           /\ op[t] = "none" /\ op' = [op EXCEPT ![t] = o] /\ at' = [at EXCEPT ![t] = place]
           /\ Contended(o) \subseteq spoilt'
           /\ o = "termios" => \A s \in Tasks : op[s] # "termios"
<1> USE DEF Begin, Kinds, Places
<1>1. CASE \E new \in Termios : SetTermios(t, new)
  BY <1>1 DEF SetTermios
<1>2. CASE \E rate \in Rates, place \in {"end", "divide"} : AnyBaudRate(t, rate, place)
  <2>1. PICK rate \in Rates, place \in {"end", "divide"} : AnyBaudRate(t, rate, place)
    BY <1>2
  <2>2. /\ op[t] = "none" /\ op' = [op EXCEPT ![t] = "baud"] /\ at' = [at EXCEPT ![t] = place]
        /\ Contended("baud") \subseteq spoilt'
    BY <2>1, Zenon DEF AnyBaudRate
  <2>3. "baud" \in Kinds \ {"none"} /\ place \in Places \ {"dead"} /\ "baud" # "termios"
    OBVIOUS
  <2> QED
    BY <2>2, <2>3, Zenon
<1>3. CASE PreciseFlags(t) \/ Loopback(t) \/ GpioMode(t)
  BY <1>3 DEF PreciseFlags, Loopback, GpioMode
<1>4. CASE \E set, clear \in SUBSET Lines : TiocmSet(t, set, clear)
  <2>1. /\ op[t] = "none" /\ op' = [op EXCEPT ![t] = "tiocm"] /\ at' = [at EXCEPT ![t] = "write"]
        /\ Contended("tiocm") \subseteq spoilt'
    BY <1>4, Zenon DEF TiocmSet
  <2>2. "tiocm" \in Kinds \ {"none"} /\ "write" \in Places \ {"dead"} /\ "tiocm" # "termios"
    OBVIOUS
  <2> QED
    BY <2>1, <2>2, Zenon
<1>5. CASE \E ok \in BOOLEAN : Activate(t, ok)
  <2>1. PICK ok \in BOOLEAN : Activate(t, ok)
    BY <1>5
  <2>2. Contended("port") \subseteq spoilt'
    BY <2>1, Zenon DEF Activate
  <2>3. PICK place \in {"opening", "failed"} : at' = [at EXCEPT ![t] = place]
    BY <2>1 DEF Activate
  <2>4. op[t] = "none" /\ op' = [op EXCEPT ![t] = "port"]
    BY <2>1, Zenon DEF Activate
  <2>5. "port" \in Kinds \ {"none"} /\ place \in Places \ {"dead"} /\ "port" # "termios"
    OBVIOUS
  <2> QED
    BY <2>2, <2>3, <2>4, <2>5, Zenon
<1>6. CASE \E got \in BOOLEAN : Shutdown(t, got)
  BY <1>6 DEF Shutdown
<1>7. CASE \E g \in Gpios, out \in BOOLEAN : GpioDir(t, g, out)
  <2>1. PICK g \in Gpios, out \in BOOLEAN : GpioDir(t, g, out)
    BY <1>7
  <2>2. PICK o \in {"high", "dir"} : o = IF out /\ g > 7 THEN "high" ELSE "dir"
    OBVIOUS
  <2>3. PICK place \in {"mode", "end"} : place = IF o = "high" THEN "mode" ELSE "end"
    OBVIOUS
  <2>4. /\ op[t] = "none" /\ op' = [op EXCEPT ![t] = o] /\ at' = [at EXCEPT ![t] = place]
        /\ Contended(o) \subseteq spoilt'
    BY <2>1, <2>2, <2>3, Zenon DEF GpioDir
  <2> QED
    BY <2>2, <2>3, <2>4
<1>8. CASE \E g \in Gpios, high \in BOOLEAN : GpioSet(t, g, high)
  <2>1. /\ op[t] = "none" /\ op' = [op EXCEPT ![t] = "gpio"] /\ at' = [at EXCEPT ![t] = "end"]
        /\ Contended("gpio") \subseteq spoilt'
    BY <1>8, Zenon DEF GpioSet
  <2>2. "gpio" \in Kinds \ {"none"} /\ "end" \in Places \ {"dead"} /\ "gpio" # "termios"
    OBVIOUS
  <2> QED
    BY <2>1, <2>2, Zenon
<1> QED
  BY <1>1, <1>2, <1>3, <1>4, <1>5, <1>6, <1>7, <1>8, Zenon DEF Begins

LEMMA GoingOn ==
  ASSUME NEW t \in Tasks, GoesOn(t)
  PROVE  /\ op[t] # "none" /\ op' = op
         /\ \E from, to \in Places \ {"dead"} : at[t] = from /\ at' = [at EXCEPT ![t] = to]
<1> USE DEF Goes, Places
<1>1. CASE TermiosLines(t) \/ TermiosWide(t) \/ \E place \in {"end", "divide"} : TermiosLine(t, place)
  BY <1>1 DEF TermiosLines, TermiosWide, TermiosLine
<1>2. CASE \E on \in BOOLEAN : PreciseWide(t, on)
  BY <1>2 DEF PreciseWide
<1>3. CASE GpioModeAccess(t) \/ GpioModeFaults(t)
  BY <1>3 DEF GpioModeAccess, GpioModeFaults
<1>4. CASE TiocmWrite(t)
  BY <1>4 DEF TiocmWrite
<1>5. CASE \E ok \in BOOLEAN : ActivateEnds(t, ok)
  BY <1>5 DEF ActivateEnds
<1>6. CASE GpioDirMode(t)
  BY <1>6 DEF GpioDirMode
<1> QED
  BY <1>1, <1>2, <1>3, <1>4, <1>5, <1>6, Zenon DEF GoesOn

\* Every turn is one of a kind, for registers that kind owns.
LEMMA OwnTurns ==
  ASSUME Ranges, Flags, Idle, NEW t \in Tasks, Turns(t)
  PROVE  \E o, R : /\ Does(t, o, R) /\ o # "none" /\ \A r \in R : o \in Owners(r)
                   /\ op[t] \in {"none", o}
<1> DEFINE Kind(o, R) == Does(t, o, R) /\ op[t] \in {"none", o}
<1>1. /\ \A r \in UartRegs : {"termios", "baud", "precise", "loopback", "mode"} \subseteq Owners(r)
      /\ \A r \in Lines : {"termios", "tiocm", "port", "gpio"} \subseteq Owners(r)
      /\ \A r \in CodingRegs : {"termios", "baud"} \subseteq Owners(r)
      /\ {"termios"} \subseteq Owners("flow") /\ {"termios", "mode", "high"} \subseteq Owners("gmode")
      /\ {"termios", "precise"} \subseteq Owners("wide") /\ {"dir", "high"} \subseteq Owners("dir")
  BY SMT DEF Owners, UartRegs, Lines, CodingRegs
<1>2. ASSUME NEW new \in Termios, SetTermios(t, new) PROVE Kind("termios", UartRegs)
  BY <1>2, TermiosTurns, Zenon DEF SetTermios, Begin
<1>3. ASSUME TermiosLines(t) PROVE Kind("termios", Lines \cup FlowRegs)
  BY <1>3, TermiosTurns, Zenon DEF TermiosLines, Goes
<1>4. ASSUME TermiosWide(t) PROVE Kind("termios", UartRegs \cup {"wide"})
  BY <1>4, TermiosTurns, Zenon DEF TermiosWide, Goes
<1>5. ASSUME NEW place \in {"end", "divide"}, TermiosLine(t, place)
      PROVE  Kind("termios", UartRegs \cup CodingRegs)
  BY <1>5, TermiosTurns, Zenon DEF TermiosLine, Goes
<1>6. ASSUME NEW rate \in Rates, NEW place \in {"end", "divide"}, AnyBaudRate(t, rate, place)
      PROVE  Kind("baud", UartRegs \cup CodingRegs)
  BY <1>6, IoctlTurns, Zenon DEF AnyBaudRate, Begin
<1>7. ASSUME PreciseFlags(t) PROVE Kind("precise", UartRegs)
  BY <1>7, IoctlTurns, Zenon DEF PreciseFlags, Begin
<1>8. ASSUME NEW on \in BOOLEAN, PreciseWide(t, on) PROVE Kind("precise", UartRegs \cup {"wide"})
  BY <1>8, IoctlTurns, Zenon DEF PreciseWide, Goes
<1>9. ASSUME Loopback(t) PROVE Kind("loopback", UartRegs)
  BY <1>9, IoctlTurns, Zenon DEF Loopback, Begin
<1>10. ASSUME GpioMode(t) PROVE Kind("mode", UartRegs)
  BY <1>10, IoctlTurns, Zenon DEF GpioMode, Begin
<1>11. ASSUME GpioModeAccess(t) PROVE Kind("mode", UartRegs \cup {"gmode"})
  BY <1>11, IoctlTurns, Zenon DEF GpioModeAccess, Goes
<1>12. ASSUME GpioModeFaults(t) PROVE Kind("mode", UartRegs)
  BY <1>12, IoctlTurns, Zenon DEF GpioModeFaults, Goes
<1>13. ASSUME NEW set \in SUBSET Lines, NEW clear \in SUBSET Lines, TiocmSet(t, set, clear)
       PROVE  Kind("tiocm", {})
  BY <1>13, LinesTurns, Zenon DEF TiocmSet, Begin
<1>14. ASSUME TiocmWrite(t) PROVE Kind("tiocm", Lines)
  BY <1>14, LinesTurns, Zenon DEF TiocmWrite, Goes
<1>15. ASSUME NEW ok \in BOOLEAN, Activate(t, ok) PROVE Kind("port", Lines)
  BY <1>15, LinesTurns, Zenon DEF Activate
<1>16. ASSUME NEW ok \in BOOLEAN, ActivateEnds(t, ok) PROVE Kind("port", Lines)
  BY <1>16, LinesTurns, Zenon DEF ActivateEnds, Goes
<1>17. ASSUME NEW got \in BOOLEAN, Shutdown(t, got) PROVE Kind("port", Lines)
  BY <1>17, LinesTurns, Zenon DEF Shutdown, Begin
<1>18. ASSUME NEW g \in Gpios, NEW out \in BOOLEAN, GpioDir(t, g, out)
       PROVE  Kind("high", {"dir"}) \/ Kind("dir", {"dir"})
  <2>1. PICK o : o = IF out /\ g > 7 THEN "high" ELSE "dir"
    BY Zenon
  <2>2. o = "high" \/ o = "dir"
    BY <2>1, Zenon
  <2>3. Does(t, o, {"dir"})
    BY <1>18, <2>1, LinesTurns, Zenon
  <2>4. op[t] = "none"
    BY <1>18, Zenon DEF GpioDir, Begin
  <2> QED
    BY <2>2, <2>3, <2>4, Zenon
<1>19. ASSUME GpioDirMode(t) PROVE Kind("high", {"gmode"})
  BY <1>19, LinesTurns, Zenon DEF GpioDirMode, Goes
<1>20. ASSUME NEW g \in Gpios, NEW high \in BOOLEAN, GpioSet(t, g, high) PROVE Kind("gpio", Lines)
  BY <1>20, LinesTurns, Zenon DEF GpioSet, Begin
<1>21. ASSUME Dies(t) PROVE Kind(op[t], {}) /\ op[t] # "none"
  BY <1>21, LinesTurns, Zenon DEF Dies
<1>22. /\ \A r \in UartRegs \cup CodingRegs : "termios" \in Owners(r) /\ "baud" \in Owners(r)
       /\ \A r \in UartRegs \cup {"wide"} : "termios" \in Owners(r) /\ "precise" \in Owners(r)
       /\ \A r \in UartRegs : "termios" \in Owners(r) /\ "loopback" \in Owners(r) /\ "mode" \in Owners(r)
                              /\ "precise" \in Owners(r)
       /\ \A r \in UartRegs \cup {"gmode"} : "mode" \in Owners(r)
       /\ \A r \in Lines \cup FlowRegs : "termios" \in Owners(r)
       /\ \A r \in Lines : "tiocm" \in Owners(r) /\ "port" \in Owners(r) /\ "gpio" \in Owners(r)
       /\ \A r \in {"gmode"} : "high" \in Owners(r)
       /\ \A r \in {"dir"} : "dir" \in Owners(r) /\ "high" \in Owners(r)
  BY <1>1 DEF FlowRegs
<1>23. \/ Kind("termios", UartRegs) \/ Kind("termios", Lines \cup FlowRegs)
       \/ Kind("termios", UartRegs \cup {"wide"}) \/ Kind("termios", UartRegs \cup CodingRegs)
       \/ Kind("baud", UartRegs \cup CodingRegs) \/ Kind("precise", UartRegs)
       \/ Kind("precise", UartRegs \cup {"wide"}) \/ Kind("loopback", UartRegs)
       \/ Kind("mode", UartRegs) \/ Kind("mode", UartRegs \cup {"gmode"})
       \/ Kind("tiocm", {}) \/ Kind("tiocm", Lines) \/ Kind("port", Lines) \/ Kind("gpio", Lines)
       \/ Kind("dir", {"dir"}) \/ Kind("high", {"dir"}) \/ Kind("high", {"gmode"})
       \/ Kind(op[t], {}) /\ op[t] # "none"
  <2> HIDE DEF Kind
  <2>1. CASE Begins(t)
    <3>1. CASE \/ (\E new \in Termios : SetTermios(t, new))
               \/ (\E rate \in Rates, place \in {"end", "divide"} : AnyBaudRate(t, rate, place))
               \/ PreciseFlags(t) \/ Loopback(t) \/ GpioMode(t)
      BY <1>2, <1>6, <1>7, <1>9, <1>10, <3>1, Zenon
    <3>2. CASE \/ (\E set, clear \in SUBSET Lines : TiocmSet(t, set, clear))
               \/ (\E ok \in BOOLEAN : Activate(t, ok))
               \/ (\E got \in BOOLEAN : Shutdown(t, got))
               \/ (\E g \in Gpios, out \in BOOLEAN : GpioDir(t, g, out))
               \/ (\E g \in Gpios, high \in BOOLEAN : GpioSet(t, g, high))
      BY <1>13, <1>15, <1>17, <1>18, <1>20, <3>2, Zenon
    <3> QED
      BY <2>1, <3>1, <3>2, Zenon DEF Begins
  <2>2. CASE GoesOn(t)
    BY <1>3, <1>4, <1>5, <1>8, <1>11, <1>12, <1>14, <1>16, <1>19, <2>2, Zenon DEF GoesOn
  <2> QED
    BY <1>21, <2>1, <2>2, Zenon DEF Turns
<1>24. ASSUME NEW o, NEW R, Kind(o, R), o # "none", \A r \in R : o \in Owners(r)
       PROVE  \E p, Q : /\ Does(t, p, Q) /\ p # "none" /\ \A r \in Q : p \in Owners(r)
                        /\ op[t] \in {"none", p}
  BY <1>24, Zenon
<1> HIDE DEF Kind
<1> QED
  BY <1>22, <1>23, <1>24

\* A program that sets the GPIO mode register spoils it as it does.
LEMMA ModeTurns ==
  ASSUME Ranges, Flags, Idle, NEW t \in Tasks, Turns(t), "flow" \notin spoilt'
  PROVE  \E o, R : Does(t, o, R) /\ (o = "mode" => "gmode" \notin R)
<1>1. /\ "gmode" \in Registers /\ "gmode" \notin UartRegs
      /\ \A o \in {"termios", "baud", "precise", "loopback", "tiocm", "port", "gpio", "dir", "high"} : o # "mode"
  BY DEF Registers, UartRegs
<1>2. CASE Begins(t)
  <2>1. CASE \/ \E new \in Termios : SetTermios(t, new)
             \/ \E rate \in Rates, place \in {"end", "divide"} : AnyBaudRate(t, rate, place)
             \/ PreciseFlags(t) \/ Loopback(t) \/ GpioMode(t)
    BY <1>1, <2>1, TermiosTurns, IoctlTurns, Zenon
  <2>2. CASE \/ \E set, clear \in SUBSET Lines : TiocmSet(t, set, clear)
             \/ \E ok \in BOOLEAN : Activate(t, ok)
             \/ \E got \in BOOLEAN : Shutdown(t, got)
             \/ \E g \in Gpios, high \in BOOLEAN : GpioSet(t, g, high)
    BY <1>1, <2>2, LinesTurns, Zenon
  <2>3. CASE \E g \in Gpios, out \in BOOLEAN : GpioDir(t, g, out)
    <3>1. PICK g \in Gpios, out \in BOOLEAN : GpioDir(t, g, out)
      BY <2>3, Zenon
    <3>2. PICK o : o = IF out /\ g > 7 THEN "high" ELSE "dir"
      BY Zenon
    <3>3. Does(t, o, {"dir"}) /\ o # "mode"
      BY <1>1, <3>1, <3>2, LinesTurns, Zenon
    <3> QED
      BY <3>3, Zenon
  <2> QED
    BY <1>2, <2>1, <2>2, <2>3, Zenon DEF Begins
<1>3. CASE GoesOn(t)
  <2>1. CASE GpioModeAccess(t)
    <3>1. /\ Queue(t, Enable) /\ todo[t] = << >> /\ op[t] = "mode" /\ op' = op /\ UNCHANGED <<dev, product>>
      BY <2>1, Zenon DEF GpioModeAccess, Goes
    <3>2. Does(t, "mode", UartRegs)
      BY <3>1, Unmoved, EnableTyped, Sent, Queues, Zenon
    <3> QED
      BY <1>1, <3>2, Zenon
  <2>2. CASE \/ TermiosLines(t) \/ TermiosWide(t) \/ GpioModeFaults(t)
             \/ \E place \in {"end", "divide"} : TermiosLine(t, place)
             \/ \E on \in BOOLEAN : PreciseWide(t, on)
    BY <1>1, <2>2, TermiosTurns, IoctlTurns, Zenon
  <2>3. CASE TiocmWrite(t) \/ (\E ok \in BOOLEAN : ActivateEnds(t, ok)) \/ GpioDirMode(t)
    BY <1>1, <2>3, LinesTurns, Zenon
  <2> QED
    BY <1>3, <2>1, <2>2, <2>3, Zenon DEF GoesOn
<1>4. CASE Dies(t)
  <2>1. Does(t, op[t], {})
    BY <1>4, LinesTurns, Zenon
  <2>2. PICK o, R : o = op[t] /\ R = {}
    OBVIOUS
  <2>3. Does(t, o, R) /\ "gmode" \notin R
    BY <2>1, <2>2
  <2> QED
    BY <2>3, Zenon
<1> QED
  BY <1>2, <1>3, <1>4, Zenon DEF Turns

LEMMA NextIdle ==
  ASSUME Ranges, Flags, Idle, [Next]_vars
  PROVE  Idle'
<1>1. CASE Sleep \/ Wake \/ UNCHANGED vars
  BY <1>1, Zenon DEF Sleep, Wake, vars, Idle
<1>2. ASSUME NEW t \in Tasks, Send(t) PROVE Idle'
  <2>1. todo[t] # << >> /\ op' = op /\ at' = at
    BY <1>2 DEF Send
  <2>2. op[t] # "none" /\ at[t] # "dead"
    BY <2>1, Zenon DEF Idle
  <2>3. \A s \in Tasks \ {t} : todo'[s] = todo[s]
    BY <1>2 DEF Send, Ranges
  <2> QED
    BY <2>1, <2>2, <2>3, Zenon DEF Idle
<1>3. ASSUME NEW t \in Tasks, Return(t) PROVE Idle'
  BY <1>3 DEF Return, Idle, Ranges
<1>4. ASSUME NEW t \in Tasks, Turns(t) PROVE Idle'
  <2>1. PICK o, R : Does(t, o, R) /\ o # "none"
    BY <1>4, OwnTurns, Zenon
  <2>2. \A s \in Tasks \ {t} : todo'[s] = todo[s] /\ op'[s] = op[s]
    BY <2>1 DEF Does, Turn, Ranges
  <2>3. op'[t] # "none"
    BY <2>1 DEF Does, Turn, Ranges
  <2>4. PICK place : at' = [at EXCEPT ![t] = place] /\ (place = "dead" => todo' = todo /\ todo[t] = << >>)
    <3>1. CASE Begins(t)
      BY <3>1, Beginning
    <3>2. CASE GoesOn(t)
      BY <3>2, GoingOn
    <3>3. CASE Dies(t)
      BY <3>3, Zenon DEF Dies
    <3> QED
      BY <1>4, <3>1, <3>2, <3>3 DEF Turns
  <2>5. at'[t] = place /\ \A s \in Tasks \ {t} : at'[s] = at[s]
    BY <2>4 DEF Ranges
  <2> QED
    BY <2>2, <2>3, <2>4, <2>5, Zenon DEF Idle
<1> QED
  BY <1>1, <1>2, <1>3, <1>4, Cases, Zenon

LEMMA TailSpares ==
  ASSUME NEW q \in Seq(Messages), q # << >>, NEW r, NEW S
  PROVE  /\ Spares(q, r) => Spares(Tail(q), r) /\ r \notin DOMAIN Head(q)
         /\ ~Spares(q, r) => ~Spares(Tail(q), r) \/ r \in DOMAIN Head(q)
         /\ Agrees(q, r, S) => Agrees(Tail(q), r, S) /\ (r \in DOMAIN Head(q) => Head(q)[r] \in S)
<1>1. /\ Head(q) = q[1] /\ Len(Tail(q)) = Len(q) - 1 /\ Len(q) \in Nat \ {0}
      /\ \A k \in 1..Len(Tail(q)) : Tail(q)[k] = q[k + 1]
  OBVIOUS
<1>2. \A k \in 1..Len(Tail(q)) : k + 1 \in 1..Len(q)
  BY <1>1
<1>3. \A k \in 1..Len(q) : k = 1 \/ (k - 1 \in 1..Len(Tail(q)) /\ Tail(q)[k - 1] = q[k])
  BY <1>1
<1>4. 1 \in 1..Len(q)
  BY <1>1
<1>5. Spares(q, r) => Spares(Tail(q), r) /\ r \notin DOMAIN Head(q)
  BY <1>1, <1>2, <1>4, Zenon DEF Spares
<1>6. ~Spares(q, r) => ~Spares(Tail(q), r) \/ r \in DOMAIN Head(q)
  BY <1>1, <1>3, Zenon DEF Spares
<1>7. Agrees(q, r, S) => Agrees(Tail(q), r, S) /\ (r \in DOMAIN Head(q) => Head(q)[r] \in S)
  BY <1>1, <1>2, <1>4, Zenon DEF Agrees
<1> QED
  BY <1>5, <1>6, <1>7

LEMMA SendTail ==
  ASSUME Ranges, NEW t \in Tasks, Send(t)
  PROVE  /\ todo[t] \in Seq(Messages) /\ todo[t] # << >> /\ todo'[t] = Tail(todo[t])
         /\ \A s \in Tasks \ {t} : todo'[s] = todo[s]
  BY DEF Send, Ranges

LEMMA NextScope ==
  ASSUME Ranges, Flags, Idle, Scope, [Next]_vars
  PROVE  Scope'
<1>1. CASE Sleep \/ Wake \/ UNCHANGED vars
  BY <1>1, Zenon DEF Sleep, Wake, vars, Scope
<1>2. ASSUME NEW t \in Tasks, Send(t) PROVE Scope'
  <2>1. op' = op
    BY <1>2 DEF Send
  <2>2. ASSUME NEW r \in Registers PROVE Spares(todo'[t], r) \/ op[t] \in Owners(r)
    <3>1. PICK q \in Seq(Messages) : q = todo[t]
      BY <1>2, SendTail, Zenon
    <3>2. q # << >> /\ todo'[t] = Tail(q)
      BY <1>2, <3>1, SendTail, Zenon
    <3>3. Spares(q, r) => Spares(Tail(q), r)
      BY <3>2, TailSpares, Zenon
    <3> QED
      BY <3>1, <3>2, <3>3, Zenon DEF Scope
  <2> QED
    BY <1>2, <2>1, <2>2, SendTail, Zenon DEF Scope
<1>3. ASSUME NEW t \in Tasks, Return(t) PROVE Scope'
  <2>1. todo' = todo /\ todo[t] = << >> /\ \A s \in Tasks \ {t} : op'[s] = op[s]
    BY <1>3 DEF Return, Ranges
  <2> QED
    BY <2>1, Empty, Zenon DEF Scope
<1>4. ASSUME NEW t \in Tasks, Turns(t) PROVE Scope'
  <2>1. PICK o, R : Does(t, o, R) /\ \A r \in R : o \in Owners(r)
    BY <1>4, OwnTurns, Zenon
  <2>2. PICK q \in Seq(Messages) : Turn(t, o, q) /\ \A r \in Registers \ R : Spares(q, r)
    BY <2>1, Zenon DEF Does
  <2>3. /\ todo'[t] = q /\ op'[t] = o
        /\ \A s \in Tasks \ {t} : todo'[s] = todo[s] /\ op'[s] = op[s]
    BY <2>2 DEF Turn, Ranges
  <2> QED
    BY <2>1, <2>2, <2>3, Zenon DEF Scope
<1> QED
  BY <1>1, <1>2, <1>3, <1>4, Cases, Zenon

\* Of what is spoilt only the UART and the GPIO chip's pins are made good.
LEMMA StaysSpoilt ==
  ASSUME Ranges, [Next]_vars
  PROVE  spoilt \ {"uart", "chip"} \subseteq spoilt'
<1>1. CASE Sleep \/ Wake \/ UNCHANGED vars
  BY <1>1, Zenon DEF Sleep, Wake, vars
<1>2. ASSUME NEW t \in Tasks, Send(t) PROVE spoilt \ {"uart", "chip"} \subseteq spoilt'
  BY <1>2, Zenon DEF Send
<1>3. ASSUME NEW t \in Tasks, Return(t) PROVE spoilt \ {"uart", "chip"} \subseteq spoilt'
  BY <1>3, Zenon DEF Return
<1>4. ASSUME NEW t \in Tasks, Turns(t) PROVE spoilt \ {"uart", "chip"} \subseteq spoilt'
  <2>1. CASE Begins(t)
    BY <2>1, Zenon DEF Begins, SetTermios, AnyBaudRate, PreciseFlags, Loopback, GpioMode, TiocmSet,
                       Activate, Shutdown, GpioDir, GpioSet
  <2>2. CASE GoesOn(t)
    BY <2>2, Zenon DEF GoesOn, TermiosLines, TermiosWide, TermiosLine, PreciseWide, GpioModeAccess,
                       GpioModeFaults, TiocmWrite, ActivateEnds, GpioDirMode
  <2>3. CASE Dies(t)
    BY <2>3, Zenon DEF Dies
  <2> QED
    BY <1>4, <2>1, <2>2, <2>3, Zenon DEF Turns
<1> QED
  BY <1>1, <1>2, <1>3, <1>4, Cases, Zenon

\* A handler that starts spoils what it contends for.
LEMMA StartsAlone ==
  ASSUME Ranges, Alone, spoilt \ {"uart", "chip"} \subseteq spoilt', NEW t \in Tasks, NEW o, NEW place,
         op[t] = "none", op' = [op EXCEPT ![t] = o], at' = [at EXCEPT ![t] = place],
         Contended(o) \subseteq spoilt'
  PROVE  Alone'
<1>1. op'[t] = o /\ \A s \in Tasks \ {t} : op'[s] = op[s] /\ at'[s] = at[s]
  BY DEF Ranges
<1>2. ASSUME NEW g, g \notin spoilt', NEW s \in Tasks \ {t}, Active(s, g) PROVE g \notin Writes(o)
  BY <1>2, Zenon DEF Contended, Active
<1>3. ASSUME NEW g \in Shared, g \notin spoilt', NEW s \in Tasks, NEW u \in Tasks,
             Active(s, g)', Active(u, g)'
      PROVE  s = u
  <2>1. g \notin spoilt
    BY <1>3 DEF Shared
  <2>2. CASE s # t /\ u # t
    <3>1. Active(s, g) /\ Active(u, g)
      BY <1>1, <1>3, <2>2, Zenon DEF Active
    <3> QED
      BY <2>1, <3>1, Zenon DEF Alone
  <2>3. CASE s = t /\ u # t
    BY <1>1, <1>2, <1>3, <2>3, Zenon DEF Active
  <2>4. CASE s # t /\ u = t
    BY <1>1, <1>2, <1>3, <2>4, Zenon DEF Active
  <2> QED
    BY <2>2, <2>3, <2>4, Zenon
<1> QED
  BY <1>3, Zenon DEF Alone

LEMMA NextAlone ==
  ASSUME Ranges, Flags, Idle, Alone, [Next]_vars
  PROVE  Alone'
<1>1. spoilt \ {"uart", "chip"} \subseteq spoilt' /\ \A g \in Shared : g \notin spoilt' => g \notin spoilt
  BY StaysSpoilt DEF Shared
<1>2. ASSUME \A s \in Tasks : \A g \in Shared : Active(s, g)' => Active(s, g) PROVE Alone'
  BY <1>1, <1>2, Zenon DEF Alone
<1>3. ASSUME NEW t \in Tasks, Return(t) PROVE Alone'
  <2>1. op'[t] = "none" /\ \A s \in Tasks \ {t} : op'[s] = op[s] /\ at'[s] = at[s]
    BY <1>3 DEF Return, Ranges
  <2>2. Writes("none") = {}
    BY DEF Writes
  <2>3. ASSUME NEW s \in Tasks, NEW g, Active(s, g)' PROVE Active(s, g)
    <3>1. s # t
      BY <2>1, <2>2, <2>3, SMT DEF Active
    <3> QED
      BY <2>1, <2>3, <3>1, Zenon DEF Active
  <2> QED
    BY <1>2, <2>3, Zenon
<1>4. ASSUME NEW t \in Tasks, Turns(t) PROVE Alone'
  <2>1. CASE Begins(t)
    BY <1>1, <2>1, Beginning, StartsAlone, Zenon
  <2>2. ASSUME op' = op, \A s \in Tasks : at[s] = "dead" => at'[s] = "dead" PROVE Alone'
    BY <1>2, <2>2, Zenon DEF Active
  <2>3. CASE GoesOn(t)
    <3>1. op' = op /\ \A s \in Tasks : at[s] = "dead" => at'[s] = "dead"
      BY <2>3, GoingOn DEF Ranges
    <3> QED
      BY <2>2, <3>1, Zenon
  <2>4. CASE Dies(t)
    <3>1. op' = op /\ \A s \in Tasks : at[s] = "dead" => at'[s] = "dead"
      BY <2>4 DEF Dies, Ranges
    <3> QED
      BY <2>2, <3>1, Zenon
  <2> QED
    BY <1>4, <2>1, <2>3, <2>4, Zenon DEF Turns
<1>5. ASSUME op' = op, at' = at PROVE Alone'
  BY <1>2, <1>5, Zenon DEF Active
<1>6. ASSUME NEW t \in Tasks, Send(t) PROVE Alone'
  BY <1>5, <1>6, Zenon DEF Send
<1>7. CASE Sleep \/ Wake \/ UNCHANGED vars
  BY <1>5, <1>7, Zenon DEF Sleep, Wake, vars
<1> QED
  BY <1>3, <1>4, <1>6, <1>7, Cases, Zenon

LEMMA NextModeSpares ==
  ASSUME Ranges, Flags, Idle, ModeSpares, [Next]_vars
  PROVE  ModeSpares'
<1> SUFFICES ASSUME "flow" \notin spoilt' PROVE \A s \in Tasks : op'[s] = "mode" => Spares(todo'[s], "gmode")
  BY Zenon DEF ModeSpares
<1>1. \A s \in Tasks : op[s] = "mode" => Spares(todo[s], "gmode")
  BY StaysSpoilt DEF ModeSpares
<1>2. CASE Sleep \/ Wake \/ UNCHANGED vars
  BY <1>1, <1>2, Zenon DEF Sleep, Wake, vars
<1>3. ASSUME NEW t \in Tasks, Send(t) PROVE \A s \in Tasks : op'[s] = "mode" => Spares(todo'[s], "gmode")
  <2>1. op' = op
    BY <1>3, Zenon DEF Send
  <2>2. PICK q \in Seq(Messages) : q = todo[t]
    BY <1>3, SendTail, Zenon
  <2>3. q # << >> /\ todo'[t] = Tail(q) /\ \A s \in Tasks \ {t} : todo'[s] = todo[s]
    BY <1>3, <2>2, SendTail, Zenon
  <2>4. Spares(q, "gmode") => Spares(Tail(q), "gmode")
    BY <2>3, TailSpares, Zenon
  <2> QED
    BY <1>1, <2>1, <2>2, <2>3, <2>4, Zenon
<1>4. ASSUME NEW t \in Tasks, Return(t) PROVE \A s \in Tasks : op'[s] = "mode" => Spares(todo'[s], "gmode")
  <2>1. todo' = todo /\ op'[t] = "none" /\ \A s \in Tasks \ {t} : op'[s] = op[s]
    BY <1>4 DEF Return, Ranges
  <2> QED
    BY <1>1, <2>1, Zenon
<1>5. ASSUME NEW t \in Tasks, Turns(t)
      PROVE  \A s \in Tasks : op'[s] = "mode" => Spares(todo'[s], "gmode")
  <2>1. \E o, R : Does(t, o, R) /\ (o = "mode" => "gmode" \notin R)
    BY <1>5, ModeTurns, Zenon
  <2>2. PICK o, q : Turn(t, o, q) /\ (o = "mode" => Spares(q, "gmode"))
    <3>1. "gmode" \in Registers
      BY DEF Registers
    <3> QED
      BY <2>1, <3>1, Zenon DEF Does
  <2>3. /\ todo'[t] = q /\ op'[t] = o
        /\ \A s \in Tasks \ {t} : todo'[s] = todo[s] /\ op'[s] = op[s]
    BY <2>2 DEF Turn, Ranges
  <2> QED
    BY <1>1, <2>2, <2>3, Zenon
<1> QED
  BY <1>2, <1>3, <1>4, <1>5, Cases, Zenon

LEMMA NextOneTermios ==
  ASSUME Ranges, Flags, Idle, OneTermios, [Next]_vars
  PROVE  OneTermios'
<1>1. ASSUME op' = op PROVE OneTermios'
  BY <1>1 DEF OneTermios
<1>2. ASSUME NEW t \in Tasks, NEW o, op' = [op EXCEPT ![t] = o],
             o = "termios" => \A s \in Tasks : op[s] # "termios"
      PROVE  OneTermios'
  BY <1>2 DEF OneTermios, Ranges
<1>3. ASSUME NEW t \in Tasks, Turns(t) PROVE OneTermios'
  <2>1. CASE Begins(t)
    BY <1>2, <2>1, Beginning, Zenon
  <2>2. CASE GoesOn(t)
    BY <1>1, <2>2, GoingOn, Zenon
  <2>3. CASE Dies(t)
    BY <1>1, <2>3, Zenon DEF Dies
  <2> QED
    BY <1>3, <2>1, <2>2, <2>3, Zenon DEF Turns
<1>4. ASSUME NEW t \in Tasks, Send(t) PROVE OneTermios'
  BY <1>1, <1>4, Zenon DEF Send
<1>5. ASSUME NEW t \in Tasks, Return(t) PROVE OneTermios'
  <2>1. op' = [op EXCEPT ![t] = "none"] /\ "none" # "termios"
    BY <1>5, Zenon DEF Return
  <2> QED
    BY <1>2, <2>1, Zenon
<1>6. CASE Sleep \/ Wake \/ UNCHANGED vars
  BY <1>1, <1>6, Zenon DEF Sleep, Wake, vars
<1> QED
  BY <1>3, <1>4, <1>5, <1>6, Cases, Zenon

Order == Ranges /\ Flags /\ Idle /\ Scope /\ Alone /\ ModeSpares /\ OneTermios

LEMMA Ordered == Spec => []Order
<1>1. Init => Order
  <2> SUFFICES ASSUME Init PROVE Order
    OBVIOUS
  <2>1. /\ \A t \in Tasks : op[t] = "none" /\ at[t] = "end" /\ todo[t] = << >>
    BY SMT DEF Init
  <2>2. Writes("none") = {}
    BY DEF Writes
  <2>3. Idle /\ OneTermios
    BY <2>1 DEF Idle, OneTermios
  <2>4. Scope /\ Alone /\ ModeSpares
    BY <2>1, <2>2, Empty DEF Scope, Alone, Active, ModeSpares
  <2> QED
    BY <2>3, <2>4, InitTypes, Zenon DEF Order
<1>2. Order /\ [Next]_vars => Order'
  BY NextRanges, NextFlags, NextIdle, NextScope, NextAlone, NextModeSpares, NextOneTermios, Zenon DEF Order
<1> QED
  BY <1>1, <1>2, PTL DEF Spec

-----------------------------------------------------------------------------
\* A register carries a set of values when every message for it has one of
\* those, and it has one of them now or when its messages have been sent.
Carried(r, S) ==
  /\ \A t \in Tasks : Agrees(todo[t], r, S)
  /\ dev[r] \in S \/ \E t \in Tasks : ~Spares(todo[t], r)

LEMMA QuietCarries ==
  ASSUME Order, Quiet, NEW r, NEW S, Carried(r, S)
  PROVE  dev[r] \in S
<1>1. \A t \in Tasks : todo[t] = << >>
  BY Zenon DEF Order, Idle, Quiet
<1> QED
  BY <1>1, Empty, Zenon DEF Carried

LEMMA StillCarries ==
  ASSUME NEW r, NEW S, Carried(r, S), UNCHANGED <<todo, dev>>
  PROVE  Carried(r, S)'
  BY Zenon DEF Carried

\* A larger set is carried too.
LEMMA SendCarries ==
  ASSUME Ranges, Flags, NEW r \in Registers, NEW S, Carried(r, S),
         NEW t \in Tasks, Send(t), Group(r) \notin spoilt'
  PROVE  Carried(r, S)'
<1>1. PICK q \in Seq(Messages) : q = todo[t]
  BY SendTail, Zenon
<1>2. q # << >> /\ todo'[t] = Tail(q) /\ \A s \in Tasks \ {t} : todo'[s] = todo[s]
  BY <1>1, SendTail, Zenon
<1>3. /\ Agrees(Tail(q), r, S) /\ (r \in DOMAIN Head(q) => Head(q)[r] \in S)
      /\ ~Spares(q, r) => ~Spares(Tail(q), r) \/ r \in DOMAIN Head(q)
  BY <1>1, <1>2, TailSpares, Zenon DEF Carried
<1>4. CASE awake
  <2>1. dev'[r] = IF r \in DOMAIN Head(q) THEN Head(q)[r] ELSE dev[r]
    BY <1>1, <1>4 DEF Send
  <2>2. r \in DOMAIN Head(q) => dev'[r] \in S
    BY <1>3, <2>1, Zenon
  <2>3. r \notin DOMAIN Head(q) => dev'[r] = dev[r]
    BY <2>1, Zenon
  <2>4. \A s \in Tasks : Agrees(todo'[s], r, S)
    BY <1>2, <1>3, Zenon DEF Carried
  <2>5. dev'[r] \in S \/ \E s \in Tasks : ~Spares(todo'[s], r)
    BY <1>1, <1>2, <1>3, <2>2, <2>3, Zenon DEF Carried
  <2> QED
    BY <2>4, <2>5, Zenon DEF Carried
<1>5. CASE ~awake
  <2>1. dev' = dev /\ spoilt' = spoilt \cup {Group(x) : x \in DOMAIN Head(q)}
    BY <1>1, <1>5, Zenon DEF Send
  <2>2. r \notin DOMAIN Head(q)
    BY <2>1, Zenon
  <2>3. \A s \in Tasks : Agrees(todo'[s], r, S)
    BY <1>2, <1>3, Zenon DEF Carried
  <2>4. dev'[r] \in S \/ \E s \in Tasks : ~Spares(todo'[s], r)
    BY <1>1, <1>2, <1>3, <2>1, <2>2, Zenon DEF Carried
  <2> QED
    BY <2>3, <2>4, Zenon DEF Carried
<1> QED
  BY <1>4, <1>5

\* A turn that agrees with what is carried; one that does not touch it.
LEMMA TurnCarries ==
  ASSUME Ranges, NEW r, NEW S, Carried(r, S), NEW t \in Tasks, NEW o, NEW q,
         Turn(t, o, q), Agrees(q, r, S)
  PROVE  Carried(r, S)'
<1>1. todo'[t] = q /\ todo[t] = << >> /\ dev' = dev /\ \A s \in Tasks \ {t} : todo'[s] = todo[s]
  BY DEF Turn, Ranges
<1>2. Spares(todo[t], r)
  BY <1>1, Empty, Zenon
<1> QED
  BY <1>1, <1>2, Zenon DEF Carried

LEMMA DoesCarry ==
  ASSUME Ranges, NEW r \in Registers, NEW S, Carried(r, S), NEW t \in Tasks, NEW o, NEW R,
         Does(t, o, R), r \notin R
  PROVE  Carried(r, S)'
<1>1. PICK q \in Seq(Messages) : Turn(t, o, q) /\ Spares(q, r)
  BY Zenon DEF Does
<1>2. Agrees(q, r, S)
  BY <1>1, SparesAgrees, Zenon
<1> QED
  BY <1>1, <1>2, TurnCarries, Zenon

\* A turn that sets a register no other handler has a message for.
LEMMA TurnSets ==
  ASSUME Ranges, NEW r, NEW S, NEW t \in Tasks, NEW o, NEW q, Turn(t, o, q),
         \A s \in Tasks \ {t} : Spares(todo[s], r), Agrees(q, r, S), ~Spares(q, r)
  PROVE  Carried(r, S)'
<1>1. todo'[t] = q /\ \A s \in Tasks \ {t} : todo'[s] = todo[s]
  BY DEF Turn, Ranges
<1>2. \A s \in Tasks \ {t} : Agrees(todo'[s], r, S)
  BY <1>1, SparesAgrees, Zenon
<1> QED
  BY <1>1, <1>2, Zenon DEF Carried

\* Which turns may set a register.
LineTurn(t) ==
  \/ \E place \in {"end", "divide"} : TermiosLine(t, place)
  \/ \E rate \in Rates, place \in {"end", "divide"} : AnyBaudRate(t, rate, place)

PinTurn(t) ==
  \/ TermiosLines(t) \/ TiocmWrite(t)
  \/ \E ok \in BOOLEAN : Activate(t, ok) \/ ActivateEnds(t, ok) \/ Shutdown(t, ok)
  \/ \E g \in Gpios, high \in BOOLEAN : GpioSet(t, g, high)

LEMMA SparedTurns ==
  ASSUME Order, NEW t \in Tasks, Turns(t), NEW r \in Registers
  PROVE  \/ \E o, R : Does(t, o, R) /\ r \notin R
         \/ r \in UartRegs
         \/ r \in CodingRegs /\ LineTurn(t)
         \/ r \in Lines /\ PinTurn(t)
         \/ r \in FlowRegs /\ TermiosLines(t)
         \/ r = "gmode" /\ (GpioModeAccess(t) \/ GpioDirMode(t))
         \/ r = "wide" /\ (TermiosWide(t) \/ \E on \in BOOLEAN : PreciseWide(t, on))
         \/ r = "dir" /\ \E g \in Gpios, out \in BOOLEAN : GpioDir(t, g, out)
<1> USE DEF Order
<1>1. CASE \E new \in Termios : SetTermios(t, new)
  BY <1>1, TermiosTurns, Zenon
<1>2. CASE TermiosLines(t)
  <2>1. Does(t, "termios", Lines \cup FlowRegs) /\ PinTurn(t)
    BY <1>2, TermiosTurns, Zenon DEF PinTurn
  <2> QED
    BY <1>2, <2>1
<1>3. CASE TermiosWide(t)
  BY <1>3, TermiosTurns
<1>4. CASE \E place \in {"end", "divide"} : TermiosLine(t, place)
  <2>1. Does(t, "termios", UartRegs \cup CodingRegs) /\ LineTurn(t)
    BY <1>4, TermiosTurns, Zenon DEF LineTurn
  <2> QED
    BY <2>1
<1>5. CASE \E rate \in Rates, place \in {"end", "divide"} : AnyBaudRate(t, rate, place)
  <2>1. Does(t, "baud", UartRegs \cup CodingRegs) /\ LineTurn(t)
    BY <1>5, IoctlTurns, Zenon DEF LineTurn
  <2> QED
    BY <2>1
<1>6. CASE PreciseFlags(t) \/ Loopback(t) \/ GpioMode(t) \/ GpioModeFaults(t)
  BY <1>6, IoctlTurns, Zenon
<1>7. CASE \E on \in BOOLEAN : PreciseWide(t, on)
  BY <1>7, IoctlTurns
<1>12. CASE GpioModeAccess(t)
  BY <1>12, IoctlTurns
<1>8. CASE \E set, clear \in SUBSET Lines : TiocmSet(t, set, clear)
  <2>1. r \notin {}
    OBVIOUS
  <2> QED
    BY <1>8, <2>1, LinesTurns, Zenon
<1>9. CASE \/ TiocmWrite(t) \/ (\E ok \in BOOLEAN : Activate(t, ok))
           \/ (\E ok \in BOOLEAN : ActivateEnds(t, ok)) \/ (\E got \in BOOLEAN : Shutdown(t, got))
           \/ \E g \in Gpios, high \in BOOLEAN : GpioSet(t, g, high)
  <2>1. PinTurn(t)
    BY <1>9, Zenon DEF PinTurn
  <2>2. \E o : Does(t, o, Lines)
    BY <1>9, LinesTurns, Zenon
  <2> QED
    BY <2>1, <2>2, Zenon
<1>10. CASE \E g \in Gpios, out \in BOOLEAN : GpioDir(t, g, out)
  <2>1. \E o : Does(t, o, {"dir"})
    BY <1>10, LinesTurns, Zenon
  <2> QED
    BY <1>10, <2>1
<1>11. CASE GpioDirMode(t)
  BY <1>11, LinesTurns
<1>13. CASE Dies(t)
  <2>1. r \notin {}
    OBVIOUS
  <2> QED
    BY <1>13, <2>1, LinesTurns, Zenon
<1>14. CASE Begins(t)
  BY <1>1, <1>5, <1>6, <1>8, <1>9, <1>10, <1>14, Zenon DEF Begins
<1>15. CASE GoesOn(t)
  BY <1>2, <1>3, <1>4, <1>6, <1>7, <1>9, <1>11, <1>12, <1>15, Zenon DEF GoesOn
<1> QED
  BY <1>13, <1>14, <1>15, Zenon DEF Turns

\* The turns that leave a register alone.
LEMMA Bystanders ==
  ASSUME Order, NEW r \in Registers, NEW S, Carried(r, S), [Next]_vars, Group(r) \notin spoilt',
         \A t \in Tasks : Turns(t) => \E o, R : Does(t, o, R) /\ r \notin R
  PROVE  Carried(r, S)'
<1>1. CASE Sleep \/ Wake \/ UNCHANGED vars
  BY <1>1, StillCarries, Zenon DEF Sleep, Wake, vars
<1>2. ASSUME NEW t \in Tasks, Send(t) PROVE Carried(r, S)'
  BY <1>2, SendCarries, Zenon DEF Order
<1>3. ASSUME NEW t \in Tasks, Return(t) PROVE Carried(r, S)'
  BY <1>3, StillCarries, Zenon DEF Return
<1>4. ASSUME NEW t \in Tasks, Turns(t) PROVE Carried(r, S)'
  BY <1>4, DoesCarry, Zenon DEF Order
<1> QED
  BY <1>1, <1>2, <1>3, <1>4, Cases, Zenon

\* While what a register is about is not spoilt, a handler that writes it is
\* the only one that has messages for it.
LEMMA OthersSpare ==
  ASSUME Order, Order', NEW t \in Tasks, NEW o, NEW R, Does(t, o, R), NEW r \in Registers,
         Group(r) \in Shared, Group(r) \notin spoilt', Group(r) \in Writes(o), at'[t] # "dead"
  PROVE  \A s \in Tasks \ {t} : Spares(todo[s], r)
<1>1. \A p \in Owners(r) : Group(r) \in Writes(p) \/ (r = "gmode" /\ p = "mode" /\ Group(r) = "flow")
  BY SMT DEF Owners, Group, Writes, UartRegs, CodingRegs, Lines, Registers, Shared
<1>2. op'[t] = o /\ \A s \in Tasks \ {t} : op'[s] = op[s] /\ todo'[s] = todo[s]
  BY DEF Order, Ranges, Does, Turn
<1>3. ASSUME NEW s \in Tasks \ {t} PROVE Spares(todo[s], r)
  <2>1. CASE at'[s] = "dead"
    <3>1. todo'[s] = << >>
      BY <2>1, Zenon DEF Order, Idle
    <3> QED
      BY <1>2, <3>1, Empty, Zenon
  <2>2. CASE at'[s] # "dead"
    <3>1. Group(r) \notin Writes(op[s])
      BY <1>2, <2>2, Zenon DEF Order, Alone, Active
    <3>2. CASE op[s] = "mode" /\ r = "gmode" /\ Group(r) = "flow"
      <4>1. Spares(todo'[s], r)
        BY <1>2, <3>2, Zenon DEF Order, ModeSpares
      <4> QED
        BY <1>2, <4>1, Zenon
    <3> QED
      BY <1>1, <3>1, <3>2, Zenon DEF Order, Scope
  <2> QED
    BY <2>1, <2>2
<1> QED
  BY <1>3

-----------------------------------------------------------------------------
(* The line coding.                                                        *)

\* SetLine(l) sets r to the value in S.
Coded(r, l, S) ==
  \/ V141x /\ r = "div" /\ S = {Divisor(l.rate)}
  \/ V141x /\ r = "mask" /\ S = {MaskIndex(l.rate)}
  \/ V141x /\ r = "format" /\ S = {l.bits}
  \/ ~V141x /\ r = "coding" /\ S = {l}

LEMMA CodedSets ==
  ASSUME NEW l \in LineSet, NEW r, NEW S, Coded(r, l, S)
  PROVE  /\ r \in CodingRegs /\ r \in Registers /\ Group(r) = "coding"
         /\ ~Spares(SetLine(l), r) /\ Agrees(SetLine(l), r, S)
<1>1. r \in CodingRegs
  BY Zenon DEF Coded, CodingRegs
<1>2. r \in Registers /\ Group(r) = "coding"
  BY <1>1, SMT DEF CodingRegs, Registers, Group, Lines
<1>3. ~Spares(SetLine(l), r) /\ Agrees(SetLine(l), r, S)
  <2>1. CASE V141x /\ r = "div" /\ S = {Divisor(l.rate)}
    BY <1>2, <2>1, LineSpares, Zenon
  <2>2. CASE V141x /\ r = "mask" /\ S = {MaskIndex(l.rate)}
    BY <1>2, <2>2, LineSpares, Zenon
  <2>3. CASE V141x /\ r = "format" /\ S = {l.bits}
    BY <1>2, <2>3, LineSpares, Zenon
  <2>4. CASE ~V141x /\ r = "coding" /\ S = {l}
    BY <1>2, <2>4, LineSpares, Zenon
  <2> QED
    BY <2>1, <2>2, <2>3, <2>4, Zenon DEF Coded
<1> QED
  BY <1>1, <1>2, <1>3

\* The rate 0 stops a handler before it sends one.
CodingInv ==
  "coding" \notin spoilt /\ ~(V141x /\ line.rate = 0) =>
    \A r, S : Coded(r, line, S) => Carried(r, S)

LEMMA ProductStays ==
  ASSUME Order, [Next]_vars
  PROVE  product' = product
<1>1. CASE Sleep \/ Wake \/ UNCHANGED vars
  BY <1>1, Zenon DEF Sleep, Wake, vars
<1>2. ASSUME NEW t \in Tasks, Send(t) \/ Return(t) PROVE product' = product
  BY <1>2, Zenon DEF Send, Return
<1>3. ASSUME NEW t \in Tasks, Turns(t) PROVE product' = product
  BY <1>3, OwnTurns, Zenon DEF Does, Turn, Order
<1> QED
  BY <1>1, <1>2, <1>3, Cases, Zenon

\* Only two handlers change the line coding; the others send none.
LEMMA OthersKeepLine ==
  ASSUME Order, [Next]_vars,
         \A t \in Tasks : ~LineTurn(t)
  PROVE  /\ line' = line
         /\ \A r \in CodingRegs : \A t \in Tasks : Turns(t) => \E o, R : Does(t, o, R) /\ r \notin R
<1>1. Sleep \/ Wake \/ UNCHANGED vars => line' = line
  BY Zenon DEF Sleep, Wake, vars, driverVars
<1>2. ASSUME NEW t \in Tasks, Send(t) \/ Return(t) PROVE line' = line
  BY <1>2, Zenon DEF Send, Return, driverVars
<1>3. ASSUME NEW t \in Tasks, Turns(t) PROVE line' = line
  BY <1>3, Zenon DEF Turns, Begins, GoesOn, LineTurn, SetTermios, TermiosLines, TermiosWide, PreciseFlags,
              driverVars, PreciseWide, Loopback, GpioMode, GpioModeAccess, GpioModeFaults, TiocmSet,
              TiocmWrite, Activate, ActivateEnds, Shutdown, GpioDir, GpioSet, GpioDirMode, Dies
<1>4. ASSUME NEW r \in CodingRegs, NEW t \in Tasks, Turns(t) PROVE \E o, R : Does(t, o, R) /\ r \notin R
  <2>1. r \in Registers /\ r \notin UartRegs /\ r \notin Lines /\ r \notin FlowRegs
        /\ r # "gmode" /\ r # "wide" /\ r # "dir"
    BY DEF CodingRegs, UartRegs, Lines, FlowRegs, Registers
  <2> QED
    BY <1>4, <2>1, SparedTurns, Zenon
<1> QED
  BY <1>1, <1>2, <1>3, <1>4, Cases, Zenon

LEMMA NextCoding ==
  ASSUME Order, Order', CodingInv, [Next]_vars
  PROVE  CodingInv'
<1> SUFFICES ASSUME "coding" \notin spoilt', ~(V141x /\ line.rate = 0)', NEW r, NEW S, Coded(r, line, S)'
             PROVE  Carried(r, S)'
  BY Zenon DEF CodingInv
<1>1. PICK l \in LineSet : l = line'
  BY Zenon DEF Order, Ranges
<1>2. V141x' <=> V141x
  BY ProductStays DEF V141x
<1>13. \A place \in {"end", "divide"} : TakesRate(l, place) => place = "end"
  BY <1>1, <1>2, Zenon DEF TakesRate
<1>3. Coded(r, l, S)
  BY <1>1, <1>2, Zenon DEF Coded
<1>4. /\ r \in CodingRegs /\ r \in Registers /\ Group(r) = "coding"
      /\ ~Spares(SetLine(l), r) /\ Agrees(SetLine(l), r, S)
  BY <1>3, CodedSets, Zenon
<1>5. "coding" \notin spoilt
  BY StaysSpoilt DEF Order
<1>6. line = l => Carried(r, S)
  BY <1>1, <1>2, <1>3, <1>5, Zenon DEF CodingInv
<1>7. PICK a : a = SetLine(l)
  BY Zenon
<1>8. a \in Seq(Messages)
  BY <1>7, LineTyped, Zenon
<1>9. /\ Disable \in Seq(Messages) /\ Enable \in Seq(Messages) /\ Spares(Disable, r) /\ Spares(Enable, r)
  <2>1. r \in Registers \ UartRegs
    BY <1>4 DEF CodingRegs, UartRegs
  <2> QED
    BY <2>1, EnableTyped, Sent, Zenon
<1>14. "coding" \in Writes("baud") /\ "coding" \in Writes("termios") /\ "coding" \in Shared
  BY SMT DEF Writes, Shared
<1>15. "end" # "dead" /\ \A t \in Tasks : at' = [at EXCEPT ![t] = "end"] => at'[t] = "end"
  BY DEF Order, Ranges
<1>10. ASSUME NEW t \in Tasks, NEW rate \in Rates, NEW place \in {"end", "divide"},
              AnyBaudRate(t, rate, place)
       PROVE  Carried(r, S)'
  <2>0. place = "end"
    BY <1>1, <1>10, <1>13, Zenon DEF AnyBaudRate
  <2>1. PICK q : q = Disable \o a \o Enable
    BY Zenon
  <2>2. ~Spares(q, r) /\ Agrees(q, r, S)
    <3>1. PICK d : d = Disable \o a
      BY Zenon
    <3>2. d \in Seq(Messages) /\ ~Spares(d, r) /\ Agrees(d, r, S)
      BY <1>4, <1>7, <1>8, <1>9, <3>1, Joined, SparesAgrees, Concat, Zenon
    <3> QED
      BY <1>9, <2>1, <3>1, <3>2, Joined, SparesAgrees, Zenon
  <2>3. Turn(t, "baud", q)
    <3>1. /\ todo[t] = << >> /\ Queue(t, Disable \o (SetLine(line') \o Enable))
          /\ op' = [op EXCEPT ![t] = "baud"] /\ UNCHANGED <<dev, product>>
      BY <1>10, <2>0, Zenon DEF AnyBaudRate, Begin, Idle, Order
    <3>2. Disable \o (a \o Enable) = Disable \o a \o Enable
      BY <1>8, <1>9
    <3> QED
      BY <1>1, <1>7, <2>1, <3>1, <3>2, Zenon DEF Turn, Queue
  <2>4. Does(t, "baud", UartRegs \cup CodingRegs)
    BY <1>10, IoctlTurns, Zenon DEF Order
  <2>5. at' = [at EXCEPT ![t] = "end"]
    BY <1>10, <2>0, Zenon DEF AnyBaudRate, Begin
  <2>6. \A s \in Tasks \ {t} : Spares(todo[s], r)
    BY <1>4, <1>14, <1>15, <2>4, <2>5, OthersSpare, Zenon
  <2> QED
    BY <2>2, <2>3, <2>6, TurnSets, Zenon DEF Order
<1>11. ASSUME NEW t \in Tasks, NEW place \in {"end", "divide"}, TermiosLine(t, place) PROVE Carried(r, S)'
  <2>0. place = "end"
    BY <1>1, <1>11, <1>13, Zenon DEF TermiosLine
  <2>1. /\ todo[t] = << >> /\ op[t] = "termios" /\ op' = op /\ UNCHANGED <<dev, product>>
        /\ line' = newline /\ at' = [at EXCEPT ![t] = "end"]
        /\ newline # line => Queue(t, SetLine(newline) \o Enable)
        /\ newline = line => Queue(t, Enable)
    BY <1>11, <2>0, Zenon DEF TermiosLine, Goes
  <2>2. op' = [op EXCEPT ![t] = "termios"]
    BY <2>1, Unmoved, Zenon DEF Order
  <2>3. CASE newline # line
    <3>1. PICK q : q = a \o Enable
      BY Zenon
    <3>2. ~Spares(q, r) /\ Agrees(q, r, S)
      BY <1>4, <1>7, <1>8, <1>9, <3>1, Joined, SparesAgrees, Zenon
    <3>3. Turn(t, "termios", q)
      BY <1>1, <1>7, <2>1, <2>2, <2>3, <3>1, Zenon DEF Turn, Queue
    <3>4. Does(t, "termios", UartRegs \cup CodingRegs)
      BY <1>11, TermiosTurns, Zenon DEF Order
    <3>6. \A s \in Tasks \ {t} : Spares(todo[s], r)
      BY <1>4, <1>14, <1>15, <2>1, <3>4, OthersSpare, Zenon
    <3> QED
      BY <3>2, <3>3, <3>6, TurnSets, Zenon DEF Order
  <2>4. CASE newline = line
    <3>2. PICK q : q = Enable
      BY Zenon
    <3>3. Spares(q, r)
      BY <1>9, <3>2, Zenon
    <3>4. Turn(t, "termios", q)
      BY <2>1, <2>2, <2>4, <3>2, Zenon DEF Turn, Queue
    <3>5. Carried(r, S)
      BY <1>1, <1>6, <2>1, <2>4, Zenon
    <3> QED
      BY <3>3, <3>4, <3>5, SparesAgrees, TurnCarries, Zenon DEF Order
  <2> QED
    BY <2>3, <2>4
<1>12. CASE \A t \in Tasks : ~LineTurn(t)
  <2>1. line' = line /\ \A t \in Tasks : Turns(t) => \E o, R : Does(t, o, R) /\ r \notin R
    BY <1>4, <1>12, OthersKeepLine, Zenon
  <2>2. Carried(r, S) /\ Group(r) \notin spoilt'
    BY <1>1, <1>4, <1>6, <2>1, Zenon
  <2> QED
    BY <1>4, <2>1, <2>2, Bystanders, Zenon
<1> QED
  BY <1>10, <1>11, <1>12, Zenon DEF LineTurn

\* The device has the line coding the driver remembers, but for the rate 0:
\* no set_termios leaves it out because it compares with a coding that is
\* still on its way, and for the 141x family the divisor and the masks are the
\* quotient, in the 24 and 5 bits they have
\* (xr_usb_serial_common.c:1051-1059, 1170-1182, xr_usb_serial_hal.c:391-409).
THEOREM CodingIsSet == Spec => []CodingFollows
<1>1. Init => CodingInv
  <2> SUFFICES ASSUME Init, NEW r, NEW S, Coded(r, line, S) PROVE Carried(r, S)
    BY Zenon DEF CodingInv
  <2>1. /\ line = [rate |-> 9600, bits |-> 8] /\ \A t \in Tasks : todo[t] = << >>
        /\ dev["div"] = Divisor(9600) /\ dev["mask"] = MaskIndex(9600) /\ dev["format"] = 8
        /\ dev["coding"] = line
    BY SMT DEF Init
  <2>2. line.rate = 9600 /\ line.bits = 8
    BY <2>1
  <2>3. dev[r] \in S
    BY <2>1, <2>2, SMT DEF Coded
  <2>4. \A t \in Tasks : Agrees(todo[t], r, S)
    <3>1. \A t \in Tasks : todo[t] = << >>
      BY <2>1, SMT
    <3> QED
      BY <3>1, Empty, Zenon
  <2> QED
    BY <2>3, <2>4, Zenon DEF Carried
<1>2. Order /\ CodingInv /\ Order' /\ [Next]_vars => CodingInv'
  BY NextCoding
<1>3. Order /\ CodingInv => CodingFollows
  <2> SUFFICES ASSUME Order, CodingInv, Quiet, "coding" \notin spoilt
      PROVE  IF V141x
             THEN line.rate # 0 =>
                    /\ 32 * dev["div"] + dev["mask"] = ((32 * 48000000) \div line.rate) % 2^29
                    /\ dev["format"] = line.bits
             ELSE dev["coding"] = line
    BY SMT DEF CodingFollows
  <2>1. ASSUME ~(V141x /\ line.rate = 0), NEW r, NEW S, Coded(r, line, S) PROVE dev[r] \in S
    BY <2>1, QuietCarries, Zenon DEF CodingInv
  <2>2. ASSUME V141x, line.rate # 0
        PROVE  /\ 32 * dev["div"] + dev["mask"] = ((32 * 48000000) \div line.rate) % 2^29
               /\ dev["format"] = line.bits
    <3>1. /\ Coded("div", line, {Divisor(line.rate)}) /\ Coded("mask", line, {MaskIndex(line.rate)})
          /\ Coded("format", line, {line.bits})
      BY <2>2, Zenon DEF Coded
    <3>2. dev["div"] \in {Divisor(line.rate)}
      BY <2>1, <2>2, <3>1, Zenon
    <3>3. dev["mask"] \in {MaskIndex(line.rate)}
      BY <2>1, <2>2, <3>1, Zenon
    <3>4. dev["format"] \in {line.bits}
      BY <2>1, <2>2, <3>1, Zenon
    <3>5. PICK rate \in Nat \ {0} : rate = line.rate
      BY <2>2 DEF Order, Ranges, LineSet
    <3>6. dev["div"] = Divisor(rate) /\ dev["mask"] = MaskIndex(rate) /\ dev["format"] = line.bits
      BY <3>2, <3>3, <3>4, <3>5, Zenon
    <3>7. 32 * Divisor(rate) + MaskIndex(rate) = ((32 * 48000000) \div rate) % 2^29
      BY ExactQuotient, SMT
    <3>8. 32 * dev["div"] + dev["mask"] = ((32 * 48000000) \div line.rate) % 2^29
      BY <3>5, <3>6, <3>7, SMT
    <3> QED
      BY <3>6, <3>8, SMT
  <2>3. CASE ~V141x
    <3>1. Coded("coding", line, {line})
      BY <2>3, Zenon DEF Coded
    <3>2. dev["coding"] \in {line}
      BY <2>1, <2>3, <3>1, Zenon
    <3> QED
      BY <2>3, <3>2, SMT
  <2> QED
    BY <2>2, <2>3, SMT
<1> QED
  BY <1>1, <1>2, <1>3, Ordered, PTL DEF Spec

-----------------------------------------------------------------------------
(* The UART.  Handlers that overlap spoil nothing here: whoever disturbs   *)
(* it has messages that set it right behind those that disturb it, or is   *)
(* at a place from which it goes on to queue them, unless it dies there.   *)

Gives(m, r, S) == r \in DOMAIN m /\ m[r] \in S
Takes(m, r, S) == r \in DOMAIN m /\ m[r] \notin S

Mends(q, r, S) == \E k \in 1..Len(q) : Gives(q[k], r, S)
Restored(q, r, S) ==
  \A k \in 1..Len(q) : Takes(q[k], r, S) => \E j \in 1..Len(q) : j > k /\ Gives(q[j], r, S)

Enabling(r, S) ==
  \/ r = "uart" /\ S = {v \in Values : v}
  \/ V141x /\ r = "urm" /\ S = {"txrx"}

LEMMA RestoredLater ==
  ASSUME NEW a \in Seq(Messages), NEW b \in Seq(Messages), NEW r, NEW S,
         Mends(b, r, S), Restored(b, r, S)
  PROVE  Mends(a \o b, r, S) /\ Restored(a \o b, r, S)
<1> DEFINE c == a \o b
           n == Len(a)
<1>1. /\ n \in Nat /\ Len(c) = n + Len(b) /\ Len(b) \in Nat
      /\ \A k \in 1..Len(b) : c[n + k] = b[k]
  OBVIOUS
<1> HIDE DEF c, n
<1>2. \A k \in 1..Len(b) : n + k \in 1..Len(c)
  BY <1>1
<1>3. PICK i \in 1..Len(b) : Gives(b[i], r, S)
  BY Zenon DEF Mends
<1>4. n + i \in 1..Len(c) /\ Gives(c[n + i], r, S) /\ n + i > n
  <2>1. c[n + i] = b[i]
    BY <1>1, <1>3, Zenon
  <2>2. Gives(c[n + i], r, S)
    BY <1>3, <2>1, Zenon
  <2> QED
    BY <1>1, <1>2, <2>2
<1>5. ASSUME NEW k \in 1..Len(c), Takes(c[k], r, S)
      PROVE  \E j \in 1..Len(c) : j > k /\ Gives(c[j], r, S)
  <2>1. CASE k <= n
    <3>1. n + i > k
      BY <1>1, <2>1
    <3> QED
      BY <1>4, <3>1, Zenon
  <2>2. CASE k > n
    <3>1. k - n \in 1..Len(b) /\ n + (k - n) = k
      BY <1>1, <2>2
    <3>2. Takes(b[k - n], r, S)
      BY <1>1, <1>5, <3>1, Zenon
    <3>3. PICK j \in 1..Len(b) : j > k - n /\ Gives(b[j], r, S)
      BY <3>1, <3>2, Zenon DEF Restored
    <3>4. n + j \in 1..Len(c) /\ n + j > k
      BY <1>1, <1>2, <3>3
    <3>5. c[n + j] = b[j]
      BY <1>1, <3>3, Zenon
    <3> QED
      BY <3>3, <3>4, <3>5, Zenon
  <2> QED
    BY <1>1, <2>1, <2>2
<1>6. Mends(c, r, S)
  BY <1>4, Zenon DEF Mends
<1>7. Restored(c, r, S)
  BY <1>5, Zenon DEF Restored
<1> QED
  BY <1>6, <1>7, Zenon DEF c

LEMMA MendedBefore ==
  ASSUME NEW a \in Seq(Messages), NEW b \in Seq(Messages), NEW r, NEW S,
         Mends(a, r, S), Restored(a, r, S), Spares(b, r)
  PROVE  Mends(a \o b, r, S) /\ Restored(a \o b, r, S)
<1> DEFINE c == a \o b
           n == Len(a)
<1>1. /\ n \in Nat /\ Len(c) = n + Len(b) /\ Len(b) \in Nat
      /\ \A k \in 1..n : c[k] = a[k]
      /\ \A k \in 1..Len(b) : c[n + k] = b[k]
  OBVIOUS
<1> HIDE DEF c
<1>2. \A k \in 1..n : k \in 1..Len(c)
  BY <1>1
<1>3. Mends(c, r, S)
  BY <1>1, <1>2, Zenon DEF Mends
<1>4. ASSUME NEW k \in 1..Len(c), Takes(c[k], r, S)
      PROVE  \E j \in 1..Len(c) : j > k /\ Gives(c[j], r, S)
  <2>1. CASE k <= n
    <3>1. k \in 1..n
      BY <1>1, <2>1
    <3>2. PICK j \in 1..n : j > k /\ Gives(a[j], r, S)
      BY <1>1, <1>4, <3>1, Zenon DEF Restored
    <3> QED
      BY <1>1, <1>2, <3>2, Zenon
  <2>2. CASE k > n
    <3>1. k - n \in 1..Len(b) /\ n + (k - n) = k
      BY <1>1, <2>2
    <3>2. Takes(b[k - n], r, S)
      BY <1>1, <1>4, <3>1, Zenon
    <3> QED
      BY <3>1, <3>2, Zenon DEF Spares, Takes
  <2>3. k <= n \/ k > n
    BY <1>1
  <2> QED
    BY <2>1, <2>2, <2>3, Zenon
<1>5. Restored(c, r, S)
  BY <1>4, Zenon DEF Restored
<1> QED
  BY <1>3, <1>5, Zenon DEF c

LEMMA SparesRestored ==
  ASSUME NEW q, NEW r, NEW S, Spares(q, r)
  PROVE  Restored(q, r, S) /\ ~Mends(q, r, S)
  BY Zenon DEF Spares, Restored, Mends, Takes, Gives

LEMMA RestoredTail ==
  ASSUME NEW q \in Seq(Messages), q # << >>, NEW r, NEW S
  PROVE  /\ Restored(q, r, S) => Restored(Tail(q), r, S)
         /\ Mends(q, r, S) => Mends(Tail(q), r, S) \/ Gives(Head(q), r, S)
         /\ Restored(q, r, S) /\ Takes(Head(q), r, S) => Mends(Tail(q), r, S)
<1> DEFINE p == Tail(q)
<1>1. /\ Head(q) = q[1] /\ Len(q) \in Nat \ {0} /\ Len(p) = Len(q) - 1
      /\ \A k \in 1..Len(p) : p[k] = q[k + 1]
  OBVIOUS
<1> HIDE DEF p
<1>2. \A k \in 1..Len(q) : k > 1 => k - 1 \in 1..Len(p) /\ p[k - 1] = q[k]
  BY <1>1
<1>3. \A k \in 1..Len(p) : k + 1 \in 1..Len(q) /\ q[k + 1] = p[k] /\ k + 1 > 1
  BY <1>1
<1>4. ASSUME Restored(q, r, S) PROVE Restored(p, r, S)
  <2> SUFFICES ASSUME NEW k \in 1..Len(p), Takes(p[k], r, S)
               PROVE  \E j \in 1..Len(p) : j > k /\ Gives(p[j], r, S)
    BY Zenon DEF Restored
  <2>1. Takes(q[k + 1], r, S) /\ k + 1 \in 1..Len(q)
    BY <1>3, Zenon
  <2>2. PICK j \in 1..Len(q) : j > k + 1 /\ Gives(q[j], r, S)
    BY <1>4, <2>1, Zenon DEF Restored
  <2>3. j > 1 /\ j - 1 > k
    BY <2>2
  <2> QED
    BY <1>2, <2>2, <2>3, Zenon
<1>5. Mends(q, r, S) => Mends(p, r, S) \/ Gives(Head(q), r, S)
  <2> SUFFICES ASSUME NEW k \in 1..Len(q), Gives(q[k], r, S), ~Gives(Head(q), r, S)
               PROVE  Mends(p, r, S)
    BY Zenon DEF Mends
  <2>1. k # 1
    BY <1>1, Zenon
  <2>2. k > 1
    BY <2>1
  <2> QED
    BY <1>2, <2>2, Zenon DEF Mends
<1>6. ASSUME Restored(q, r, S), Takes(Head(q), r, S) PROVE Mends(p, r, S)
  <2>1. 1 \in 1..Len(q)
    BY <1>1
  <2>2. PICK j \in 1..Len(q) : j > 1 /\ Gives(q[j], r, S)
    BY <1>1, <1>6, <2>1, Zenon DEF Restored
  <2> QED
    BY <1>2, <2>2, Zenon DEF Mends
<1> QED
  BY <1>4, <1>5, <1>6, Zenon DEF p

LEMMA EnableMends ==
  ASSUME NEW r, NEW S, Enabling(r, S)
  PROVE  Mends(Enable, r, S) /\ Restored(Enable, r, S)
<1>1. /\ Set("urm", "tx") \in Seq(Messages) /\ Set("urm", "txrx") \in Seq(Messages)
      /\ Set("uart", TRUE) \in Seq(Messages)
  BY SetTyped DEF Registers, Values
<1>2. ASSUME NEW x, NEW v, v \in S, r = x PROVE Mends(Set(x, v), r, S) /\ Restored(Set(x, v), r, S)
  <2>1. Len(Set(x, v)) = 1 /\ Set(x, v)[1] = [y \in {x} |-> v]
    BY DEF Set
  <2>2. DOMAIN [y \in {x} |-> v] = {x} /\ [y \in {x} |-> v][x] = v
    OBVIOUS
  <2>3. Gives(Set(x, v)[1], r, S) /\ ~Takes(Set(x, v)[1], r, S)
    BY <1>2, <2>1, <2>2, Zenon DEF Gives, Takes
  <2>4. 1 \in 1..Len(Set(x, v)) /\ \A k \in 1..Len(Set(x, v)) : k = 1
    BY <2>1
  <2> QED
    BY <2>3, <2>4, Zenon DEF Mends, Restored
<1>3. CASE V141x
  <2>1. Enable = Set("urm", "tx") \o Set("uart", TRUE) \o Set("urm", "txrx")
    BY <1>3, Zenon DEF Enable
  <2>2. CASE r = "urm" /\ S = {"txrx"}
    <3>1. "txrx" \in S
      BY <2>2
    <3>2. Mends(Set("urm", "txrx"), r, S) /\ Restored(Set("urm", "txrx"), r, S)
      BY <1>2, <2>2, <3>1, Zenon
    <3>3. PICK a \in Seq(Messages) : a = Set("urm", "tx") \o Set("uart", TRUE)
      BY <1>1, Concat, Zenon
    <3> QED
      BY <1>1, <2>1, <3>2, <3>3, RestoredLater, Zenon
  <2>3. CASE r = "uart" /\ S = {v \in Values : v}
    <3>1. TRUE \in S
      BY <2>3, Booleans, Zenon
    <3>2. Mends(Set("uart", TRUE), r, S) /\ Restored(Set("uart", TRUE), r, S)
      BY <1>2, <2>3, <3>1, Zenon
    <3>3. PICK a \in Seq(Messages) : a = Set("urm", "tx") \o Set("uart", TRUE)
      BY <1>1, Concat, Zenon
    <3>4. Mends(a, r, S) /\ Restored(a, r, S)
      BY <1>1, <3>2, <3>3, RestoredLater, Zenon
    <3>5. Spares(Set("urm", "txrx"), r)
      BY <2>3, OneSet
    <3>6. Mends(a \o Set("urm", "txrx"), r, S) /\ Restored(a \o Set("urm", "txrx"), r, S)
      BY <1>1, <3>4, <3>5, MendedBefore, Zenon
    <3> QED
      BY <2>1, <3>3, <3>6, Zenon
  <2> QED
    BY <2>2, <2>3, Zenon DEF Enabling
<1>4. CASE ~V141x
  <2>1. Enable = Set("uart", TRUE)
    BY <1>4, Zenon DEF Enable
  <2>2. r = "uart" /\ S = {v \in Values : v}
    BY <1>4, Zenon DEF Enabling
  <2>3. TRUE \in S
    BY <2>2, Booleans, Zenon
  <2> QED
    BY <1>2, <2>1, <2>2, <2>3, Zenon
<1> QED
  BY <1>3, <1>4

\* Places from which a handler goes on to enable the UART.
Mid == {"lines", "wide", "line", "divide", "flags", "arguments"}

Mending(r, S) == dev[r] \in S \/ \E t \in Tasks : at[t] \in Mid \/ Mends(todo[t], r, S)

UartInv ==
  \A r, S : Enabling(r, S) =>
    /\ \A t \in Tasks : at[t] \in Mid \/ Restored(todo[t], r, S)
    /\ "uart" \in spoilt \/ Mending(r, S)

\* What a turn must see to: its new queue restores the register, and mends it
\* when the handler leaves the places from which it would.
LEMMA TurnMends ==
  ASSUME Ranges, NEW t \in Tasks, NEW o, NEW q, Turn(t, o, q), \A s \in Tasks \ {t} : at'[s] = at[s],
         "uart" \in spoilt => "uart" \in spoilt', NEW r, NEW S,
         \A s \in Tasks : at[s] \in Mid \/ Restored(todo[s], r, S),
         "uart" \in spoilt \/ Mending(r, S),
         at'[t] \notin Mid => /\ Restored(q, r, S)
                              /\ at[t] \notin Mid \/ Mends(q, r, S) \/ "uart" \in spoilt'
  PROVE  /\ \A s \in Tasks : at'[s] \in Mid \/ Restored(todo'[s], r, S)
         /\ "uart" \in spoilt' \/ Mending(r, S)'
<1>1. /\ todo'[t] = q /\ todo[t] = << >> /\ dev' = dev
      /\ \A s \in Tasks \ {t} : todo'[s] = todo[s]
  BY DEF Turn, Ranges
<1>2. ~Mends(todo[t], r, S)
  BY <1>1, Empty, SparesRestored, Zenon
<1>3. \A s \in Tasks : at'[s] \in Mid \/ Restored(todo'[s], r, S)
  BY <1>1, Zenon
<1>4. "uart" \in spoilt' \/ dev[r] \in S \/ \E s \in Tasks : at'[s] \in Mid \/ Mends(todo'[s], r, S)
  BY <1>1, <1>2, Zenon DEF Mending
<1> QED
  BY <1>1, <1>3, <1>4, Zenon DEF Mending

\* A turn that spares the UART, of a handler that is not to mend it.
LEMMA DoesMend ==
  ASSUME Ranges, NEW t \in Tasks, NEW o, NEW R, Does(t, o, R),
         \A s \in Tasks \ {t} : at'[s] = at[s], "uart" \in spoilt => "uart" \in spoilt',
         NEW r \in Registers, NEW S, r \notin R, at[t] \notin Mid,
         \A s \in Tasks : at[s] \in Mid \/ Restored(todo[s], r, S),
         "uart" \in spoilt \/ Mending(r, S)
  PROVE  /\ \A s \in Tasks : at'[s] \in Mid \/ Restored(todo'[s], r, S)
         /\ "uart" \in spoilt' \/ Mending(r, S)'
<1>1. PICK q \in Seq(Messages) : Turn(t, o, q) /\ Spares(q, r)
  BY Zenon DEF Does
<1>2. Restored(q, r, S)
  BY <1>1, SparesRestored, Zenon
<1> QED
  BY <1>1, <1>2, TurnMends, Zenon

LEMMA SendMends ==
  ASSUME Order, Order', NEW t \in Tasks, Send(t), NEW r, NEW S, Enabling(r, S),
         \A s \in Tasks : at[s] \in Mid \/ Restored(todo[s], r, S),
         "uart" \in spoilt \/ Mending(r, S)
  PROVE  /\ \A s \in Tasks : at'[s] \in Mid \/ Restored(todo'[s], r, S)
         /\ "uart" \in spoilt' \/ Mending(r, S)'
<1>1. PICK q \in Seq(Messages) : q = todo[t]
  BY SendTail, Zenon DEF Order
<1>2. q # << >> /\ todo'[t] = Tail(q) /\ \A s \in Tasks \ {t} : todo'[s] = todo[s]
  BY <1>1, SendTail, Zenon DEF Order
<1>3. /\ Restored(q, r, S) => Restored(Tail(q), r, S)
      /\ Mends(q, r, S) => Mends(Tail(q), r, S) \/ Gives(Head(q), r, S)
      /\ Restored(q, r, S) /\ Takes(Head(q), r, S) => Mends(Tail(q), r, S)
  BY <1>2, RestoredTail, Zenon
<1>4. at' = at
  BY Zenon DEF Send
<1>5. \A s \in Tasks : at'[s] \in Mid \/ Restored(todo'[s], r, S)
  BY <1>1, <1>2, <1>3, <1>4, Zenon
<1>6. r \in Registers /\ Group(r) = "uart"
  <2>1. r = "uart" \/ r = "urm"
    BY Zenon DEF Enabling
  <2> QED
    BY <2>1, SMT DEF Registers, Group, Lines
<1>7. CASE awake
  <2>1. /\ dev' = [x \in Registers |-> IF x \in DOMAIN Head(q) THEN Head(q)[x] ELSE dev[x]]
        /\ spoilt' = IF Enabled' THEN spoilt \ {"uart"} ELSE spoilt
    BY <1>1, <1>7, Zenon DEF Send
  <2>2. dev'[r] = IF r \in DOMAIN Head(q) THEN Head(q)[r] ELSE dev[r]
    BY <1>6, <2>1, Zenon
  <2>3. CASE Enabled'
    <3>1. V141x' <=> V141x
      BY Zenon DEF Send, V141x
    <3>2. dev' \in [Registers -> Values]
      BY Zenon DEF Order, Ranges
    <3>3. dev'["uart"] \in Values
      BY <3>2 DEF Registers
    <3>4. dev'[r] \in S
      BY <2>3, <3>1, <3>3, Zenon DEF Enabled, Enabling
    <3> QED
      BY <1>5, <3>4, Zenon DEF Mending
  <2>4. CASE ~Enabled' /\ "uart" \notin spoilt
    <3>1. Gives(Head(q), r, S) => dev'[r] \in S
      BY <2>2, Zenon DEF Gives
    <3>2. ~Gives(Head(q), r, S) /\ ~Takes(Head(q), r, S) => dev'[r] = dev[r]
      BY <2>2, Zenon DEF Gives, Takes
    <3>3. Takes(Head(q), r, S) => at'[t] \in Mid \/ Mends(todo'[t], r, S)
      BY <1>1, <1>2, <1>3, <1>4, Zenon
    <3>4. dev'[r] \in S \/ \E s \in Tasks : at'[s] \in Mid \/ Mends(todo'[s], r, S)
      BY <1>1, <1>2, <1>3, <1>4, <2>4, <3>1, <3>2, <3>3, Zenon DEF Mending
    <3> QED
      BY <1>5, <3>4, Zenon DEF Mending
  <2>5. CASE ~Enabled' /\ "uart" \in spoilt
    BY <1>5, <2>1, <2>5, Zenon
  <2> QED
    BY <2>3, <2>4, <2>5
<1>8. CASE ~awake
  <2>1. dev' = dev /\ spoilt' = spoilt \cup {Group(x) : x \in DOMAIN Head(q)}
    BY <1>1, <1>8, Zenon DEF Send
  <2>2. CASE r \in DOMAIN Head(q)
    BY <1>5, <1>6, <2>1, <2>2, Zenon
  <2>3. CASE r \notin DOMAIN Head(q)
    <3>1. ~Gives(Head(q), r, S)
      BY <2>3, Zenon DEF Gives
    <3>2. "uart" \in spoilt => "uart" \in spoilt'
      BY <2>1, Zenon
    <3>3. Mending(r, S) => Mending(r, S)'
      BY <1>1, <1>2, <1>3, <1>4, <2>1, <3>1, Zenon DEF Mending
    <3> QED
      BY <1>5, <3>2, <3>3, Zenon
  <2> QED
    BY <2>2, <2>3
<1> QED
  BY <1>7, <1>8

LEMMA TurnPlaces ==
  ASSUME Order, NEW t \in Tasks, Turns(t)
  PROVE  /\ \A s \in Tasks \ {t} : at'[s] = at[s]
         /\ "uart" \in spoilt => "uart" \in spoilt'
<1>0. "uart" # "chip"
  OBVIOUS
<1>1. CASE Begins(t)
  <2>1. \A s \in Tasks \ {t} : at'[s] = at[s]
    BY <1>1, Beginning DEF Order, Ranges
  <2>2. "uart" \in spoilt => "uart" \in spoilt'
    BY <1>0, <1>1, Zenon DEF Begins, SetTermios, AnyBaudRate, PreciseFlags, Loopback, GpioMode, TiocmSet,
                             Activate, Shutdown, GpioDir, GpioSet
  <2> QED
    BY <2>1, <2>2
<1>2. CASE GoesOn(t)
  <2>1. \A s \in Tasks \ {t} : at'[s] = at[s]
    BY <1>2, GoingOn DEF Order, Ranges
  <2>2. "uart" \in spoilt => "uart" \in spoilt'
    BY <1>0, <1>2, Zenon DEF GoesOn, TermiosLines, TermiosWide, TermiosLine, PreciseWide, GpioModeAccess,
                             GpioModeFaults, TiocmWrite, ActivateEnds, GpioDirMode
  <2> QED
    BY <2>1, <2>2
<1>3. CASE Dies(t)
  BY <1>3 DEF Dies, Order, Ranges
<1> QED
  BY <1>1, <1>2, <1>3, Zenon DEF Turns

LEMMA TurnsMend ==
  ASSUME Order, Order', NEW t \in Tasks, Turns(t), NEW r, NEW S, Enabling(r, S),
         \A s \in Tasks : at[s] \in Mid \/ Restored(todo[s], r, S),
         "uart" \in spoilt \/ Mending(r, S)
  PROVE  /\ \A s \in Tasks : at'[s] \in Mid \/ Restored(todo'[s], r, S)
         /\ "uart" \in spoilt' \/ Mending(r, S)'
<1> DEFINE Done == /\ \A s \in Tasks : at'[s] \in Mid \/ Restored(todo'[s], r, S)
                   /\ "uart" \in spoilt' \/ Mending(r, S)'
<1>1. (\A s \in Tasks \ {t} : at'[s] = at[s]) /\ ("uart" \in spoilt => "uart" \in spoilt')
  BY TurnPlaces, Zenon
<1>2. r \in Registers /\ r \notin Lines /\ r \notin {"dir"} /\ r \notin {"gmode"} /\ r \notin {}
  BY SMT DEF Enabling, Registers, Lines
<1>3. Ranges /\ Idle /\ Flags
  BY Zenon DEF Order
<1>4. ASSUME NEW q, NEW o, Turn(t, o, q), at'[t] \in Mid \/ (Restored(q, r, S) /\ Mends(q, r, S))
      PROVE  Done
  BY <1>1, <1>3, <1>4, TurnMends, Zenon
<1>5. ASSUME NEW o, NEW R, Does(t, o, R), r \notin R, at[t] \notin Mid
      PROVE  Done
  BY <1>1, <1>2, <1>3, <1>5, DoesMend, Zenon
<1>6. ASSUME NEW o, NEW R, Does(t, o, R), at'[t] \in Mid PROVE Done
  BY <1>4, <1>6, Zenon DEF Does
<1>7. \A a \in Seq(Messages) : Mends(a \o Enable, r, S) /\ Restored(a \o Enable, r, S)
  BY EnableTyped, EnableMends, RestoredLater, Zenon
<1>8. op[t] = "none" => at[t] \notin Mid /\ todo[t] = << >>
  BY <1>3, Zenon DEF Idle, Mid
<1>9. at \in [Tasks -> Places]
  BY <1>3 DEF Ranges
<1> SUFFICES Done
  BY Zenon
<1> HIDE DEF Done
<1>10. CASE \E new \in Termios : SetTermios(t, new)
  <2>1. at'[t] \in Mid
    BY <1>9, <1>10 DEF SetTermios, Begin, Mid
  <2> QED
    BY <1>3, <1>6, <1>10, <2>1, TermiosTurns, Zenon
<1>11. CASE TermiosLines(t) \/ TermiosWide(t)
  <2>1. at'[t] \in Mid
    BY <1>9, <1>11 DEF TermiosLines, TermiosWide, Goes, Mid
  <2> QED
    BY <1>3, <1>6, <1>11, <2>1, TermiosTurns, Zenon
<1>12. ASSUME NEW place \in {"end", "divide"}, TermiosLine(t, place) PROVE Done
  <2>1. PICK a : a = IF newline # line THEN SetLine(newline) ELSE << >>
    BY Zenon
  <2>2. a \in Seq(Messages)
    <3>1. << >> \in Seq(Messages)
      OBVIOUS
    <3>2. PICK l \in LineSet : l = newline
      BY <1>3 DEF Ranges
    <3>3. a = SetLine(l) \/ a = << >>
      BY <2>1, <3>2, Zenon
    <3> QED
      BY <3>1, <3>3, LineTyped, Zenon
  <2>3. CASE place = "end"
    <3>1. << >> \o Enable = Enable
      BY EnableTyped
    <3>2. /\ todo[t] = << >> /\ op[t] = "termios" /\ op' = op /\ UNCHANGED <<dev, product>>
          /\ todo' = [todo EXCEPT ![t] = a \o Enable]
      BY <1>12, <2>1, <2>3, <3>1, Zenon DEF TermiosLine, Goes, Queue
    <3>3. op' = [op EXCEPT ![t] = "termios"]
      BY <1>3, <3>2, Unmoved, Zenon
    <3>4. Turn(t, "termios", a \o Enable)
      BY <3>2, <3>3, Zenon DEF Turn
    <3> QED
      BY <1>4, <1>7, <2>2, <3>4, Zenon
  <2>4. CASE place = "divide"
    <3>1. at'[t] \in Mid
      BY <1>9, <1>12, <2>4 DEF TermiosLine, Goes, Mid
    <3> QED
      BY <1>3, <1>6, <1>12, <3>1, TermiosTurns, Zenon
  <2> QED
    BY <2>3, <2>4
<1>13. ASSUME NEW rate \in Rates, NEW place \in {"end", "divide"}, AnyBaudRate(t, rate, place) PROVE Done
  <2>1. PICK l \in LineSet : l = line'
    BY Zenon DEF Order, Ranges
  <2>2. CASE place = "end"
    <3>1. /\ todo[t] = << >> /\ op[t] = "none" /\ op' = [op EXCEPT ![t] = "baud"]
          /\ UNCHANGED <<dev, product>> /\ todo' = [todo EXCEPT ![t] = Disable \o (SetLine(l) \o Enable)]
      BY <1>3, <1>13, <2>1, <2>2, Zenon DEF AnyBaudRate, Begin, Idle, Queue
    <3>2. /\ Disable \o SetLine(l) \in Seq(Messages)
          /\ Disable \o (SetLine(l) \o Enable) = (Disable \o SetLine(l)) \o Enable
      BY EnableTyped, LineTyped
    <3>3. Turn(t, "baud", (Disable \o SetLine(l)) \o Enable)
      BY <3>1, <3>2, Zenon DEF Turn
    <3> QED
      BY <1>4, <1>7, <3>2, <3>3, Zenon
  <2>3. CASE place = "divide"
    <3>1. at'[t] \in Mid
      BY <1>9, <1>13, <2>3 DEF AnyBaudRate, Begin, Mid
    <3> QED
      BY <1>3, <1>6, <1>13, <3>1, IoctlTurns, Zenon
  <2> QED
    BY <2>2, <2>3
<1>14. CASE PreciseFlags(t) \/ GpioMode(t)
  <2>1. at'[t] \in Mid
    BY <1>9, <1>14 DEF PreciseFlags, GpioMode, Begin, Mid
  <2> QED
    BY <1>3, <1>6, <1>14, <2>1, IoctlTurns, Zenon
<1>15. CASE \E on \in BOOLEAN : PreciseWide(t, on)
  <2>1. PICK on \in BOOLEAN : PreciseWide(t, on)
    BY <1>15, Zenon
  <2>2. /\ todo[t] = << >> /\ op[t] = "precise" /\ op' = op /\ UNCHANGED <<dev, product>>
        /\ todo' = [todo EXCEPT ![t] = SetWide(on) \o Enable]
    BY <2>1, Zenon DEF PreciseWide, Goes, Queue
  <2>3. op' = [op EXCEPT ![t] = "precise"] /\ SetWide(on) \in Seq(Messages)
    BY <1>3, <2>2, Unmoved, OthersTyped, Zenon
  <2>4. Turn(t, "precise", SetWide(on) \o Enable)
    BY <2>2, <2>3, Zenon DEF Turn
  <2> QED
    BY <1>4, <1>7, <2>3, <2>4, Zenon
<1>16. CASE Loopback(t)
  <2>1. /\ todo[t] = << >> /\ op[t] = "none" /\ op' = [op EXCEPT ![t] = "loopback"]
        /\ UNCHANGED <<dev, product>> /\ todo' = [todo EXCEPT ![t] = Disable \o Enable]
    BY <1>3, <1>16, Zenon DEF Loopback, Begin, Idle, SetLoopback, Queue
  <2>2. Turn(t, "loopback", Disable \o Enable)
    BY <2>1, Zenon DEF Turn
  <2> QED
    BY <1>4, <1>7, <2>2, EnableTyped, Zenon
<1>17. CASE GpioModeAccess(t)
  <2>1. /\ todo[t] = << >> /\ op[t] = "mode" /\ op' = op /\ UNCHANGED <<dev, product>>
        /\ Queue(t, Enable) \/ \E v \in {"gpio", "rtscts"} : Queue(t, Set("gmode", v) \o Enable)
    BY <1>17, Zenon DEF GpioModeAccess, Goes
  <2>2. op' = [op EXCEPT ![t] = "mode"]
    BY <1>3, <2>1, Unmoved, Zenon
  <2>3. \A q : Queue(t, q) => Turn(t, "mode", q)
    BY <2>1, <2>2, Zenon DEF Turn, Queue
  <2>4. \A v \in {"gpio", "rtscts"} : Set("gmode", v) \in Seq(Messages)
    BY OthersTyped, Zenon
  <2> QED
    BY <1>4, <1>7, <2>1, <2>3, <2>4, EnableMends, Zenon
<1>18. CASE GpioModeFaults(t)
  <2>1. /\ todo[t] = << >> /\ op[t] = "mode" /\ op' = op /\ UNCHANGED <<todo, dev, product>>
        /\ "uart" \in spoilt'
    BY <1>18, Zenon DEF GpioModeFaults, Goes
  <2>2. op' = [op EXCEPT ![t] = "mode"] /\ todo' = [todo EXCEPT ![t] = << >>]
    BY <1>3, <2>1 DEF Ranges
  <2>3. Turn(t, "mode", << >>)
    BY <2>1, <2>2, Zenon DEF Turn
  <2>4. Restored(<< >>, r, S)
    BY Empty, SparesRestored, Zenon
  <2> QED
    BY <1>1, <1>3, <2>1, <2>3, <2>4, TurnMends, Zenon DEF Done
<1>19. CASE (\E set, clear \in SUBSET Lines : TiocmSet(t, set, clear)) \/ TiocmWrite(t)
  <2>1. at[t] \notin Mid
    BY <1>8, <1>19, Zenon DEF TiocmSet, TiocmWrite, Begin, Goes, Mid
  <2> QED
    BY <1>2, <1>3, <1>5, <1>19, <2>1, LinesTurns, Zenon
<1>20. CASE \/ (\E ok \in BOOLEAN : Activate(t, ok)) \/ (\E ok \in BOOLEAN : ActivateEnds(t, ok))
            \/ (\E got \in BOOLEAN : Shutdown(t, got))
  <2>1. at[t] \notin Mid
    BY <1>8, <1>20, Zenon DEF Activate, ActivateEnds, Shutdown, Begin, Goes, Mid
  <2> QED
    BY <1>2, <1>3, <1>5, <1>20, <2>1, LinesTurns, Zenon
<1>21. CASE \/ (\E g \in Gpios, out \in BOOLEAN : GpioDir(t, g, out)) \/ GpioDirMode(t)
            \/ \E g \in Gpios, high \in BOOLEAN : GpioSet(t, g, high)
  <2>1. at[t] \notin Mid
    BY <1>8, <1>21, Zenon DEF GpioDir, GpioDirMode, GpioSet, Begin, Goes, Mid
  <2>2. \E o : Does(t, o, {"dir"}) \/ Does(t, o, {"gmode"}) \/ Does(t, o, Lines)
    BY <1>3, <1>21, LinesTurns, Zenon
  <2> QED
    BY <1>2, <1>5, <2>1, <2>2, Zenon
<1>22. CASE Dies(t)
  <2>1. /\ todo[t] = << >> /\ op' = op /\ UNCHANGED <<todo, dev, product>> /\ "uart" \in spoilt'
    BY <1>22, Zenon DEF Dies
  <2>2. op' = [op EXCEPT ![t] = op[t]] /\ todo' = [todo EXCEPT ![t] = << >>]
    BY <1>3, <2>1 DEF Ranges
  <2>3. Turn(t, op[t], << >>)
    BY <2>1, <2>2, Zenon DEF Turn
  <2>4. Restored(<< >>, r, S)
    BY Empty, SparesRestored, Zenon
  <2> QED
    BY <1>1, <1>3, <2>1, <2>3, <2>4, TurnMends, Zenon DEF Done
<1>23. CASE Begins(t)
  BY <1>10, <1>13, <1>14, <1>16, <1>19, <1>20, <1>21, <1>23, Zenon DEF Begins
<1>24. CASE GoesOn(t)
  BY <1>11, <1>12, <1>15, <1>17, <1>18, <1>19, <1>20, <1>21, <1>24, Zenon DEF GoesOn
<1> QED
  BY <1>22, <1>23, <1>24, Zenon DEF Turns

LEMMA NextUart ==
  ASSUME Order, Order', UartInv, [Next]_vars
  PROVE  UartInv'
<1> SUFFICES ASSUME NEW r, NEW S, Enabling(r, S)'
             PROVE  /\ \A t \in Tasks : at'[t] \in Mid \/ Restored(todo'[t], r, S)
                    /\ "uart" \in spoilt' \/ Mending(r, S)'
  BY Zenon DEF UartInv
<1>1. Enabling(r, S)
  BY ProductStays DEF V141x, Enabling
<1>2. /\ \A t \in Tasks : at[t] \in Mid \/ Restored(todo[t], r, S)
      /\ "uart" \in spoilt \/ Mending(r, S)
  BY <1>1, Zenon DEF UartInv
<1>3. CASE UNCHANGED <<todo, dev, spoilt>> /\ \A s \in Tasks : at'[s] \in Mid <=> at[s] \in Mid
  BY <1>2, <1>3, Zenon DEF Mending
<1>4. CASE Sleep \/ Wake \/ UNCHANGED vars
  BY <1>3, <1>4, Zenon DEF Sleep, Wake, vars
<1>5. ASSUME NEW t \in Tasks, Return(t)
      PROVE  UNCHANGED <<todo, dev, spoilt>> /\ \A s \in Tasks : at'[s] \in Mid <=> at[s] \in Mid
  BY <1>5 DEF Return, Mid, Order, Ranges
<1>6. ASSUME NEW t \in Tasks, Send(t) \/ Turns(t)
      PROVE  /\ \A s \in Tasks : at'[s] \in Mid \/ Restored(todo'[s], r, S)
             /\ "uart" \in spoilt' \/ Mending(r, S)'
  BY <1>1, <1>2, <1>6, SendMends, TurnsMend, Zenon
<1> QED
  BY <1>3, <1>4, <1>5, <1>6, Cases, Zenon

\* However the handlers that disable and enable the UART interleave, they
\* leave it enabled (xr_usb_serial_hal.c:532).
THEOREM UartIsOn == Spec => []UartOn
<1>1. Init => UartInv
  <2> SUFFICES ASSUME Init PROVE UartInv
    OBVIOUS
  <2>1. "uart" \in spoilt /\ \A t \in Tasks : todo[t] = << >>
    BY SMT DEF Init
  <2> QED
    BY <2>1, Empty, SparesRestored, Zenon DEF UartInv
<1>2. Order /\ UartInv /\ Order' /\ [Next]_vars => UartInv'
  BY NextUart
<1>3. Order /\ UartInv => UartOn
  <2> SUFFICES ASSUME Order, UartInv, Quiet, "uart" \notin spoilt PROVE Enabled
    BY Zenon DEF UartOn
  <2>1. \A t \in Tasks : at[t] \notin Mid /\ todo[t] = << >>
    BY Zenon DEF Order, Idle, Quiet, Mid
  <2>2. \A t \in Tasks : \A r, S : ~Mends(todo[t], r, S)
    BY <2>1, Empty, SparesRestored, Zenon
  <2>3. \A r, S : Enabling(r, S) => dev[r] \in S
    BY <2>1, <2>2, Zenon DEF UartInv, Mending
  <2>4. Enabling("uart", {v \in Values : v}) /\ (V141x => Enabling("urm", {"txrx"}))
    BY Zenon DEF Enabling
  <2>5. dev["uart"] \in {v \in Values : v} /\ (V141x => dev["urm"] \in {"txrx"})
    BY <2>3, <2>4, Zenon
  <2> QED
    BY <2>5, Zenon DEF Enabled
<1> QED
  BY <1>1, <1>2, <1>3, Ordered, PTL DEF Spec

-----------------------------------------------------------------------------
(* The modem lines.                                                        *)

PinsInv ==
  "pins" \notin spoilt /\ "chip" \notin spoilt => \A x \in Lines : Carried(x, Level(ctrlout, x))

LEMMA OthersKeepPins ==
  ASSUME Order, [Next]_vars, \A t \in Tasks : ~PinTurn(t)
  PROVE  /\ ctrlout' = ctrlout /\ ("chip" \in spoilt => "chip" \in spoilt')
         /\ \A x \in Lines : \A t \in Tasks : Turns(t) => \E o, R : Does(t, o, R) /\ x \notin R
<1> DEFINE Kept == ctrlout' = ctrlout /\ ("chip" \in spoilt => "chip" \in spoilt')
<1>0. "chip" # "uart"
  OBVIOUS
<1>1. Sleep \/ Wake \/ UNCHANGED vars => Kept
  BY Zenon DEF Sleep, Wake, vars, driverVars
<1>2. ASSUME NEW t \in Tasks, Send(t) \/ Return(t) PROVE Kept
  BY <1>0, <1>2, Zenon DEF Send, Return, driverVars
<1>3. ASSUME NEW t \in Tasks, Turns(t) PROVE Kept
  <2>1. CASE Begins(t)
    BY <2>1, Zenon DEF Begins, PinTurn, SetTermios, AnyBaudRate, PreciseFlags, driverVars, Loopback, GpioMode,
                       TiocmSet, GpioDir
  <2>2. CASE GoesOn(t)
    BY <2>2, Zenon DEF GoesOn, PinTurn, TermiosWide, TermiosLine, driverVars, PreciseWide, GpioModeAccess,
                       GpioModeFaults, GpioDirMode
  <2>3. CASE Dies(t)
    BY <2>3, Zenon DEF Dies, driverVars
  <2> QED
    BY <1>3, <2>1, <2>2, <2>3, Zenon DEF Turns
<1>4. ASSUME NEW x \in Lines, NEW t \in Tasks, Turns(t) PROVE \E o, R : Does(t, o, R) /\ x \notin R
  <2>1. x \in Registers /\ x \notin UartRegs /\ x \notin CodingRegs /\ x \notin FlowRegs
        /\ x # "gmode" /\ x # "wide" /\ x # "dir"
    BY DEF CodingRegs, UartRegs, FlowRegs, Lines, Registers
  <2> QED
    BY <1>4, <2>1, SparedTurns, Zenon
<1> QED
  BY <1>1, <1>2, <1>3, <1>4, Cases, Zenon

LEMMA NextPins ==
  ASSUME Order, Order', PinsInv, [Next]_vars
  PROVE  PinsInv'
<1> SUFFICES ASSUME "pins" \notin spoilt', "chip" \notin spoilt', NEW x \in Lines
             PROVE  Carried(x, Level(ctrlout, x))'
  BY Zenon DEF PinsInv
<1>1. PICK c \in SUBSET Lines : c = ctrlout'
  BY DEF Order, Ranges
<1>2. PICK S : S = Level(c, x)
  BY Zenon
<1>3. S = Level(ctrlout', x)
  BY <1>1, <1>2, Zenon
<1> SUFFICES Carried(x, S)'
  BY <1>3, Zenon DEF Carried
<1>4. x \in Registers /\ Group(x) = "pins" /\ x \notin FlowRegs
  BY SMT DEF Lines, Registers, Group, FlowRegs
<1>5. "pins" \notin spoilt
  BY StaysSpoilt DEF Order
<1>6. ctrlout = c /\ "chip" \notin spoilt => Carried(x, S)
  BY <1>2, <1>5, Zenon DEF PinsInv
<1>7. /\ SetControl(c) \in Seq(Messages) /\ ~Spares(SetControl(c), x) /\ Agrees(SetControl(c), x, S)
      /\ SetPins(c) \in Seq(Messages) /\ ~Spares(SetPins(c), x) /\ Agrees(SetPins(c), x, S)
  BY <1>2, <1>4, PinsTyped, PinsSpare, Zenon
<1>8. "pins" \in Writes("termios") /\ "pins" \in Writes("tiocm") /\ "pins" \in Writes("port")
      /\ "pins" \in Shared
  BY DEF Writes, Shared
<1>9. Ranges /\ Flags /\ Idle
  BY Zenon DEF Order
<1>10. ASSUME NEW t \in Tasks, NEW o, NEW R, Does(t, o, R), "pins" \in Writes(o),
              NEW place, at' = [at EXCEPT ![t] = place], place # "dead",
              NEW q, Turn(t, o, q), ~Spares(q, x), Agrees(q, x, S)
       PROVE  Carried(x, S)'
  <2>0. at'[t] # "dead"
    BY <1>9, <1>10 DEF Ranges
  <2>1. \A s \in Tasks \ {t} : Spares(todo[s], x)
    <3>1. Group(x) \in Shared /\ Group(x) \notin spoilt' /\ Group(x) \in Writes(o)
      BY <1>4, <1>8, <1>10, Zenon
    <3> QED
      BY <1>4, <1>10, <2>0, <3>1, OthersSpare
  <2> QED
    BY <1>9, <1>10, <2>1, TurnSets, Zenon
<1>11. ASSUME NEW t \in Tasks, TermiosLines(t) PROVE Carried(x, S)'
  <2>1. PICK a, b : a = (IF ctrlout' # ctrlout THEN SetControl(ctrlout') ELSE << >>) /\ b = FlowChange
    BY Zenon
  <2>2. b \in Seq(Messages) /\ Spares(b, x)
    <3>1. << >> \in Seq(Messages)
      OBVIOUS
    <3>2. termios.flow \in Flows
      BY <1>9 DEF Ranges
    <3>3. b = SetFlow(termios.flow) \/ b = << >>
      BY <2>1, Zenon DEF FlowChange
    <3>4. x \in Registers \ FlowRegs
      BY <1>4
    <3> QED
      BY <3>1, <3>2, <3>3, <3>4, OthersTyped, Sent, Empty, Zenon
  <2>3. /\ todo[t] = << >> /\ op[t] = "termios" /\ op' = op /\ UNCHANGED <<dev, product>>
        /\ todo' = [todo EXCEPT ![t] = a \o b] /\ at' = [at EXCEPT ![t] = "wide"] /\ "wide" # "dead"
        /\ spoilt' = IF ctrlout' # ctrlout THEN spoilt \ {"chip"} ELSE spoilt
    BY <1>11, <2>1, Zenon DEF TermiosLines, Goes, Queue
  <2>4. op' = [op EXCEPT ![t] = "termios"]
    BY <1>9, <2>3, Unmoved, Zenon
  <2>5. Turn(t, "termios", a \o b)
    BY <2>3, <2>4, Zenon DEF Turn
  <2>6. Does(t, "termios", Lines \cup FlowRegs)
    BY <1>9, <1>11, TermiosTurns, Zenon
  <2>7. CASE ctrlout # c
    <3>1. a = SetControl(c)
      BY <1>1, <2>1, <2>7, Zenon
    <3>2. ~Spares(a \o b, x) /\ Agrees(a \o b, x, S)
      BY <1>7, <2>2, <3>1, Joined, SparesAgrees, Zenon
    <3> QED
      BY <1>8, <1>10, <2>3, <2>5, <2>6, <3>2, Zenon
  <2>8. CASE ctrlout = c
    <3>1. << >> \in Seq(Messages)
      OBVIOUS
    <3>2. a = << >>
      BY <1>1, <2>1, <2>8, Zenon
    <3>3. Agrees(a \o b, x, S)
      BY <2>2, <3>1, <3>2, Joined, Empty, SparesAgrees, Zenon
    <3>4. "chip" \notin spoilt
      BY <1>1, <2>3, <2>8, Zenon
    <3> QED
      BY <1>6, <1>9, <2>5, <2>8, <3>3, <3>4, TurnCarries, Zenon
  <2> QED
    BY <2>7, <2>8
<1>12. ASSUME NEW t \in Tasks, TiocmWrite(t) PROVE Carried(x, S)'
  <2>1. /\ todo[t] = << >> /\ op[t] = "tiocm" /\ op' = op /\ UNCHANGED <<dev, product>>
        /\ todo' = [todo EXCEPT ![t] = SetPins(c)] /\ at' = [at EXCEPT ![t] = "end"] /\ "end" # "dead"
    BY <1>1, <1>12, Zenon DEF TiocmWrite, Goes, Queue
  <2>2. op' = [op EXCEPT ![t] = "tiocm"]
    BY <1>9, <2>1, Unmoved, Zenon
  <2>3. Turn(t, "tiocm", SetPins(c)) /\ Does(t, "tiocm", Lines)
    BY <1>9, <1>12, <2>1, <2>2, LinesTurns, Zenon DEF Turn
  <2> QED
    BY <1>7, <1>8, <1>10, <2>1, <2>3, Zenon
<1>16. ASSUME NEW t \in Tasks, Activate(t, TRUE) PROVE Carried(x, S)'
  <2>1. /\ todo[t] = << >> /\ op' = [op EXCEPT ![t] = "port"] /\ UNCHANGED <<dev, product>>
        /\ todo' = [todo EXCEPT ![t] = SetControl(c)] /\ at' = [at EXCEPT ![t] = "opening"]
        /\ "opening" # "dead" /\ TRUE \in BOOLEAN
    BY <1>1, <1>9, <1>16, Zenon DEF Activate, Idle, Queue
  <2>2. Turn(t, "port", SetControl(c)) /\ Does(t, "port", Lines)
    BY <1>9, <1>16, <2>1, LinesTurns, Zenon DEF Turn
  <2> QED
    BY <1>7, <1>8, <1>10, <2>1, <2>2, Zenon
<1>17. ASSUME NEW t \in Tasks, Activate(t, FALSE) PROVE Carried(x, S)'
  <2>1. /\ todo[t] = << >> /\ op' = [op EXCEPT ![t] = "port"] /\ UNCHANGED <<dev, product>>
        /\ todo' = [todo EXCEPT ![t] = << >>] /\ ctrlout' = ctrlout /\ "chip" \notin spoilt
    BY <1>9, <1>17, Zenon DEF Activate, Idle, Queue
  <2>2. Turn(t, "port", << >>) /\ ctrlout = c
    BY <1>1, <2>1, Zenon DEF Turn
  <2> QED
    BY <1>6, <1>9, <2>1, <2>2, Empty, TurnCarries, Zenon
<1>13. ASSUME NEW t \in Tasks, NEW ok \in BOOLEAN, Activate(t, ok) PROVE Carried(x, S)'
  <2>1. ok = TRUE \/ ok = FALSE
    OBVIOUS
  <2>2. CASE ok = TRUE
    BY <1>13, <1>16, <2>2, Zenon
  <2>3. CASE ok = FALSE
    BY <1>13, <1>17, <2>3, Zenon
  <2> QED
    BY <2>1, <2>2, <2>3
<1>18. ASSUME NEW t \in Tasks, NEW got \in BOOLEAN, Shutdown(t, got) PROVE Carried(x, S)'
  <2>1. /\ todo[t] = << >> /\ op' = [op EXCEPT ![t] = "port"] /\ UNCHANGED <<dev, product>>
        /\ todo' = [todo EXCEPT ![t] = SetControl(c)]
    BY <1>1, <1>9, <1>18, Zenon DEF Shutdown, Begin, Idle, Queue
  <2>2. Turn(t, "port", SetControl(c)) /\ Does(t, "port", Lines)
    BY <1>9, <1>18, <2>1, LinesTurns, Zenon DEF Turn
  <2>3. PICK place : place # "dead" /\ at' = [at EXCEPT ![t] = place]
    BY <1>18 DEF Shutdown, Begin
  <2> QED
    BY <1>7, <1>8, <1>10, <2>2, <2>3, Zenon
<1>19. ASSUME NEW t \in Tasks, NEW g \in Gpios, NEW high \in BOOLEAN, GpioSet(t, g, high) PROVE FALSE
  BY <1>19, Zenon DEF GpioSet
<1>14. ASSUME NEW t \in Tasks, NEW ok \in BOOLEAN, ActivateEnds(t, ok) PROVE Carried(x, S)'
  <2>1. /\ todo[t] = << >> /\ op[t] = "port" /\ op' = op /\ UNCHANGED <<dev, product>>
        /\ todo' = [todo EXCEPT ![t] = IF ok THEN << >> ELSE SetControl({})]
        /\ ctrlout' = (IF ok THEN ctrlout ELSE {}) /\ at' = [at EXCEPT ![t] = "end"] /\ "end" # "dead"
        /\ spoilt' = IF ok THEN spoilt ELSE spoilt \ {"chip"}
    BY <1>14, Zenon DEF ActivateEnds, Goes, Queue
  <2>2. op' = [op EXCEPT ![t] = "port"]
    BY <1>9, <2>1, Unmoved, Zenon
  <2>3. Does(t, "port", Lines)
    BY <1>9, <1>14, LinesTurns, Zenon
  <2>4. CASE ok
    <3>1. Turn(t, "port", << >>)
      BY <2>1, <2>2, <2>4, Zenon DEF Turn
    <3>2. ctrlout = c /\ "chip" \notin spoilt
      BY <1>1, <2>1, <2>4, Zenon
    <3> QED
      BY <1>6, <1>9, <3>1, <3>2, Empty, TurnCarries, Zenon
  <2>5. CASE ~ok
    <3>1. c = {}
      BY <1>1, <2>1, <2>5, Zenon
    <3>2. Turn(t, "port", SetControl(c))
      BY <2>1, <2>2, <2>5, <3>1, Zenon DEF Turn
    <3> QED
      BY <1>7, <1>8, <1>10, <2>1, <2>3, <3>2, Zenon
  <2> QED
    BY <2>4, <2>5
<1>15. CASE \A t \in Tasks : ~PinTurn(t)
  <2>1. /\ ctrlout' = ctrlout /\ "chip" \notin spoilt
        /\ \A t \in Tasks : Turns(t) => \E o, R : Does(t, o, R) /\ x \notin R
    BY <1>15, OthersKeepPins, Zenon
  <2>2. Carried(x, S) /\ Group(x) \notin spoilt'
    BY <1>1, <1>4, <1>6, <2>1, Zenon
  <2> QED
    BY <1>4, <2>1, <2>2, Bystanders, Zenon
<1> QED
  BY <1>11, <1>12, <1>13, <1>14, <1>15, <1>18, <1>19, Zenon DEF PinTurn

\* The pins carry what the driver remembers of the modem lines, whichever of
\* its handlers changed it last, unless the GPIO chip has set one since
\* (xr_usb_serial_common.h:142, xr_usb_serial_hal.c:680-708,
\* xr_usb_serial_common.c:1132-1156, 1255-1265).
THEOREM PinsAreSet == Spec => []PinsFollow
<1>1. Init => PinsInv
  <2> SUFFICES ASSUME Init, NEW x \in Lines PROVE Carried(x, Level(ctrlout, x))
    BY Zenon DEF PinsInv
  <2>1. ctrlout = {} /\ dev["dtr"] = FALSE /\ dev["rts"] = FALSE
    BY SMT DEF Init
  <2>2. \A t \in Tasks : todo[t] = << >>
    BY SMT DEF Init
  <2>3. dev[x] = FALSE
    BY <2>1, Zenon DEF Lines
  <2>4. FALSE \in Level({}, x)
    BY Zenon DEF Level
  <2>5. \A t \in Tasks : Agrees(todo[t], x, Level({}, x))
    BY <2>2, Empty, Zenon
  <2>6. Carried(x, Level({}, x))
    BY <2>3, <2>4, <2>5, Zenon DEF Carried
  <2> QED
    BY <2>1, <2>6, Zenon
<1>2. Order /\ PinsInv /\ Order' /\ [Next]_vars => PinsInv'
  BY NextPins
<1>3. Order /\ PinsInv => PinsFollow
  <2> SUFFICES ASSUME Order, PinsInv, Quiet, "pins" \notin spoilt, "chip" \notin spoilt
               PROVE  ctrlout = {x \in Lines : dev[x]}
    BY DEF PinsFollow
  <2>1. ASSUME NEW x \in Lines PROVE dev[x] <=> x \in ctrlout
    <3>1. PICK S : S = Level(ctrlout, x)
      BY Zenon
    <3>2. Carried(x, S)
      BY <3>1, Zenon DEF PinsInv
    <3>3. dev[x] \in S
      BY <3>2, QuietCarries, Zenon
    <3> QED
      BY <3>1, <3>3, Zenon DEF Level
  <2>2. ctrlout \subseteq Lines
    BY DEF Order, Ranges
  <2> QED
    BY <2>1, <2>2, Zenon
<1> QED
  BY <1>1, <1>2, <1>3, Ordered, PTL DEF Spec

-----------------------------------------------------------------------------
(* The GPIO directions.                                                    *)

DirsInv == "dir" \notin spoilt => Carried("dir", {dirs})

\* Whoever has messages for the register writes the directions.
LEMMA DirOwners == \A o \in Owners("dir") : "dir" \in Writes(o)
  BY SMT DEF Owners, Writes, UartRegs, Lines, CodingRegs

LEMMA OthersKeepDirs ==
  ASSUME Order, [Next]_vars,
         \A t \in Tasks : \A g \in Gpios, out \in BOOLEAN : ~GpioDir(t, g, out)
  PROVE  /\ dirs' = dirs
         /\ \A t \in Tasks : Turns(t) => \E o, R : Does(t, o, R) /\ "dir" \notin R
<1> USE DEF localVars
<1>1. Sleep \/ Wake \/ UNCHANGED vars => dirs' = dirs
  BY Zenon DEF Sleep, Wake, vars
<1>2. ASSUME NEW t \in Tasks, Send(t) \/ Return(t) PROVE dirs' = dirs
  BY <1>2, Zenon DEF Send, Return
<1>3. ASSUME NEW t \in Tasks, Turns(t) PROVE dirs' = dirs
  <2>1. CASE Begins(t)
    BY <2>1, Zenon DEF Begins, SetTermios, AnyBaudRate, PreciseFlags, Loopback, GpioMode, TiocmSet,
                       Activate, Shutdown, GpioSet
  <2>2. CASE GoesOn(t)
    BY <2>2, Zenon DEF GoesOn, TermiosLines, TermiosWide, TermiosLine, PreciseWide, GpioModeAccess,
                       GpioModeFaults, TiocmWrite, ActivateEnds, GpioDirMode
  <2>3. CASE Dies(t)
    BY <2>3, Zenon DEF Dies
  <2> QED
    BY <1>3, <2>1, <2>2, <2>3, Zenon DEF Turns
<1>4. ASSUME NEW t \in Tasks, Turns(t) PROVE \E o, R : Does(t, o, R) /\ "dir" \notin R
  <2>1. /\ "dir" \in Registers /\ "dir" \notin UartRegs /\ "dir" \notin CodingRegs /\ "dir" \notin Lines
        /\ "dir" \notin FlowRegs
    BY DEF CodingRegs, UartRegs, FlowRegs, Lines, Registers
  <2> QED
    BY <1>4, <2>1, SparedTurns
<1> QED
  BY <1>1, <1>2, <1>3, <1>4, Cases, Zenon

LEMMA NextDirs ==
  ASSUME Order, Order', DirsInv, [Next]_vars
  PROVE  DirsInv'
<1> SUFFICES ASSUME "dir" \notin spoilt' PROVE Carried("dir", {dirs})'
  BY Zenon DEF DirsInv
<1>1. "dir" \notin spoilt
  BY StaysSpoilt DEF Order
<1>2. Carried("dir", {dirs})
  BY <1>1, Zenon DEF DirsInv
<1>3. "dir" \in Registers /\ Group("dir") = "dir"
  BY SMT DEF Registers, Group, Lines
<1>4. ASSUME NEW t \in Tasks, NEW g \in Gpios, NEW out \in BOOLEAN, GpioDir(t, g, out)
      PROVE  Carried("dir", {dirs})'
  <2>1. PICK o \in {"high", "dir"} : o = IF out /\ g > 7 THEN "high" ELSE "dir"
    OBVIOUS
  <2>2. "dir" \notin Contended(o) /\ awake /\ "dir" \in Writes(o)
    <3>1. "dir" \notin Contended(o) /\ awake
      BY <1>4, <2>1 DEF GpioDir
    <3>2. "dir" \in Writes(o)
      BY SMT DEF Writes
    <3> QED
      BY <3>1, <3>2
  <2>3. ASSUME NEW s \in Tasks PROVE Spares(todo[s], "dir")
    <3>1. CASE at[s] = "dead"
      BY <3>1, Empty, Zenon DEF Order, Idle
    <3>2. CASE at[s] # "dead"
      <4>1. "dir" \notin Writes(op[s])
        BY <2>2, <3>2, Zenon DEF Contended
      <4> QED
        BY <1>3, <4>1, DirOwners, Zenon DEF Order, Scope
    <3> QED
      BY <3>1, <3>2
  <2>4. dev["dir"] = dirs
    BY <1>2, <2>3, Zenon DEF Carried
  <2>5. PICK v : v = dev["dir"] /\ Queue(t, Set("dir", Dir(v, g, out)))
    BY <1>4, <2>2, Zenon DEF GpioDir
  <2>6. PICK d : d = Dir(v, g, out)
    BY Zenon
  <2>7. dirs' = d
    BY <1>4, <2>4, <2>5, <2>6, Zenon DEF GpioDir, Dir
  <2>8. todo[t] = << >> /\ op' = [op EXCEPT ![t] = o] /\ UNCHANGED <<dev, product>>
    BY <1>4, <2>1, Zenon DEF GpioDir, Begin, Order, Idle
  <2>9. Turn(t, o, Set("dir", d))
    BY <2>5, <2>6, <2>8, Zenon DEF Turn, Queue
  <2>10. d \in {d}
    OBVIOUS
  <2>11. ~Spares(Set("dir", d), "dir") /\ Agrees(Set("dir", d), "dir", {d})
    BY <2>10, OneSet, Zenon
  <2>12. Carried("dir", {d})'
    BY <2>3, <2>9, <2>11, TurnSets, Zenon DEF Order
  <2> QED
    BY <2>7, <2>12, Zenon DEF Carried
<1>5. CASE \A t \in Tasks : \A g \in Gpios, out \in BOOLEAN : ~GpioDir(t, g, out)
  <2>1. dirs' = dirs /\ \A t \in Tasks : Turns(t) => \E o, R : Does(t, o, R) /\ "dir" \notin R
    BY <1>5, OthersKeepDirs, Zenon
  <2>2. PICK d : d = dirs
    BY Zenon
  <2>3. Carried("dir", {d}) => Carried("dir", {d})'
    BY <1>3, <2>1, Bystanders
  <2> QED
    BY <1>2, <2>1, <2>2, <2>3, Zenon DEF Carried
<1> QED
  BY <1>4, <1>5, Zenon

\* The directions asked for are the device's, but for callbacks that overlap
\* and messages to a sleeping device (xr_usb_serial_common.c:1267-1302).
THEOREM DirsAreSet == Spec => []DirsFollow
<1>1. Init => DirsInv
  <2> SUFFICES ASSUME Init PROVE DirsInv
    OBVIOUS
  <2>1. dev["dir"] = dirs
    BY SMT DEF Init
  <2>2. \A t \in Tasks : todo[t] = << >>
    BY SMT DEF Init
  <2>3. Carried("dir", {dirs})
    BY <2>1, <2>2, Empty, Zenon DEF Carried
  <2> QED
    BY <2>3, Zenon DEF DirsInv
<1>2. Order /\ DirsInv /\ Order' /\ [Next]_vars => DirsInv'
  BY NextDirs
<1>3. Order /\ DirsInv => DirsFollow
  <2> SUFFICES ASSUME Order, DirsInv, Quiet, "dir" \notin spoilt PROVE dev["dir"] = dirs
    BY Zenon DEF DirsFollow
  <2>1. PICK d : d = dirs
    BY Zenon
  <2>2. Carried("dir", {d})
    BY <2>1, Zenon DEF DirsInv
  <2>3. dev["dir"] \in {d}
    BY <2>2, QuietCarries, Zenon
  <2> QED
    BY <2>1, <2>3, Zenon
<1> QED
  BY <1>1, <1>2, <1>3, Ordered, PTL DEF Spec

-----------------------------------------------------------------------------
(* Hardware flow control.                                                  *)

\* What the registers are in when the device does flow control f, as far as
\* FlowFollows can tell.
Alike(f) == {g \in Flows : (g = "hw") <=> (f = "hw")}
Mode(r, f) == IF r = "flow" THEN Alike(f) ELSE {Selected(f)}

LEMMA Alikes ==
  ASSUME NEW f, NEW g, (f = "hw") <=> (g = "hw")
  PROVE  \A r : Mode(r, f) = Mode(r, g)
<1>1. Alike(f) = Alike(g)
  BY Zenon DEF Alike
<1>2. Selected(f) = Selected(g)
  BY Zenon DEF Selected
<1> QED
  BY <1>1, <1>2, Zenon DEF Mode

\* A set_termios that has not yet compared the new termios with the old.
Compares(t) == op[t] = "termios" /\ at[t] = "lines"

FlowInv ==
  "flow" \notin spoilt =>
    \A r \in FlowRegs :
      /\ (\E t \in Tasks : Compares(t)) => Carried(r, Mode(r, oldflow))
      /\ (\A t \in Tasks : ~Compares(t)) => Carried(r, Mode(r, termios.flow))

LEMMA FlowNames ==
  \A r \in FlowRegs :
    /\ r \in Registers /\ Group(r) = "flow"
    /\ r \notin UartRegs /\ r \notin CodingRegs /\ r \notin Lines /\ r # "wide" /\ r # "dir"
  BY SMT DEF FlowRegs, Registers, Group, UartRegs, CodingRegs, Lines

LEMMA OthersKeepFlow ==
  ASSUME Order, [Next]_vars,
         \A t \in Tasks : ~TermiosLines(t) /\ \A new \in Termios : ~SetTermios(t, new)
  PROVE  /\ termios' = termios /\ oldflow' = oldflow
         /\ \A t \in Tasks : Compares(t)' <=> Compares(t)
<1> USE DEF Compares
<1>1. CASE Sleep \/ Wake \/ UNCHANGED vars
  BY <1>1, Zenon DEF Sleep, Wake, vars, ttyVars
<1>2. ASSUME NEW t \in Tasks, Send(t) \/ Return(t)
      PROVE  /\ termios' = termios /\ oldflow' = oldflow
             /\ \A s \in Tasks : Compares(s)' <=> Compares(s)
  <2>1. CASE Send(t)
    BY <2>1, Zenon DEF Send, ttyVars
  <2>2. CASE Return(t)
    <3>1. /\ UNCHANGED <<termios, oldflow>> /\ at[t] # "lines" /\ op'[t] = "none"
          /\ \A s \in Tasks \ {t} : op'[s] = op[s] /\ at'[s] = at[s]
      BY <2>2 DEF Return, Order, Ranges, ttyVars
    <3> QED
      BY <3>1
  <2> QED
    BY <1>2, <2>1, <2>2
<1>3. ASSUME NEW t \in Tasks, Turns(t)
      PROVE  /\ termios' = termios /\ oldflow' = oldflow
             /\ \A s \in Tasks : Compares(s)' <=> Compares(s)
  <2>1. \A s \in Tasks \ {t} : at'[s] = at[s]
    BY <1>3, TurnPlaces, Zenon
  <2>2. PICK o, R : Does(t, o, R)
    BY <1>3, OwnTurns, Zenon DEF Order
  <2>3. op'[t] = o /\ \A s \in Tasks \ {t} : op'[s] = op[s]
    BY <2>2 DEF Does, Turn, Order, Ranges
  <2>4. ~Compares(t) /\ ~Compares(t)' /\ termios' = termios /\ oldflow' = oldflow
    <3> USE DEF Order, Ranges, ttyVars
    <3>1. CASE TermiosWide(t) \/ \E place \in {"end", "divide"} : TermiosLine(t, place)
      BY <3>1 DEF TermiosWide, TermiosLine, Goes
    <3>2. CASE \E rate \in Rates, place \in {"end", "divide"} : AnyBaudRate(t, rate, place)
      BY <3>2 DEF AnyBaudRate, Begin
    <3>3. CASE PreciseFlags(t) \/ Loopback(t) \/ GpioMode(t)
      BY <3>3 DEF PreciseFlags, Loopback, GpioMode, Begin
    <3>4. CASE GpioModeAccess(t) \/ GpioModeFaults(t) \/ \E on \in BOOLEAN : PreciseWide(t, on)
      BY <3>4 DEF GpioModeAccess, GpioModeFaults, PreciseWide, Goes
    <3>5. CASE (\E set, clear \in SUBSET Lines : TiocmSet(t, set, clear)) \/ TiocmWrite(t)
      BY <3>5 DEF TiocmSet, TiocmWrite, Begin, Goes
    <3>6. CASE \E ok \in BOOLEAN : Activate(t, ok)
      BY <3>6 DEF Activate
    <3>7. CASE \E got \in BOOLEAN : Shutdown(t, got)
      BY <3>7 DEF Shutdown, Begin
    <3>8. CASE \E ok \in BOOLEAN : ActivateEnds(t, ok)
      BY <3>8 DEF ActivateEnds, Goes
    <3>9. CASE GpioDirMode(t) \/ Dies(t)
      BY <3>9 DEF GpioDirMode, Goes, Dies
    <3>10. CASE \E g \in Gpios, b \in BOOLEAN : GpioDir(t, g, b)
      BY <3>10 DEF GpioDir, Begin
    <3>11. CASE \E g \in Gpios, b \in BOOLEAN : GpioSet(t, g, b)
      BY <3>11 DEF GpioSet, Begin
    <3> HIDE DEF Order, Ranges, ttyVars, Compares
    <3>12. CASE Begins(t)
      BY <3>2, <3>3, <3>5, <3>6, <3>7, <3>10, <3>11, <3>12, Zenon DEF Begins
    <3>13. CASE GoesOn(t)
      BY <3>1, <3>4, <3>5, <3>8, <3>9, <3>13, Zenon DEF GoesOn
    <3> QED
      BY <1>3, <3>9, <3>12, <3>13, Zenon DEF Turns
  <2> QED
    BY <2>1, <2>3, <2>4
<1> QED
  BY <1>1, <1>2, <1>3, Cases, Zenon

\* gpio_dir_output writes back the mode it read.
LEMMA ModeKept ==
  ASSUME Order, NEW t \in Tasks, GpioDirMode(t), "flow" \notin spoilt',
         NEW r \in FlowRegs, NEW S, Carried(r, S)
  PROVE  Carried(r, S)'
<1>1. Ranges /\ Flags /\ Idle
  BY Zenon DEF Order
<1>2. /\ awake /\ "flow" \notin spoilt /\ todo[t] = << >> /\ op[t] = "high" /\ at[t] = "mode"
      /\ op' = op /\ UNCHANGED <<dev, product>>
      /\ todo' = [todo EXCEPT ![t] = Set("gmode", dev["gmode"])]
  BY DEF GpioDirMode, Goes, Queue
<1>3. "flow" \in Writes("high") /\ "flow" \in Writes("termios") /\ "flow" \in Shared
  BY DEF Writes, Shared
<1>4. Owners("gmode") = {"termios", "mode", "high"} /\ "gmode" \in Registers
  BY SMT DEF Owners, UartRegs, Lines, CodingRegs, Registers
<1>5. ASSUME NEW s \in Tasks PROVE Spares(todo[s], "gmode")
  <2>1. CASE s = t
    BY <1>2, <2>1, Empty, Zenon
  <2>2. CASE at[s] = "dead"
    BY <2>2, Empty, Zenon DEF Order, Idle
  <2>3. CASE s # t /\ at[s] # "dead"
    <3>1. "mode" # "dead"
      OBVIOUS
    <3>2. Active(t, "flow")
      BY <1>2, <1>3, <3>1, Zenon DEF Active
    <3>3. "flow" \notin Writes(op[s])
      BY <1>2, <1>3, <2>3, <3>2, Zenon DEF Order, Alone, Active
    <3>4. op[s] # "termios" /\ op[s] # "high"
      BY <1>3, <3>3, Zenon
    <3>5. op[s] = "mode" => Spares(todo[s], "gmode")
      BY <1>2, Zenon DEF Order, ModeSpares
    <3>6. Spares(todo[s], "gmode") \/ op[s] \in {"termios", "mode", "high"}
      BY <1>4, Zenon DEF Order, Scope
    <3> QED
      BY <3>4, <3>5, <3>6
  <2> QED
    BY <2>1, <2>2, <2>3
<1>6. CASE r = "gmode"
  <2>1. PICK v : v = dev["gmode"]
    BY Zenon
  <2>2. v \in S
    BY <1>5, <1>6, <2>1, Zenon DEF Carried
  <2>3. op' = [op EXCEPT ![t] = "high"]
    BY <1>1, <1>2, Unmoved, Zenon
  <2>4. Turn(t, "high", Set("gmode", v))
    BY <1>2, <2>1, <2>3, Zenon DEF Turn
  <2>5. Agrees(Set("gmode", v), r, S)
    BY <2>2, OneSet, Zenon
  <2> QED
    BY <1>1, <2>4, <2>5, TurnCarries, Zenon
<1>7. CASE r = "flow"
  <2>1. Does(t, "high", {"gmode"})
    BY <1>1, LinesTurns, Zenon
  <2>2. r \in Registers /\ r \notin {"gmode"}
    BY <1>7 DEF Registers
  <2> QED
    BY <1>1, <2>1, <2>2, DoesCarry, Zenon
<1> QED
  BY <1>6, <1>7 DEF FlowRegs

\* The turns but set_termios leave what is carried.
LEMMA OthersCarryFlow ==
  ASSUME Order, [Next]_vars, "flow" \notin spoilt', \A t \in Tasks : ~TermiosLines(t),
         NEW r \in FlowRegs, NEW S, Carried(r, S)
  PROVE  Carried(r, S)'
<1>1. Ranges /\ Flags /\ Idle
  BY Zenon DEF Order
<1>2. CASE \E t \in Tasks : GpioDirMode(t)
  BY <1>2, ModeKept
<1>3. CASE \A t \in Tasks : ~GpioDirMode(t)
  <2>1. ASSUME NEW t \in Tasks, Turns(t) PROVE \E o, R : Does(t, o, R) /\ r \notin R
    <3>1. CASE r = "gmode" /\ GpioModeAccess(t)
      <4>1. PICK o, R : Does(t, o, R) /\ (o = "mode" => "gmode" \notin R)
        BY <1>1, <2>1, ModeTurns, Zenon
      <4>2. op'[t] = o
        BY <1>1, <4>1 DEF Does, Turn, Ranges
      <4>3. op'[t] = "mode"
        BY <3>1, Zenon DEF GpioModeAccess, Goes
      <4> QED
        BY <3>1, <4>1, <4>2, <4>3, Zenon
    <3>2. CASE ~(r = "gmode" /\ GpioModeAccess(t))
      BY <1>3, <2>1, <3>2, FlowNames, SparedTurns, Zenon
    <3> QED
      BY <3>1, <3>2
  <2>2. r \in Registers /\ Group(r) \notin spoilt'
    BY FlowNames, Zenon
  <2> QED
    BY <2>1, <2>2, Bystanders, Zenon
<1> QED
  BY <1>2, <1>3

\* set_flow_mode sets both registers.
LEMMA SetFlowSets ==
  ASSUME NEW f \in Flows, NEW r \in FlowRegs
  PROVE  /\ SetFlow(f) \in Seq(Messages)
         /\ ~Spares(SetFlow(f), r) /\ Agrees(SetFlow(f), r, Mode(r, f))
<1>1. Set("flow", f) \in Seq(Messages) /\ Set("gmode", Selected(f)) \in Seq(Messages)
  BY SetTyped DEF Selected, Registers, Values
<1>2. PICK S : S = Mode(r, f)
  BY Zenon
<1>3. r = "flow" => f \in S
  BY <1>2, Zenon DEF Mode, Alike
<1>4. r = "gmode" => Selected(f) \in S
  <2>1. "gmode" # "flow" /\ Selected(f) \in {Selected(f)}
    OBVIOUS
  <2> QED
    BY <1>2, <2>1, Zenon DEF Mode
<1>5. "gmode" # "flow" /\ (r = "flow" \/ r = "gmode")
  BY DEF FlowRegs
<1>6. /\ Agrees(Set("flow", f), r, S) /\ Agrees(Set("gmode", Selected(f)), r, S)
      /\ ~Spares(Set("flow", f), r) \/ ~Spares(Set("gmode", Selected(f)), r)
  BY <1>3, <1>4, <1>5, OneSet, Zenon
<1>7. ~Spares(SetFlow(f), r) /\ Agrees(SetFlow(f), r, S)
  BY <1>1, <1>6, Joined, Zenon DEF SetFlow
<1> QED
  BY <1>1, <1>2, <1>7, OthersTyped, Zenon

LEMMA NextFlow ==
  ASSUME Order, Order', FlowInv, [Next]_vars
  PROVE  FlowInv'
<1> SUFFICES ASSUME "flow" \notin spoilt', NEW r \in FlowRegs
             PROVE  /\ (\E t \in Tasks : Compares(t)') => Carried(r, Mode(r, oldflow))'
                    /\ (\A t \in Tasks : ~Compares(t)') => Carried(r, Mode(r, termios.flow))'
  BY Zenon DEF FlowInv
<1>1. "flow" \notin spoilt
  BY StaysSpoilt DEF Order
<1>2. /\ (\E t \in Tasks : Compares(t)) => Carried(r, Mode(r, oldflow))
      /\ (\A t \in Tasks : ~Compares(t)) => Carried(r, Mode(r, termios.flow))
  BY <1>1, Zenon DEF FlowInv
<1>3. r \in Registers /\ Group(r) = "flow" /\ r \notin UartRegs /\ r \notin Lines
  BY FlowNames, Zenon
<1>4. Ranges /\ Flags /\ Idle
  BY Zenon DEF Order
<1>5. ASSUME NEW t \in Tasks, NEW new \in Termios, SetTermios(t, new)
      PROVE  (\E s \in Tasks : Compares(s)') /\ Carried(r, Mode(r, oldflow))'
  <2>1. /\ \A s \in Tasks : op[s] # "termios"
        /\ op'[t] = "termios" /\ at'[t] = "lines" /\ oldflow' = termios.flow
    BY <1>4, <1>5 DEF SetTermios, Begin, Ranges
  <2>2. PICK S : S = Mode(r, termios.flow)
    BY Zenon
  <2>3. Carried(r, S)
    BY <1>2, <2>1, <2>2, Zenon DEF Compares
  <2>4. Does(t, "termios", UartRegs)
    BY <1>4, <1>5, TermiosTurns, Zenon
  <2>5. Carried(r, S)'
    BY <1>3, <1>4, <2>3, <2>4, DoesCarry, Zenon
  <2>6. S = Mode(r, oldflow')
    BY <2>1, <2>2, Zenon
  <2> QED
    BY <2>1, <2>5, <2>6, Zenon DEF Compares, Carried
<1>6. ASSUME NEW t \in Tasks, TermiosLines(t)
      PROVE  (\A s \in Tasks : ~Compares(s)') /\ Carried(r, Mode(r, termios.flow))'
  <2>1. PICK a, b : a = (IF ctrlout' # ctrlout THEN SetControl(ctrlout') ELSE << >>) /\ b = FlowChange
    BY Zenon
  <2>2. a \in Seq(Messages) /\ Spares(a, r)
    <3>1. << >> \in Seq(Messages) /\ r \in Registers \ Lines
      BY <1>3
    <3>2. PICK c \in SUBSET Lines : c = ctrlout'
      BY DEF Order, Ranges
    <3>3. SetControl(c) \in Seq(Messages) /\ Spares(SetControl(c), r)
      BY <3>1, PinsTyped, Sent, Zenon
    <3>4. a = SetControl(c) \/ a = << >>
      BY <2>1, <3>2, Zenon
    <3> QED
      BY <3>1, <3>3, <3>4, Empty, Zenon
  <2>3. /\ todo[t] = << >> /\ op[t] = "termios" /\ at[t] = "lines" /\ op' = op
        /\ UNCHANGED <<dev, product, termios>>
        /\ todo' = [todo EXCEPT ![t] = a \o b] /\ at' = [at EXCEPT ![t] = "wide"]
    BY <1>6, <2>1, Zenon DEF TermiosLines, Goes, Queue, ttyVars
  <2>4. op' = [op EXCEPT ![t] = "termios"] /\ at'[t] = "wide"
    BY <1>4, <2>3 DEF Ranges
  <2>5. Turn(t, "termios", a \o b)
    BY <2>3, <2>4, Zenon DEF Turn
  <2>6. \A s \in Tasks : ~Compares(s)'
    BY <2>3, <2>4, Zenon DEF Compares, Order, OneTermios
  <2>7. PICK f \in Flows : f = termios.flow
    BY <1>4 DEF Ranges
  <2>8. PICK S : S = Mode(r, f)
    BY Zenon
  <2>9. CASE (termios.flow = "hw") # (oldflow = "hw")
    <3>1. b = SetFlow(f)
      BY <2>1, <2>7, <2>9, Zenon DEF FlowChange
    <3>2. b \in Seq(Messages) /\ ~Spares(b, r) /\ Agrees(b, r, S)
      BY <2>8, <3>1, SetFlowSets, Zenon
    <3>3. ~Spares(a \o b, r) /\ Agrees(a \o b, r, S)
      BY <2>2, <3>2, Joined, SparesAgrees, Zenon
    <3>4. \A s \in Tasks \ {t} : Spares(todo[s], r)
      <4>1. "flow" \in Shared /\ "flow" \in Writes("termios") /\ "wide" # "dead"
        BY DEF Shared, Writes
      <4>2. Group(r) \in Shared /\ Group(r) \notin spoilt' /\ Group(r) \in Writes("termios")
        BY <1>3, <4>1, Zenon
      <4>3. Does(t, "termios", Lines \cup FlowRegs)
        BY <1>4, <1>6, TermiosTurns, Zenon
      <4> QED
        BY <1>3, <2>4, <4>1, <4>2, <4>3, OthersSpare
    <3>5. Carried(r, S)'
      BY <1>4, <2>5, <3>3, <3>4, TurnSets, Zenon
    <3>6. S = Mode(r, termios'.flow)
      BY <2>3, <2>7, <2>8, Zenon
    <3> QED
      BY <2>6, <3>5, <3>6, Zenon DEF Carried
  <2>10. CASE ~((termios.flow = "hw") # (oldflow = "hw"))
    <3>1. b = << >> /\ << >> \in Seq(Messages)
      BY <2>1, <2>10 DEF FlowChange
    <3>2. Mode(r, oldflow) = S
      <4>1. (oldflow = "hw") <=> (termios.flow = "hw")
        BY <2>10
      <4> QED
        BY <2>7, <2>8, <4>1, Alikes, Zenon
    <3>3. Carried(r, S)
      BY <1>2, <2>3, <3>2, Zenon DEF Compares
    <3>4. Agrees(a \o b, r, S)
      BY <2>2, <3>1, Joined, Empty, SparesAgrees, Zenon
    <3>5. Carried(r, S)'
      BY <1>4, <2>5, <3>3, <3>4, TurnCarries, Zenon
    <3>6. S = Mode(r, termios'.flow)
      BY <2>3, <2>7, <2>8, Zenon
    <3> QED
      BY <2>6, <3>5, <3>6, Zenon DEF Carried
  <2> QED
    BY <2>9, <2>10
<1>7. CASE \A t \in Tasks : ~TermiosLines(t) /\ \A new \in Termios : ~SetTermios(t, new)
  <2>1. /\ termios' = termios /\ oldflow' = oldflow
        /\ \A t \in Tasks : Compares(t)' <=> Compares(t)
    BY <1>7, OthersKeepFlow, Zenon
  <2>2. PICK S, U : S = Mode(r, oldflow) /\ U = Mode(r, termios.flow)
    BY Zenon
  <2>3. /\ Carried(r, S) => Carried(r, S)'
        /\ Carried(r, U) => Carried(r, U)'
    BY <1>7, OthersCarryFlow, Zenon
  <2>4. /\ (\E t \in Tasks : Compares(t)) => Carried(r, S)'
        /\ (\A t \in Tasks : ~Compares(t)) => Carried(r, U)'
    BY <1>2, <2>2, <2>3, Zenon
  <2>5. S = Mode(r, oldflow') /\ U = Mode(r, termios'.flow)
    BY <2>1, <2>2, Zenon
  <2> QED
    BY <2>1, <2>4, <2>5, Zenon DEF Carried
<1> QED
  BY <1>5, <1>6, <1>7, Zenon

\* The device does hardware flow control, and has the pins for it, exactly
\* when the termios ask for it, though set_termios only compares them with
\* the last and gpio_dir_output writes back the register of the pins
\* (xr_usb_serial_common.c:1001, 1158, 1294-1298, xr_usb_serial_hal.c:501-502).
THEOREM FlowIsSet == Spec => []FlowFollows
<1>1. Init => FlowInv
  <2> SUFFICES ASSUME Init, NEW r \in FlowRegs
               PROVE  /\ ~(\E t \in Tasks : Compares(t))
                      /\ Carried(r, Mode(r, termios.flow))
    BY Zenon DEF FlowInv
  <2>1. dev["flow"] = "none" /\ dev["gmode"] = "gpio" /\ termios.flow = "none"
    BY SMT DEF Init
  <2>2. \A t \in Tasks : op[t] = "none" /\ todo[t] = << >>
    BY SMT DEF Init
  <2>3. PICK S : S = Mode(r, termios.flow)
    BY Zenon
  <2>4. dev[r] \in S
    BY <2>1, <2>3 DEF Mode, Alike, Flows, Selected, FlowRegs
  <2>5. Carried(r, S)
    BY <2>2, <2>4, Empty, Zenon DEF Carried
  <2> QED
    BY <2>2, <2>3, <2>5, Zenon DEF Compares
<1>2. Order /\ FlowInv /\ Order' /\ [Next]_vars => FlowInv'
  BY NextFlow
<1>3. Order /\ FlowInv => FlowFollows
  <2> SUFFICES ASSUME Order, FlowInv, Quiet, "flow" \notin spoilt
               PROVE  /\ dev["flow"] = "hw" <=> termios.flow = "hw"
                      /\ dev["gmode"] = Selected(termios.flow)
    BY Zenon DEF FlowFollows
  <2>1. \A t \in Tasks : ~Compares(t)
    <3>1. "none" # "termios" /\ "dead" # "lines"
      OBVIOUS
    <3> QED
      BY <3>1, Zenon DEF Quiet, Compares
  <2>2. ASSUME NEW r \in FlowRegs PROVE dev[r] \in Mode(r, termios.flow)
    <3>1. PICK S : S = Mode(r, termios.flow)
      BY Zenon
    <3>2. Carried(r, S)
      BY <2>1, <3>1, Zenon DEF FlowInv
    <3> QED
      BY <3>1, <3>2, QuietCarries, Zenon
  <2>3. "flow" \in FlowRegs /\ "gmode" \in FlowRegs /\ "gmode" # "flow"
    BY DEF FlowRegs
  <2>4. dev["flow"] \in Alike(termios.flow) /\ dev["gmode"] \in {Selected(termios.flow)}
    BY <2>2, <2>3, Zenon DEF Mode
  <2> QED
    BY <2>4, Zenon DEF Alike
<1> QED
  BY <1>1, <1>2, <1>3, Ordered, PTL DEF Spec

-----------------------------------------------------------------------------
(* Wide mode.                                                              *)

\* What the device may be in while a set_termios has yet to decide, and at
\* rest.
WideEnough(flags) == {b \in BOOLEAN : flags => b}
WideRight(flags, nine) == {b \in BOOLEAN : (flags => b) /\ (b => flags \/ nine)}

Decides(t) == op[t] = "termios" /\ at[t] = "wide"

WideInv ==
  "wide" \notin spoilt =>
    /\ Carried("wide", WideEnough(preciseflags))
    /\ Carried("wide", WideRight(preciseflags, trans9)) \/ \E t \in Tasks : Decides(t)

Widens(t) ==
  TermiosLines(t) \/ TermiosWide(t) \/ \E on \in BOOLEAN : PreciseWide(t, on)

LEMMA OthersKeepWide ==
  ASSUME Order, [Next]_vars, \A t \in Tasks : ~Widens(t)
  PROVE  /\ preciseflags' = preciseflags /\ trans9' = trans9
         /\ \A t \in Tasks : Decides(t)' <=> Decides(t)
         /\ \A t \in Tasks : Turns(t) => \E o, R : Does(t, o, R) /\ "wide" \notin R
<1>0. \A t \in Tasks : Turns(t) => \E o, R : Does(t, o, R) /\ "wide" \notin R
  <2>1. /\ "wide" \in Registers /\ "wide" \notin UartRegs /\ "wide" \notin CodingRegs /\ "wide" \notin Lines
        /\ "wide" \notin FlowRegs
    BY DEF CodingRegs, UartRegs, FlowRegs, Lines, Registers
  <2>2. \A t \in Tasks : ~(TermiosWide(t) \/ \E on \in BOOLEAN : PreciseWide(t, on))
    BY Zenon DEF Widens
  <2> QED
    BY <2>1, <2>2, SparedTurns
<1> USE DEF Decides
<1>1. CASE Sleep \/ Wake \/ UNCHANGED vars
  BY <1>0, <1>1, Zenon DEF Sleep, Wake, vars, driverVars
<1>2. ASSUME NEW t \in Tasks, Send(t) \/ Return(t)
      PROVE  /\ preciseflags' = preciseflags /\ trans9' = trans9
             /\ \A s \in Tasks : Decides(s)' <=> Decides(s)
  <2>1. CASE Send(t)
    BY <2>1, Zenon DEF Send, driverVars
  <2>2. CASE Return(t)
    <3>1. /\ UNCHANGED <<preciseflags, trans9>> /\ at[t] # "wide" /\ op'[t] = "none"
          /\ \A s \in Tasks \ {t} : op'[s] = op[s] /\ at'[s] = at[s]
      BY <2>2 DEF Return, Order, Ranges, driverVars
    <3> QED
      BY <3>1
  <2> QED
    BY <1>2, <2>1, <2>2
<1>3. ASSUME NEW t \in Tasks, Turns(t)
      PROVE  /\ preciseflags' = preciseflags /\ trans9' = trans9
             /\ \A s \in Tasks : Decides(s)' <=> Decides(s)
  <2>1. \A s \in Tasks \ {t} : at'[s] = at[s]
    BY <1>3, TurnPlaces, Zenon
  <2>2. PICK o, R : Does(t, o, R)
    BY <1>3, OwnTurns, Zenon DEF Order
  <2>3. op'[t] = o /\ \A s \in Tasks \ {t} : op'[s] = op[s]
    BY <2>2 DEF Does, Turn, Order, Ranges
  <2>4. ~Decides(t) /\ ~Decides(t)' /\ preciseflags' = preciseflags /\ trans9' = trans9
    <3> USE DEF Order, Ranges, driverVars
    <3>1. CASE \/ \E place \in {"end", "divide"} : TermiosLine(t, place)
               \/ \E new \in Termios : SetTermios(t, new)
      BY <3>1 DEF SetTermios, TermiosLine, Begin, Goes
    <3>2. CASE \E rate \in Rates, place \in {"end", "divide"} : AnyBaudRate(t, rate, place)
      BY <3>2 DEF AnyBaudRate, Begin
    <3>3. CASE PreciseFlags(t) \/ Loopback(t) \/ GpioMode(t)
      BY <3>3 DEF PreciseFlags, Loopback, GpioMode, Begin
    <3>4. CASE GpioModeAccess(t) \/ GpioModeFaults(t)
      BY <3>4 DEF GpioModeAccess, GpioModeFaults, Goes
    <3>5. CASE (\E set, clear \in SUBSET Lines : TiocmSet(t, set, clear)) \/ TiocmWrite(t)
      BY <3>5 DEF TiocmSet, TiocmWrite, Begin, Goes
    <3>6. CASE \E ok \in BOOLEAN : Activate(t, ok)
      BY <3>6 DEF Activate
    <3>7. CASE \E got \in BOOLEAN : Shutdown(t, got)
      BY <3>7 DEF Shutdown, Begin
    <3>8. CASE \E ok \in BOOLEAN : ActivateEnds(t, ok)
      BY <3>8 DEF ActivateEnds, Goes
    <3>9. CASE GpioDirMode(t) \/ Dies(t)
      BY <3>9 DEF GpioDirMode, Goes, Dies
    <3>10. CASE \E g \in Gpios, b \in BOOLEAN : GpioDir(t, g, b)
      BY <3>10 DEF GpioDir, Begin
    <3>11. CASE \E g \in Gpios, b \in BOOLEAN : GpioSet(t, g, b)
      BY <3>11 DEF GpioSet, Begin
    <3>14. ~TermiosLines(t) /\ ~TermiosWide(t) /\ \A on \in BOOLEAN : ~PreciseWide(t, on)
      BY Zenon DEF Widens
    <3> HIDE DEF Order, Ranges, driverVars, Decides
    <3>12. CASE Begins(t)
      BY <3>1, <3>2, <3>3, <3>5, <3>6, <3>7, <3>10, <3>11, <3>12, Zenon DEF Begins
    <3>13. CASE GoesOn(t)
      BY <3>1, <3>4, <3>5, <3>8, <3>9, <3>13, <3>14, Zenon DEF GoesOn
    <3> QED
      BY <1>3, <3>9, <3>12, <3>13, Zenon DEF Turns
  <2> QED
    BY <2>1, <2>3, <2>4
<1> QED
  BY <1>0, <1>1, <1>2, <1>3, Cases, Zenon

LEMMA NextWide ==
  ASSUME Order, Order', WideInv, [Next]_vars
  PROVE  WideInv'
<1> SUFFICES ASSUME "wide" \notin spoilt'
             PROVE  /\ Carried("wide", WideEnough(preciseflags))'
                    /\ \/ Carried("wide", WideRight(preciseflags, trans9))'
                       \/ \E t \in Tasks : Decides(t)'
  BY Zenon DEF WideInv
<1>1. "wide" \notin spoilt
  BY StaysSpoilt DEF Order
<1>2. /\ Carried("wide", WideEnough(preciseflags))
      /\ Carried("wide", WideRight(preciseflags, trans9)) \/ \E t \in Tasks : Decides(t)
  BY <1>1, Zenon DEF WideInv
<1>3. /\ "wide" \in Registers /\ Group("wide") = "wide"
      /\ "wide" \in Writes("termios") /\ "wide" \in Writes("precise") /\ "wide" \in Shared
  BY SMT DEF Registers, Group, Lines, Writes, Shared
<1>4. Ranges /\ Flags /\ Idle
  BY Zenon DEF Order
\* A value that is set, and that both sets allow.
<1>5. ASSUME NEW t \in Tasks, NEW o, NEW R, Does(t, o, R), "wide" \in Writes(o),
             NEW place, at' = [at EXCEPT ![t] = place], place # "dead",
             NEW q, Turn(t, o, q), NEW b \in BOOLEAN, ~Spares(q, "wide"), Agrees(q, "wide", {b}),
             preciseflags' => b, b => preciseflags' \/ trans9'
      PROVE  /\ Carried("wide", WideEnough(preciseflags))'
             /\ Carried("wide", WideRight(preciseflags, trans9))'
  <2>1. \A s \in Tasks \ {t} : Spares(todo[s], "wide")
    <3>1. at'[t] # "dead"
      BY <1>4, <1>5 DEF Ranges
    <3>2. Group("wide") \in Shared /\ Group("wide") \notin spoilt' /\ Group("wide") \in Writes(o)
      BY <1>3, <1>5, Zenon
    <3> QED
      BY <1>3, <1>5, <3>1, <3>2, OthersSpare
  <2>2. Carried("wide", {b})'
    BY <1>4, <1>5, <2>1, TurnSets, Zenon
  <2>3. PICK S, U : S = WideEnough(preciseflags') /\ U = WideRight(preciseflags', trans9')
    BY Zenon
  <2>4. {b} \subseteq S /\ {b} \subseteq U
    <3>1. b \in WideEnough(preciseflags')
      BY <1>5, Zenon DEF WideEnough
    <3>2. b \in WideRight(preciseflags', trans9')
      BY <1>5, Zenon DEF WideRight
    <3>3. b \in S /\ b \in U
      BY <2>3, <3>1, <3>2, Zenon
    <3> QED
      BY <3>3
  <2>5. Carried("wide", S)' /\ Carried("wide", U)'
    BY <2>2, <2>4, Zenon DEF Carried, Agrees
  <2> QED
    BY <2>3, <2>5, Zenon DEF Carried
<1>6. ASSUME NEW t \in Tasks, TermiosLines(t)
      PROVE  Carried("wide", WideEnough(preciseflags))' /\ \E s \in Tasks : Decides(s)'
  <2>1. op'[t] = "termios" /\ at'[t] = "wide" /\ preciseflags' = preciseflags
    BY <1>4, <1>6 DEF TermiosLines, Goes, Ranges
  <2>2. Does(t, "termios", Lines \cup FlowRegs) /\ "wide" \notin Lines \cup FlowRegs
    <3>1. "wide" \notin Lines \cup FlowRegs
      BY DEF Lines, FlowRegs
    <3> QED
      BY <1>4, <1>6, <3>1, TermiosTurns, Zenon
  <2>3. PICK S : S = WideEnough(preciseflags)
    BY Zenon
  <2>4. Carried("wide", S)'
    BY <1>2, <1>3, <1>4, <2>2, <2>3, DoesCarry, Zenon
  <2>5. S = WideEnough(preciseflags')
    BY <2>1, <2>3, Zenon
  <2> QED
    BY <2>1, <2>4, <2>5, Zenon DEF Decides, Carried
<1>7. ASSUME NEW t \in Tasks, TermiosWide(t)
      PROVE  /\ Carried("wide", WideEnough(preciseflags))'
             /\ Carried("wide", WideRight(preciseflags, trans9))'
  <2>1. /\ todo[t] = << >> /\ op[t] = "termios" /\ op' = op /\ UNCHANGED <<dev, product, preciseflags, trans9>>
        /\ todo' = [todo EXCEPT ![t] = IF trans9 THEN SetWide(TRUE)
                                       ELSE IF preciseflags THEN << >> ELSE SetWide(FALSE)]
        /\ at' = [at EXCEPT ![t] = "line"] /\ "line" # "dead"
    BY <1>7, Zenon DEF TermiosWide, Goes, Queue, driverVars
  <2>2. op' = [op EXCEPT ![t] = "termios"]
    BY <1>4, <2>1, Unmoved, Zenon
  <2>3. Does(t, "termios", UartRegs \cup {"wide"})
    BY <1>4, <1>7, TermiosTurns, Zenon
  <2>4. TRUE \in BOOLEAN /\ FALSE \in BOOLEAN
    OBVIOUS
  <2>5. CASE trans9
    <3>1. Turn(t, "termios", SetWide(TRUE))
      BY <2>1, <2>2, <2>5, Zenon DEF Turn
    <3>2. ~Spares(SetWide(TRUE), "wide") /\ Agrees(SetWide(TRUE), "wide", {TRUE})
      BY <1>3, <2>4, WideSpares, Zenon
    <3>3. trans9'
      BY <2>1, <2>5, Zenon
    <3> QED
      BY <1>3, <1>5, <2>1, <2>3, <2>4, <3>1, <3>2, <3>3, Zenon
  <2>6. CASE ~trans9 /\ preciseflags
    <3>1. Turn(t, "termios", << >>)
      BY <2>1, <2>2, <2>6, Zenon DEF Turn
    <3>2. PICK S : S = WideEnough(preciseflags)
      BY Zenon
    <3>3. Carried("wide", S)'
      BY <1>2, <1>4, <3>1, <3>2, Empty, TurnCarries, Zenon
    <3>4. S = WideEnough(preciseflags') /\ S = WideRight(preciseflags', trans9')
      BY <2>1, <2>6, <3>2, Zenon DEF WideEnough, WideRight
    <3> QED
      BY <3>3, <3>4, Zenon DEF Carried
  <2>7. CASE ~trans9 /\ ~preciseflags
    <3>1. Turn(t, "termios", SetWide(FALSE))
      BY <2>1, <2>2, <2>7, Zenon DEF Turn
    <3>2. ~Spares(SetWide(FALSE), "wide") /\ Agrees(SetWide(FALSE), "wide", {FALSE})
      BY <1>3, <2>4, WideSpares, Zenon
    <3>3. ~preciseflags'
      BY <2>1, <2>7, Zenon
    <3> QED
      BY <1>3, <1>5, <2>1, <2>3, <2>4, <3>1, <3>2, <3>3, Zenon
  <2> QED
    BY <2>5, <2>6, <2>7
<1>8. ASSUME NEW t \in Tasks, NEW on \in BOOLEAN, PreciseWide(t, on)
      PROVE  /\ Carried("wide", WideEnough(preciseflags))'
             /\ Carried("wide", WideRight(preciseflags, trans9))'
  <2>1. /\ todo[t] = << >> /\ op[t] = "precise" /\ op' = op /\ UNCHANGED <<dev, product>>
        /\ preciseflags' = on /\ todo' = [todo EXCEPT ![t] = SetWide(on) \o Enable]
        /\ at' = [at EXCEPT ![t] = "end"] /\ "end" # "dead"
    BY <1>8, Zenon DEF PreciseWide, Goes, Queue
  <2>2. op' = [op EXCEPT ![t] = "precise"]
    BY <1>4, <2>1, Unmoved, Zenon
  <2>3. Does(t, "precise", UartRegs \cup {"wide"})
    BY <1>4, <1>8, IoctlTurns, Zenon
  <2>4. Turn(t, "precise", SetWide(on) \o Enable)
    BY <2>1, <2>2, Zenon DEF Turn
  <2>5. ~Spares(SetWide(on) \o Enable, "wide") /\ Agrees(SetWide(on) \o Enable, "wide", {on})
    <3>1. /\ SetWide(on) \in Seq(Messages) /\ Enable \in Seq(Messages)
          /\ ~Spares(SetWide(on), "wide") /\ Agrees(SetWide(on), "wide", {on})
      BY <1>3, OthersTyped, EnableTyped, WideSpares, Zenon
    <3>2. "wide" \in Registers \ UartRegs
      BY <1>3 DEF UartRegs
    <3>3. Spares(Enable, "wide")
      BY <3>2, Sent, Zenon
    <3> QED
      BY <3>1, <3>3, Joined, SparesAgrees, Zenon
  <2> QED
    BY <1>3, <1>5, <2>1, <2>3, <2>4, <2>5, Zenon
<1>9. CASE \A t \in Tasks : ~Widens(t)
  <2>1. /\ preciseflags' = preciseflags /\ trans9' = trans9
        /\ \A t \in Tasks : Decides(t)' <=> Decides(t)
        /\ \A t \in Tasks : Turns(t) => \E o, R : Does(t, o, R) /\ "wide" \notin R
    BY <1>9, OthersKeepWide, Zenon
  <2>2. PICK S, U : S = WideEnough(preciseflags) /\ U = WideRight(preciseflags, trans9)
    BY Zenon
  <2>3. \A V : Carried("wide", V) => Carried("wide", V)'
    BY <1>3, <2>1, Bystanders
  <2>4. Carried("wide", S)' /\ (Carried("wide", U)' \/ \E t \in Tasks : Decides(t)')
    BY <1>2, <2>1, <2>2, <2>3, Zenon
  <2>5. S = WideEnough(preciseflags') /\ U = WideRight(preciseflags', trans9')
    BY <2>1, <2>2, Zenon
  <2> QED
    BY <2>4, <2>5, Zenon DEF Carried
<1> QED
  BY <1>6, <1>7, <1>8, <1>9, Zenon DEF Widens

\* The device sends pairs while process_read_urb takes them, and is in wide
\* mode for the precise flags or for nine-bit characters only
\* (xr_usb_serial_common.c:413, 1067-1077, 1164-1172).
THEOREM WideIsSet == Spec => []WideFollows
<1>1. Init => WideInv
  <2> SUFFICES ASSUME Init PROVE WideInv
    OBVIOUS
  <2>1. dev["wide"] = FALSE /\ preciseflags = FALSE
    BY SMT DEF Init
  <2>2. \A t \in Tasks : todo[t] = << >>
    BY SMT DEF Init
  <2>3. PICK S, U : S = WideEnough(preciseflags) /\ U = WideRight(preciseflags, trans9)
    BY Zenon
  <2>4. FALSE \in S /\ FALSE \in U
    BY <2>1, <2>3, Zenon DEF WideEnough, WideRight
  <2>5. Carried("wide", S) /\ Carried("wide", U)
    BY <2>1, <2>2, <2>4, Empty, Zenon DEF Carried
  <2> QED
    BY <2>3, <2>5, Zenon DEF WideInv
<1>2. Order /\ WideInv /\ Order' /\ [Next]_vars => WideInv'
  BY NextWide
<1>3. Order /\ WideInv => WideFollows
  <2> SUFFICES ASSUME Order, WideInv, Quiet, "wide" \notin spoilt
               PROVE  (preciseflags => dev["wide"]) /\ (dev["wide"] => preciseflags \/ trans9)
    BY Zenon DEF WideFollows
  <2>1. PICK U : U = WideRight(preciseflags, trans9)
    BY Zenon
  <2>2. Carried("wide", U)
    <3>1. "none" # "termios" /\ "dead" # "wide"
      OBVIOUS
    <3> QED
      BY <2>1, <3>1, Zenon DEF WideInv, Decides, Quiet
  <2>3. dev["wide"] \in U
    BY <2>2, QuietCarries, Zenon
  <2> QED
    BY <2>1, <2>3, Zenon DEF WideRight
<1> QED
  BY <1>1, <1>2, <1>3, Ordered, PTL DEF Spec
=============================================================================
