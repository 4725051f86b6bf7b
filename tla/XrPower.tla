------------------------------ MODULE XrPower -------------------------------
(***************************************************************************)
(* The session of an Exar serial port and the power of its device, as the  *)
(* transmit and the receive path share them: XrWrite and XrRead each       *)
(* implement it, and what one of them takes for granted of the other's     *)
(* side is here.  Above all, an open or a close that has found its device  *)
(* awake keeps it awake until it puts its reference, as long as the count  *)
(* of references is sound: XrRead supposes it of the core, and XrWrite     *)
(* shows it of the driver's runtime PM references.  The count stops being  *)
(* sound when a reference is put that was never taken, and is not again    *)
(* before the device is bound anew.  And susp_count counts the interfaces  *)
(* up and down, one call of the core at a time, so that every one is       *)
(* suspended before the device sleeps and resumed before the driver counts *)
(* it awake again.                                                         *)
(***************************************************************************)
EXTENDS Naturals

CONSTANT Interfaces  \* how many

VARIABLES
  session,    \* "closed", "opening", "held", "starting", "open", "closing", "killing"
  level,      \* "awake", "suspending", "asleep", "resuming"
  suspended,  \* interfaces
  sound       \* every reference put so far had been taken

powerVars == <<session, level, suspended, sound>>

Init == session = "closed" /\ level = "awake" /\ suspended = 0 /\ sound = TRUE

Session(from, to) ==
  /\ session = from /\ session' = to
  /\ UNCHANGED <<level, suspended>>

\* An open takes its reference, waits for the device, works, puts it back,
\* and tells the tty core after having started to read, or in vain to.
OpenGet == Session("closed", "opening") /\ UNCHANGED sound
OpenRefused == Session("opening", "closed") /\ UNCHANGED sound
OpenAwake == level = "awake" /\ Session("opening", "held") /\ UNCHANGED sound
OpenPut == Session("held", "starting") /\ UNCHANGED sound
OpenEnds == Session("starting", "open") /\ sound' \in {sound, FALSE}

\* A close kills the URBs once its reference is granted, or refused.
CloseGet == Session("open", "closing") /\ UNCHANGED sound
CloseAwake == level = "awake" /\ Session("closing", "killing") /\ UNCHANGED sound
CloseRefused ==
  /\ level \in {"awake", "asleep"}
  /\ Session("closing", "killing") /\ sound' = FALSE
CloseEnds == Session("killing", "closed") /\ UNCHANGED sound

\* A write, to an open port, whose reference is refused.
WriteRefused ==
  /\ session = "open" /\ sound' = FALSE
  /\ UNCHANGED <<session, level, suspended>>

Level(from, to) ==
  /\ level = from /\ level' = to
  /\ UNCHANGED <<session, suspended, sound>>

\* No suspend starts under the reference of an open or a close.
Referenced == session \in {"opening", "held", "closing", "killing"}

SuspendStart == (Referenced => ~sound) /\ Level("awake", "suspending")
SuspendRefused == Level("suspending", IF suspended = 0 THEN "awake" ELSE "resuming")
FallAsleep == suspended = Interfaces /\ Level("suspending", "asleep")
WakeUp == Level("asleep", "resuming")
Resumed == suspended = 0 /\ Level("resuming", "awake")

Counts(l, from, to) ==
  /\ level = l /\ suspended = from /\ suspended' = to
  /\ UNCHANGED <<session, level, sound>>

SuspendOne(n) == Counts("suspending", n, n + 1)
ResumeOne(n) == Counts("resuming", n + 1, n)

Next ==
  \/ OpenGet \/ OpenRefused \/ OpenAwake \/ OpenPut \/ OpenEnds
  \/ CloseGet \/ CloseAwake \/ CloseRefused \/ CloseEnds \/ WriteRefused
  \/ SuspendStart \/ SuspendRefused \/ FallAsleep \/ WakeUp \/ Resumed
  \/ \E n \in 0..(Interfaces - 1) : SuspendOne(n) \/ ResumeOne(n)

Spec == Init /\ [][Next]_powerVars
=============================================================================
