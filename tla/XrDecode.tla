------------------------------ MODULE XrDecode ------------------------------
(***************************************************************************)
(* What the Exar USB-serial driver makes of the bytes of a read URB        *)
(* (src/ExarKernelDriver/xr_usb_serial_common.c, process_read_urb): with   *)
(* preciseflags the device is in wide mode and sends each character with a *)
(* byte of status.                                                         *)
(*                                                                         *)
(* xr_usb_serial->have_extra_byte and ->extra_byte are to carry the        *)
(* character of a pair that two URBs share.  process_read_urb reads them,  *)
(* but computes the next have_extra_byte into a local of the same name, so *)
(* that the members keep the zeros of kzalloc.                             *)
(***************************************************************************)
EXTENDS Naturals, Sequences

Bytes == 0..255

Bit(byte, n) == (byte \div 2^n) % 2 = 1

\* RAMCTL_BUFFER_PARITY, _BREAK, _FRAME, _OVERRUN: the first that is set.
TtyFlag(status) ==
  IF Bit(status, 0) THEN "parity"
  ELSE IF Bit(status, 1) THEN "break"
  ELSE IF Bit(status, 2) THEN "frame"
  ELSE IF Bit(status, 3) THEN "overrun" ELSE "normal"

Received(byte, flag) == [ch |-> byte, flag |-> flag]

\* The pairs of a string of bytes; a last byte without its status is left.
Pairs(bytes) ==
  [i \in 1..(Len(bytes) \div 2) |-> Received(bytes[2 * i - 1], TtyFlag(bytes[2 * i]))]

\* process_read_urb, given what the members hold.
ProcessReadUrb(precise, have, extra, urb) ==
  IF precise
  THEN Pairs(IF have THEN <<extra>> \o urb ELSE urb)
  ELSE [i \in 1..Len(urb) |-> Received(urb[i], "normal")]

\* What the driver does: the members are never set.
Precise(urb) == ProcessReadUrb(TRUE, FALSE, 0, urb)
Plain(urb) == ProcessReadUrb(FALSE, FALSE, 0, urb)

-----------------------------------------------------------------------------
(* What it may mean that an URB a is followed by b.                        *)

\* What the driver inserts for the two is what it would for one URB with the
\* bytes of both (lines 421-465).
Splits(a, b) == Precise(a) \o Precise(b) = Precise(a \o b)

\* The same, had the last byte of a been kept (lines 428-431).
KeptWhole(a, b) == Precise(a) \o ProcessReadUrb(TRUE, TRUE, a[Len(a)], b) = Precise(a \o b)

\* The last character of a is not inserted; in its place is its status, as a
\* character with the status of another (lines 421-442).
BreaksPair(a, b) ==
  LET last == (Len(a) + 1) \div 2 IN
  /\ Precise(a \o b)[last] = Received(a[Len(a)], TtyFlag(b[1]))
  /\ (Precise(a) \o Precise(b))[last] = Received(b[1], TtyFlag(b[2]))
=============================================================================
