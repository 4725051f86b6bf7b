------------------------------- MODULE XrPool -------------------------------
(***************************************************************************)
(* What the write path of the Exar USB-serial driver promises about each   *)
(* of its write buffers, whatever suspend, resume, open, close, hang-up,   *)
(* completion and writer do: a buffer has one owner at a time, moves       *)
(* between owners only along the edges below, and belongs to the host      *)
(* controller only while the device is awake.  XrWrite implements it.      *)
(*                                                                         *)
(* One of the edges is a defect that the promise has to name: a buffer     *)
(* filled while another is parked is stranded, and stays so.               *)
(***************************************************************************)
EXTENDS Naturals

CONSTANT Buffers

VARIABLES
  owner,  \* of each buffer
  awake   \* the device is not suspended

poolVars == <<owner, awake>>

Owners == {"nobody", "controller", "parked", "resume", "stranded"}

PoolInit == owner = [b \in Buffers |-> "nobody"] /\ awake = TRUE

Owned(o) == {b \in Buffers : owner[b] = o}

Pass(b, from, to) == owner[b] = from /\ owner' = [owner EXCEPT ![b] = to]

\* A write to a device that is awake, and its completion.
Submit(b) == awake /\ Pass(b, "nobody", "controller") /\ UNCHANGED awake
Finish(b) == awake /\ Pass(b, "controller", "nobody") /\ UNCHANGED awake

\* A write to a suspended device: one is parked, the next ones are stranded.
ParkOne(b) == Owned("parked") = {} /\ Pass(b, "nobody", "parked") /\ UNCHANGED awake
Strand(b) == Owned("parked") # {} /\ Pass(b, "nobody", "stranded") /\ UNCHANGED awake

\* resume takes the parked buffer, and submits it or gives it up.
Take(b) ==
  /\ awake /\ Owned("resume") = {}
  /\ Pass(b, "parked", "resume")
  /\ UNCHANGED awake
Resubmit(b) == awake /\ Pass(b, "resume", "controller") /\ UNCHANGED awake
GiveUp(b) == awake /\ Pass(b, "resume", "nobody") /\ UNCHANGED awake

\* The device sleeps only when nothing is on its way to it.
FallAsleep ==
  /\ awake /\ Owned("controller") = {} /\ Owned("resume") = {}
  /\ awake' = FALSE /\ UNCHANGED owner
WakeUp == ~awake /\ awake' = TRUE /\ UNCHANGED owner

PoolNext ==
  \/ FallAsleep \/ WakeUp
  \/ \E b \in Buffers :
       \/ Submit(b) \/ Finish(b) \/ ParkOne(b) \/ Strand(b)
       \/ Take(b) \/ Resubmit(b) \/ GiveUp(b)

PoolSpec == PoolInit /\ [][PoolNext]_poolVars
=============================================================================
