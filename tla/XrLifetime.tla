----------------------------- MODULE XrLifetime -----------------------------
(***************************************************************************)
(* What the Exar USB-serial driver promises about the life of a device's   *)
(* structure, whatever probes, opens, hang-ups, closes and disconnects     *)
(* meet: it lives while somebody holds it, holders come only through the   *)
(* minor table and only while the device is there, the holder that leaves  *)
(* last sends it to its end, and it stays in the table until no lookup is  *)
(* at it and is freed only afterwards.  XrPort implements it: the set of   *)
(* holders is its kref, the driver's own reference included.               *)
(***************************************************************************)
CONSTANTS
  Devs, Minors, NoDev,
  Users,    \* ttys
  Driver    \* probe's own reference

VARIABLES
  life,     \* device -> "free", "zeroed", "ready", "dying", "released"
  holders,  \* device -> who holds its structure
  slot,     \* minor -> device
  found,    \* the device a lookup has found and waits at
  gone      \* the devices that were disconnected

lifeVars == <<life, holders, slot, found, gone>>

Init ==
  /\ life = [d \in Devs |-> "free"]
  /\ holders = [d \in Devs |-> {}]
  /\ slot = [m \in Minors |-> NoDev]
  /\ found = NoDev /\ gone = {}

Becomes(d, from, to) == life[d] = from /\ life' = [life EXCEPT ![d] = to]

Unlisted(d) == slot' = [m \in Minors |-> IF slot[m] = d THEN NoDev ELSE slot[m]]

\* probe: the structure is allocated into a free slot, then initialized.
Publish(d, m) ==
  /\ Becomes(d, "free", "zeroed") /\ found = NoDev
  /\ slot[m] = NoDev /\ slot' = [slot EXCEPT ![m] = d]
  /\ gone' = gone \ {d}
  /\ UNCHANGED <<holders, found>>
Ready(d) ==
  /\ Becomes(d, "zeroed", "ready") /\ holders[d] = {}
  /\ holders' = [holders EXCEPT ![d] = {Driver}]
  /\ UNCHANGED <<slot, found, gone>>

\* A probe that fails frees the structure, that nobody else has held yet.
Abandon(d) ==
  /\ Becomes(d, "ready", "free") /\ found = NoDev
  /\ holders[d] = {Driver} /\ holders' = [holders EXCEPT ![d] = {}]
  /\ Unlisted(d)
  /\ UNCHANGED <<found, gone>>

\* An open: one lookup at a time, that finds the device gone or gets it.
Lookup(m) ==
  /\ found = NoDev /\ slot[m] # NoDev /\ found' = slot[m]
  /\ UNCHANGED <<life, holders, slot, gone>>
Miss == found \in gone /\ found' = NoDev /\ UNCHANGED <<life, holders, slot, gone>>
Get(d, x) ==
  /\ found = d /\ found' = NoDev
  /\ d \notin gone /\ life[d] = "ready" /\ Driver \in holders[d]
  /\ \A e \in Devs : x \notin holders[e]
  /\ holders' = [holders EXCEPT ![d] = @ \cup {x}]
  /\ UNCHANGED <<life, slot, gone>>

Disconnect(d) ==
  /\ d \notin gone /\ Driver \in holders[d]
  /\ gone' = gone \cup {d}
  /\ UNCHANGED <<life, holders, slot, found>>

\* The driver lets go of a device that is gone, a user when it likes.
Put(d, h) ==
  /\ life[d] = "ready" /\ h \in holders[d] /\ (h = Driver => d \in gone)
  /\ holders' = [holders EXCEPT ![d] = @ \ {h}]
  /\ life' = IF holders[d] = {h} THEN [life EXCEPT ![d] = "dying"] ELSE life
  /\ UNCHANGED <<slot, found, gone>>

\* The end: out of the table while no lookup is in it, then freed.
Unlist(d) ==
  /\ Becomes(d, "dying", "released") /\ found = NoDev
  /\ Unlisted(d)
  /\ UNCHANGED <<holders, found, gone>>
Free(d) ==
  /\ Becomes(d, "released", "free")
  /\ gone' = gone \ {d}
  /\ UNCHANGED <<holders, slot, found>>

Next ==
  \/ Miss
  \/ \E m \in Minors : Lookup(m)
  \/ \E d \in Devs :
       \/ Ready(d) \/ Abandon(d) \/ Disconnect(d) \/ Unlist(d) \/ Free(d)
       \/ \E m \in Minors : Publish(d, m)
       \/ \E x \in Users : Get(d, x)
       \/ \E h \in Users \cup {Driver} : Put(d, h)

Spec == Init /\ [][Next]_lifeVars
=============================================================================
