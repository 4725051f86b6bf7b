------------------------------- MODULE XrUrbs -------------------------------
(***************************************************************************)
(* What the receive path of the Exar USB-serial driver promises about each *)
(* of its read URBs, whatever handler, reader, open, close, suspend and    *)
(* resume do: an URB is with nobody, with one caller of submit_read_urb or *)
(* with the host controller, and moves between them only along the edges   *)
(* below; a caller has one URB in hand at most; none is submitted to a     *)
(* device that is being flushed or sleeps, and the device sleeps only      *)
(* without any; and an URB that a close has killed moves no more before    *)
(* the next open.  XrRead implements it.                                   *)
(***************************************************************************)
CONSTANTS Urbs, Callers

VARIABLES
  owner,   \* of each URB
  power,   \* "awake", "flushing", "asleep"
  killed   \* the URBs the close has killed; all of them while closed

urbVars == <<owner, power, killed>>

Init ==
  /\ owner = [u \in Urbs |-> "nobody"]
  /\ power = "awake"
  /\ killed = Urbs

Owned(o) == {u \in Urbs : owner[u] = o}

Pass(u, from, to) ==
  /\ owner[u] = from /\ owner' = [owner EXCEPT ![u] = to]
  /\ UNCHANGED <<power, killed>>

\* The caller that takes an URB submits it or puts it back, nobody else.
Take(u, c) == u \notin killed /\ Owned(c) = {} /\ Pass(u, "nobody", c)
Submit(u, c) == power = "awake" /\ u \notin killed /\ Pass(u, c, "controller")
PutBack(u, c) == Pass(u, c, "nobody")

\* Completed, killed or flushed.
GiveBack(u) == power # "asleep" /\ Pass(u, "controller", "nobody")

\* usb_kill_urb has returned: the URB is back.
Kill(u) ==
  /\ u \notin killed /\ owner[u] = "nobody"
  /\ killed' = killed \cup {u}
  /\ UNCHANGED <<owner, power>>

\* Only a close that has killed every URB is followed by an open.
Reopen ==
  /\ killed = Urbs /\ killed' = {}
  /\ UNCHANGED <<owner, power>>

Flush ==
  /\ power = "awake" /\ power' = "flushing"
  /\ UNCHANGED <<owner, killed>>
Sleep ==
  /\ power = "flushing" /\ Owned("controller") = {}
  /\ power' = "asleep"
  /\ UNCHANGED <<owner, killed>>
Wake ==
  /\ power = "asleep" /\ power' = "awake"
  /\ UNCHANGED <<owner, killed>>

Next ==
  \/ \E u \in Urbs :
       \/ GiveBack(u) \/ Kill(u)
       \/ \E c \in Callers : Take(u, c) \/ Submit(u, c) \/ PutBack(u, c)
  \/ Reopen \/ Flush \/ Sleep \/ Wake

Spec == Init /\ [][Next]_urbVars
=============================================================================
