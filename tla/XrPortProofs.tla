---------------------------- MODULE XrPortProofs ----------------------------
(***************************************************************************)
(* Theorems about XrPort for any sets of devices, minors, ttys and tasks,  *)
(* when a lookup does not last into the next probe of its minor            *)
(* (~StaleOpen), a path that breaks them, as the README says.              *)
(*                                                                         *)
(* The invariant has a part for each thing that must agree: the structure  *)
(* with the phase of its probe or disconnect, the minor table, the lookup  *)
(* that is under way, the ttys, the references, the tty_port's open files  *)
(* with its count, and the disconnect's hold on the tty.                   *)
(***************************************************************************)
EXTENDS XrPort, FiniteSetTheorems, TLAPS

\* The structure exists as long as the phase of its probe or disconnect
\* says, and is disconnected from the disconnect on until it is gone.
MemPart ==
  \A d \in Devs :
    /\ ph[d] \notin {"unplugged", "published"} => mem[d] = "ready"
    /\ ph[d] = "published" <=> mem[d] = "zeroed"
    /\ ph[d] = "unplugged" /\ mem[d] \in {"ready", "dying"} => disconnected[d]
    /\ ph[d] \in Leaving => disconnected[d]
    /\ ph[d] \in Probing \cup Bound => ~disconnected[d]

TablePart ==
  \A m \in Minors, d \in Devs :
    table[m] = d <=> mem[d] \in {"zeroed", "ready", "dying"} /\ minor[d] = m

\* One open at a time is between the lookup and the tty's installation; a
\* lookup under table_lock keeps its entry.
LookupPart ==
  /\ \A u, v \in Tasks : pc[u] \in {"found", "got"} /\ pc[v] \in {"found", "got"} => u = v
  /\ \A u \in Tasks : pc[u] = "found" =>
       /\ want[u] \in Devs /\ mem[want[u]] \in {"ready", "dying"}
       /\ ph[want[u]] \notin Probing /\ ttys[at[u]] = NoTty
       /\ table[at[u]] = want[u]

\* A tty belongs to a device that is there and past its probe.
TtyPart ==
  /\ \A x \in Ttys :
       /\ tstate[x] = "none" <=> tdev[x] = NoDev
       /\ tdev[x] \in Devs => mem[tdev[x]] = "ready" /\ ph[tdev[x]] \notin Probing
       /\ tstate[x] = "new" => \E u \in Tasks : pc[u] = "got" /\ file[u] = x
       /\ tstate[x] = "alive" <=> \E m \in Minors : ttys[m] = x
       /\ hupwork[x] => tstate[x] = "alive"
  /\ \A m \in Minors : ttys[m] # NoTty => table[m] = tdev[ttys[m]]

\* The tty that a task has in hand.
FilePart ==
  \A u \in Tasks :
    /\ pc[u] = "got" =>
         /\ file[u] \in Ttys /\ tstate[file[u]] = "new"
         /\ table[at[u]] = tdev[file[u]] /\ ttys[at[u]] = NoTty
    /\ pc[u] \in {"opening", "open", "failed"} =>
         file[u] \in Ttys /\ tstate[file[u]] = "alive"
    /\ hungf[u] => pc[u] \in {"open", "failed"}

RefsPart ==
  /\ RefsExact
  /\ \A d \in Devs : mem[d] = "ready" => refs[d] # 0

\* What probe set up and disconnect takes down.
UsbPart ==
  \A d \in Devs :
    /\ d \notin Split => intfdata[d] \subseteq {"control"}
    /\ ph[d] = "claimed" => intfdata[d] = Interfaces(d)
    /\ intfdata[d] # {} => ph[d] \in {"filled", "claimed"} \cup Bound \/ Orphaned(d)
    /\ node[d] => ph[d] \in Bound \cup {"marked", "tty", "hanging", "quiet", "stopped"}
    /\ gpio[d] => mem[d] \in {"ready", "dying"} /\ ph[d] \notin Probing

\* The files of a device that were not hung up.
Unhung(d) == {u \in Tasks : /\ pc[u] \in {"open", "failed"} /\ ~hungf[u]
                            /\ tdev[file[u]] = d}

\* The port counts them and points to their tty; it is initialized while
\* there are any, or a hang-up has yet to shut it down.
CountPart ==
  \A d \in Devs :
    /\ count[d] = Cardinality(Unhung(d))
    /\ \A u \in Unhung(d) : ptty[d] = file[u]
    /\ ptty[d] # NoTty => Unhung(d) # {}
    /\ initialized[d] => ptty[d] # NoTty \/ hup[d]

\* A hang-up meets no open; the tty whose hang-up it is stays, or it is the
\* disconnect's.
HangupPart ==
  \A d \in Devs : hup[d] =>
    /\ \A u \in Tasks : pc[u] \in {"opening", "open", "failed"} /\ tdev[file[u]] = d =>
         hungf[u]
    /\ ph[d] = "hanging" \/ \E x \in Ttys : tstate[x] = "alive" /\ tdev[x] = d

\* The tty that disconnect hangs up is one of the device's, and no other is
\* in use or being installed.
HoldPart ==
  \A d \in Devs :
    /\ ph[d] \in {"tty", "hanging"} <=> hold[d] # NoTty
    /\ hold[d] # NoTty =>
         /\ tdev[hold[d]] = d
         /\ \A x \in Ttys : tdev[x] = d /\ tstate[x] \in {"new", "alive"} =>
              tstate[x] = "alive" /\ x = hold[d]

\* From its hang-up on a disconnected port cannot be opened again.
ShutPart ==
  \A d \in Devs : ph[d] \in {"hanging", "quiet", "unplugged"} \cup Cut =>
    /\ initialized[d] => hup[d]
    /\ \A u \in Tasks : pc[u] = "open" /\ tdev[file[u]] = d => hungf[u]

TrafficPart ==
  \A d \in Devs :
    /\ traffic[d] => ph[d] \in Bound \cup {"marked", "tty", "hanging", "quiet"}
    /\ ph[d] \in {"filled", "claimed"} \cup Bound
               \cup {"marked", "tty", "hanging", "quiet", "stopped", "unlisted"} => urbs[d]

Life == MemPart /\ TablePart /\ LookupPart /\ TtyPart /\ FilePart /\ RefsPart /\ UsbPart
Port == CountPart /\ HangupPart /\ HoldPart /\ ShutPart /\ TrafficPart
IInv == TypeOK /\ Life /\ Port

-----------------------------------------------------------------------------
\* Each device has one tty in use or being installed.
LEMMA OneTty ==
  ASSUME IInv, NEW x \in Ttys, NEW y \in Ttys, tdev[x] = tdev[y],
         tstate[x] = "alive", tstate[y] \in {"alive", "new"}
  PROVE  x = y
<1> USE DEF IInv, Life
<1>1. PICK m \in Minors : ttys[m] = x
  BY DEF TtyPart
<1>2. tdev[x] \in Devs /\ table[m] = tdev[x] /\ minor[tdev[x]] = m
  BY <1>1, NullAssumption DEF TypeOK, TtyPart, TablePart
<1>3. CASE tstate[y] = "alive"
  <2>1. PICK n \in Minors : ttys[n] = y
    BY <1>3 DEF TtyPart
  <2>2. table[n] = tdev[x]
    BY <2>1, NullAssumption DEF TtyPart
  <2>3. n = m
    BY <1>2, <2>2 DEF TablePart
  <2> QED
    BY <1>1, <2>1, <2>3
<1>4. CASE tstate[y] = "new"
  <2>1. PICK u \in Tasks : pc[u] = "got" /\ file[u] = y
    BY <1>4 DEF TtyPart
  <2>2. table[at[u]] = tdev[x] /\ ttys[at[u]] = NoTty /\ at[u] \in Minors
    BY <2>1 DEF TypeOK, FilePart
  <2>3. at[u] = m
    BY <1>2, <2>2 DEF TablePart
  <2> QED
    BY <1>1, <2>2, <2>3, NullAssumption
<1> QED
  BY <1>3, <1>4

\* A device that is being probed has its minor to itself.
LEMMA ProbedAlone ==
  ASSUME IInv, NEW d \in Devs, ph[d] \in Probing
  PROVE  /\ \A x \in Ttys : tdev[x] # d
         /\ table[minor[d]] = d /\ minor[d] \in Minors
         /\ initialized[d] => hup[d]
<1> USE DEF IInv, Life, Port
<1>1. \A x \in Ttys : tdev[x] # d
  BY DEF TtyPart
<1>2. mem[d] \in {"zeroed", "ready"} /\ minor[d] \in Minors
  BY DEF TypeOK, MemPart, Probing
<1>3. table[minor[d]] = d
  BY <1>2 DEF TablePart
<1>4. Unhung(d) = {}
  BY <1>1 DEF Unhung, FilePart
<1> QED
  BY <1>1, <1>2, <1>3, <1>4 DEF CountPart

\* The sets that refs and count count are finite.
LEMMA TtysFinite ==
  \A d : IsFiniteSet(TtysOf(d)) /\ Cardinality(TtysOf(d)) \in Nat
BY SetAssumption, FS_Subset, FS_CardinalityType DEF TtysOf

LEMMA UnhungFinite ==
  \A d : IsFiniteSet(Unhung(d)) /\ Cardinality(Unhung(d)) \in Nat
BY SetAssumption, FS_Subset, FS_CardinalityType DEF Unhung

LEMMA UnhungRemoved ==
  ASSUME NEW d, NEW u \in Tasks, u \in Unhung(d)
  PROVE  /\ Cardinality(Unhung(d)) \in Nat \ {0}
         /\ Cardinality(Unhung(d) \ {u}) = Cardinality(Unhung(d)) - 1
         /\ Cardinality(Unhung(d)) = 1 <=> Unhung(d) \ {u} = {}
<1>1. IsFiniteSet(Unhung(d) \ {u})
  BY UnhungFinite, FS_RemoveElement
<1>2. Cardinality(Unhung(d) \ {u}) = Cardinality(Unhung(d)) - 1
  BY UnhungFinite, FS_RemoveElement
<1>3. Cardinality(Unhung(d)) # 0
  BY UnhungFinite, FS_EmptySet
<1>4. Cardinality(Unhung(d) \ {u}) = 0 <=> Unhung(d) \ {u} = {}
  BY <1>1, FS_EmptySet
<1> QED
  BY <1>2, <1>3, <1>4, UnhungFinite

\* When a tty puts its reference the count stays exact, and the last
\* reference is that of the last tty of a device that is gone.
LEMMA PutOfTty ==
  ASSUME IInv, NEW x \in Ttys, NEW d \in Devs, tdev[x] = d, Put(d),
         tdev' = [tdev EXCEPT ![x] = NoDev], ph' = ph
  PROVE  /\ RefsPart'
         /\ mem[d] = "ready" /\ refs[d] \in Nat \ {0}
         /\ refs[d] = 1 =>
              ph[d] = "unplugged" /\ \A y \in Ttys : tdev[y] = d => y = x
<1> USE NullAssumption DEF IInv, Life
<1>1. mem[d] = "ready" /\ ph[d] \notin Probing /\ refs[d] \in Nat \ {0}
  BY DEF TypeOK, TtyPart, RefsPart
<1>2. refs[d] = Cardinality(TtysOf(d)) + Own(d) /\ x \in TtysOf(d)
  BY <1>1 DEF RefsPart, RefsExact, TtysOf
<1>3. TtysOf(d)' = TtysOf(d) \ {x} /\ \A e \in Devs : e # d => TtysOf(e)' = TtysOf(e)
  BY DEF TypeOK, TtysOf
<1>4. Cardinality(TtysOf(d)') = Cardinality(TtysOf(d)) - 1
  BY <1>2, <1>3, TtysFinite, FS_RemoveElement
<1>5. \A e : Own(e)' = Own(e) /\ Own(e) \in {0, 1}
  BY DEF Own
<1>6. ASSUME refs[d] = 1
      PROVE  ph[d] = "unplugged" /\ TtysOf(d) \ {x} = {}
  <2>1. Cardinality(TtysOf(d)) # 0
    BY <1>2, TtysFinite, FS_EmptySet
  <2>2. Own(d) = 0 /\ Cardinality(TtysOf(d)) = 1
    BY <1>2, <1>6, <2>1, TtysFinite DEF Own
  <2>3. ph[d] = "unplugged"
    BY <1>1, <2>2 DEF Own, Probing
  <2>4. PICK y : TtysOf(d) = {y}
    BY <2>2, TtysFinite, FS_Singleton
  <2> QED
    BY <1>2, <2>3, <2>4
<1>7. RefsPart'
  <2> SUFFICES ASSUME NEW e \in Devs, mem'[e] = "ready"
               PROVE  (refs[e] = Cardinality(TtysOf(e)) + Own(e) /\ refs[e] # 0)'
    BY DEF RefsPart, RefsExact
  <2>1. CASE e = d
    <3>1. refs[d] # 1 /\ refs'[d] = refs[d] - 1
      BY <1>1, <2>1 DEF Put, TypeOK
    <3> QED
      BY <1>1, <1>2, <1>4, <1>5, <2>1, <3>1, TtysFinite
  <2>2. CASE e # d
    <3>1. mem[e] = "ready" /\ refs'[e] = refs[e]
      BY <2>2 DEF Put, TypeOK
    <3> QED
      BY <1>3, <1>5, <2>2, <3>1 DEF RefsPart, RefsExact
  <2> QED
    BY <2>1, <2>2
<1>8. refs[d] = 1 => \A y \in Ttys : tdev[y] = d => y = x
  BY <1>6 DEF TtysOf
<1> QED
  BY <1>1, <1>6, <1>7, <1>8

\* So it does when a tty is made.
LEMMA GetOfTty ==
  ASSUME IInv, NEW x \in Ttys, tdev[x] = NoDev, NEW d \in Devs,
         refs' = [refs EXCEPT ![d] = @ + 1], tdev' = [tdev EXCEPT ![x] = d],
         UNCHANGED <<mem, ph>>
  PROVE  RefsPart'
<1> USE NullAssumption DEF IInv, Life
<1>1. \A e \in Devs : TtysOf(e)' = IF e = d THEN TtysOf(e) \cup {x} ELSE TtysOf(e)
  BY DEF TypeOK, TtysOf
<1>2. x \notin TtysOf(d)
  BY DEF TtysOf
<1>3. Cardinality(TtysOf(d) \cup {x}) = Cardinality(TtysOf(d)) + 1
  BY <1>2, TtysFinite, FS_AddElement
<1>4. \A e : Own(e)' = Own(e) /\ Own(e) \in {0, 1}
  BY DEF Own
<1>5. \A e \in Devs : refs'[e] = (IF e = d THEN refs[e] + 1 ELSE refs[e]) /\ refs[e] \in Nat
  BY DEF TypeOK
<1> SUFFICES ASSUME NEW e \in Devs, mem[e] = "ready"
             PROVE  (refs[e] = Cardinality(TtysOf(e)) + Own(e) /\ refs[e] # 0)'
  BY DEF RefsPart, RefsExact
<1>6. refs[e] = Cardinality(TtysOf(e)) + Own(e) /\ refs[e] # 0
  BY DEF RefsPart, RefsExact
<1>7. CASE e = d
  <2>1. Cardinality(TtysOf(e)') = Cardinality(TtysOf(e)) + 1 /\ refs'[e] = refs[e] + 1
    BY <1>1, <1>3, <1>5, <1>7
  <2> QED
    BY <1>4, <1>5, <1>6, <2>1, TtysFinite
<1>8. CASE e # d
  <2>1. TtysOf(e)' = TtysOf(e) /\ refs'[e] = refs[e]
    BY <1>1, <1>5, <1>8
  <2> QED
    BY <1>4, <1>6, <2>1
<1> QED
  BY <1>7, <1>8

\* An open of a task that had none counts one more file of its device.
LEMMA OpenCounts ==
  ASSUME IInv, NEW u \in Tasks, NEW s \in {"open", "failed"}, pc[u] = "opening",
         pc' = [pc EXCEPT ![u] = s],
         count' = [count EXCEPT ![tdev[file[u]]] = @ + 1],
         ptty' = [ptty EXCEPT ![tdev[file[u]]] = file[u]],
         UNCHANGED <<file, hungf, tdev, hup>>,
         \A e \in Devs : e # tdev[file[u]] => initialized'[e] = initialized[e]
  PROVE  /\ CountPart'
         /\ tdev[file[u]] \in Devs /\ file[u] \in Ttys
<1> DEFINE d == tdev[file[u]]
<1> USE NullAssumption DEF IInv, Life, Port
<1>1. file[u] \in Ttys /\ tstate[file[u]] = "alive" /\ ~hungf[u]
  BY DEF FilePart
<1>2. d \in Devs
  BY <1>1 DEF TypeOK, TtyPart
<1>3. Unhung(d)' = Unhung(d) \cup {u} /\ u \notin Unhung(d)
  BY <1>1 DEF TypeOK, Unhung
<1>4. \A e \in Devs : e # d => Unhung(e)' = Unhung(e)
  BY DEF TypeOK, Unhung
<1>5. Cardinality(Unhung(d)') = Cardinality(Unhung(d)) + 1
  BY <1>3, UnhungFinite, FS_AddElement
<1>6. \A v \in Unhung(d) : file[v] = file[u]
  <2> SUFFICES ASSUME NEW v \in Unhung(d) PROVE file[v] = file[u]
    OBVIOUS
  <2>1. v \in Tasks /\ file[v] \in Ttys /\ tstate[file[v]] = "alive" /\ tdev[file[v]] = d
    BY DEF Unhung, FilePart
  <2> QED
    BY <1>1, <2>1, OneTty
<1>7. CountPart'
  <2> SUFFICES ASSUME NEW e \in Devs
               PROVE  (/\ count[e] = Cardinality(Unhung(e))
                       /\ \A v \in Unhung(e) : ptty[e] = file[v]
                       /\ ptty[e] # NoTty => Unhung(e) # {}
                       /\ initialized[e] => ptty[e] # NoTty \/ hup[e])'
    BY DEF CountPart
  <2>1. CASE e = d
    <3>1. count'[d] = count[d] + 1 /\ ptty'[d] = file[u] /\ file[u] # NoTty
      BY <1>1, <1>2 DEF TypeOK
    <3>2. count[d] = Cardinality(Unhung(d))
      BY <1>2 DEF CountPart
    <3> QED
      BY <1>3, <1>5, <1>6, <2>1, <3>1, <3>2
  <2>2. CASE e # d
    <3>1. count'[e] = count[e] /\ ptty'[e] = ptty[e] /\ initialized'[e] = initialized[e]
      BY <2>2 DEF TypeOK
    <3> QED
      BY <1>4, <2>2, <3>1 DEF CountPart
  <2> QED
    BY <2>1, <2>2
<1> QED
  BY <1>1, <1>2, <1>7

\* A shutdown keeps the types.
LEMMA ShutdownTypes ==
  ASSUME TypeOK, NEW d \in Devs,
         IF initialized[d] THEN Shutdown(d) ELSE UNCHANGED <<traffic, initialized>>
  PROVE  traffic' \in [Devs -> BOOLEAN] /\ initialized' \in [Devs -> BOOLEAN]
<1>1. CASE initialized[d]
  BY <1>1 DEF TypeOK, Shutdown
<1>2. CASE ~initialized[d]
  BY <1>2 DEF TypeOK
<1> QED
  BY <1>1, <1>2

\* What steps that do not touch the references, or the files, leave alone.
LEMMA RefsKept ==
  ASSUME RefsPart, UNCHANGED <<refs, mem, tdev>>, \A d \in Devs : Own(d)' = Own(d)
  PROVE  RefsPart'
<1>1. \A d \in Devs : TtysOf(d)' = TtysOf(d)
  BY DEF TtysOf
<1> QED
  BY <1>1 DEF RefsPart, RefsExact

LEMMA CountKept ==
  ASSUME CountPart,
         UNCHANGED <<pc, hungf, tdev, file, count, ptty, initialized, hup>>
  PROVE  CountPart'
<1>1. \A d \in Devs : Unhung(d)' = Unhung(d)
  BY DEF Unhung
<1> QED
  BY <1>1 DEF CountPart

\* A hang-up of the tty of a device leaves it no file that was not hung up,
\* and touches no other device's.
LEMMA HangUpCuts ==
  ASSUME IInv, NEW d \in Devs, NEW x \in Ttys, tdev[x] = d, HangUp(d, x),
         \A y \in Ttys : tdev[y] = d /\ tstate[y] = "alive" => y = x,
         UNCHANGED <<pc, file, tdev, initialized>>
  PROVE  /\ CountPart'
         /\ \A u \in Tasks :
              pc[u] \in {"opening", "open", "failed"} /\ tdev[file[u]] = d => hungf'[u]
         /\ \A u \in Tasks : hungf'[u] => pc[u] \in {"open", "failed"}
         /\ \A u \in Tasks : hungf[u] => hungf'[u]
<1> USE NullAssumption DEF IInv, Life, Port
<1>1. \A u \in Tasks :
        pc[u] \in {"opening", "open", "failed"} /\ tdev[file[u]] = d =>
          file[u] = x /\ pc[u] # "opening" /\ hungf'[u]
  BY DEF FilePart, HangUp, TtyLocked, Openers
<1>2. \A u \in Tasks : hungf'[u] <=> hungf[u] \/ u \in Openers(x)
  BY DEF HangUp
<1>3. \A u \in Openers(x) : pc[u] # "opening" /\ tdev[file[u]] = d
  BY DEF Openers, HangUp, TtyLocked
<1>4. Unhung(d)' = {}
  BY <1>1 DEF Unhung
<1>5. \A e \in Devs : e # d => Unhung(e)' = Unhung(e)
  BY <1>2, <1>3 DEF Unhung
<1>6. CountPart'
  <2> SUFFICES ASSUME NEW e \in Devs
               PROVE  (/\ count[e] = Cardinality(Unhung(e))
                       /\ \A v \in Unhung(e) : ptty[e] = file[v]
                       /\ ptty[e] # NoTty => Unhung(e) # {}
                       /\ initialized[e] => ptty[e] # NoTty \/ hup[e])'
    BY DEF CountPart
  <2>1. CASE e = d
    <3>1. count'[d] = 0 /\ ptty'[d] = NoTty /\ hup'[d]
      BY DEF HangUp, TypeOK
    <3> QED
      BY <1>4, <2>1, <3>1, FS_EmptySet
  <2>2. CASE e # d
    <3>1. count'[e] = count[e] /\ ptty'[e] = ptty[e] /\ hup'[e] = hup[e]
      BY <2>2 DEF HangUp, TypeOK
    <3> QED
      BY <1>5, <2>2, <3>1 DEF CountPart
  <2> QED
    BY <2>1, <2>2
<1>7. \A u \in Tasks : hungf'[u] => pc[u] \in {"open", "failed"}
  BY <1>2, <1>3 DEF FilePart, Openers
<1> QED
  BY <1>1, <1>2, <1>6, <1>7

-----------------------------------------------------------------------------

\* A probe keeps the invariant.
LEMMA ProbeIInv ==
  ASSUME ~StaleOpen, IInv,
         \E d \in Devs : Probe(d)
  PROVE  IInv'
<1> USE NullAssumption, SetAssumption DEF IInv, Life, Port, objVars, usbVars, portVars, ttyVars, taskVars
<1>1. ASSUME NEW d \in Devs, ProbeAlloc(d)
      PROVE  IInv'
  <2> USE <1>1 DEF ProbeAlloc
  <2>a. PICK m \in Minors : /\ table[m] = NoDev
                           /\ table' = [table EXCEPT ![m] = d]
                           /\ minor' = [minor EXCEPT ![d] = m]
    OBVIOUS
  <2>b. \A n \in Minors : table[n] # d
    BY DEF TablePart
  <2>1. (MemPart /\ LookupPart /\ TtyPart /\ FilePart /\ RefsPart)'
    BY DEF TypeOK, MemPart, Probing, Bound, Cut, Leaving, LookupPart,
      TablePart, TtyPart, FilePart, RefsPart, RefsExact, TtysOf, Own
  <2>2. (HangupPart /\ HoldPart /\ ShutPart /\ TrafficPart)'
    BY DEF TypeOK, UsbPart, Orphaned, Bound, Probing, MemPart, Cut, Leaving, HangupPart,
      FilePart, TtyPart, HoldPart, CountPart, Unhung, ShutPart, TrafficPart
  <2>c. intfdata'[d] = {} /\ ~node[d] /\ ~gpio[d]
    BY DEF TypeOK, UsbPart, Orphaned, Bound, Probing
  <2>d. UsbPart'
    BY <2>c DEF TypeOK, UsbPart, Orphaned, Bound, Probing
  <2>3. TypeOK'
    BY DEF TypeOK, Phases, Probing, Bound, Cut, Leaving, PCs
  <2>4. TablePart'
    <3>1. \A e \in Devs : e # d => mem'[e] = mem[e] /\ minor'[e] = minor[e]
      BY <2>a DEF TypeOK
    <3>2. \A n \in Minors : table'[n] = IF n = m THEN d ELSE table[n]
      BY <2>a DEF TypeOK
    <3>3. mem'[d] = "zeroed" /\ minor'[d] = m
      BY <2>a DEF TypeOK
    <3> SUFFICES ASSUME NEW n \in Minors, NEW e \in Devs
                 PROVE  (table[n] = e <=>
                          mem[e] \in {"zeroed", "ready", "dying"} /\ minor[e] = n)'
      BY DEF TablePart
    <3>4. CASE e = d
      BY <2>b, <3>2, <3>3, <3>4
    <3>5. CASE e # d
      BY <2>a, <3>1, <3>2, <3>5 DEF TablePart
    <3> QED
      BY <3>4, <3>5
  <2>5. CountPart'
    BY CountKept
  <2> QED
    BY <2>1, <2>2, <2>d, <2>3, <2>4, <2>5
<1>2. ASSUME NEW d \in Devs, ProbeInit(d)
      PROVE  IInv'
  <2> USE <1>2 DEF ProbeInit
  <2>a. /\ \A x \in Ttys : tdev[x] # d
        /\ table[minor[d]] = d /\ minor[d] \in Minors
        /\ initialized[d] => hup[d]
    BY ProbedAlone DEF Probing
  <2>1. FilePart'
    BY DEF FilePart
  <2>2. (MemPart /\ TablePart /\ LookupPart /\ TtyPart)'
    BY DEF TypeOK, MemPart, Probing, Bound, Cut, Leaving, TablePart,
      LookupPart, TtyPart, FilePart
  <2>3. (UsbPart /\ HangupPart /\ HoldPart /\ ShutPart /\ TrafficPart)'
    BY DEF TypeOK, UsbPart, Orphaned, Bound, Probing, MemPart, Cut, Leaving, HangupPart,
      FilePart, TtyPart, HoldPart, CountPart, Unhung, ShutPart, TrafficPart
  <2>4. TypeOK'
    BY DEF TypeOK, Phases, Probing, Bound, Cut, Leaving, PCs
  <2>5. RefsPart'
    <3>1. \A e \in Devs : TtysOf(e)' = TtysOf(e)
      BY DEF TtysOf
    <3>2. TtysOf(d) = {}
      BY <2>a DEF TtysOf
    <3>3. refs'[d] = 1 /\ Own(d)' = 1 /\ Cardinality(TtysOf(d)) = 0
      BY <3>2, FS_EmptySet DEF Own, TypeOK
    <3>4. \A e \in Devs : e # d => refs'[e] = refs[e] /\ mem'[e] = mem[e] /\ Own(e)' = Own(e)
      BY DEF Own, TypeOK
    <3> QED
      BY <3>1, <3>3, <3>4 DEF RefsPart, RefsExact
  <2>6. CountPart'
    BY CountKept
  <2> QED
    BY <2>1, <2>2, <2>3, <2>4, <2>5, <2>6
<1>3. ASSUME NEW d \in Devs, ProbeFill(d)
      PROVE  IInv'
  <2> USE <1>3 DEF ProbeFill
  <2>1. (TablePart /\ FilePart)'
    BY DEF TablePart, FilePart
  <2>2. (MemPart /\ LookupPart /\ TtyPart)'
    BY DEF TypeOK, MemPart, Probing, Bound, Cut, Leaving, LookupPart,
      TablePart, TtyPart, FilePart
  <2>3. (UsbPart /\ HangupPart /\ HoldPart /\ ShutPart /\ TrafficPart)'
    BY DEF TypeOK, UsbPart, Orphaned, Bound, Probing, MemPart, Cut, Leaving, HangupPart,
      FilePart, TtyPart, HoldPart, CountPart, Unhung, ShutPart, TrafficPart
  <2>4. TypeOK'
    BY DEF TypeOK, Phases, Probing, Bound, Cut, Leaving, PCs
  <2>5. RefsPart'
    BY RefsKept DEF Own, TypeOK
  <2>6. CountPart'
    BY CountKept
  <2> QED
    BY <2>1, <2>2, <2>3, <2>4, <2>5, <2>6
<1>4. ASSUME NEW d \in Devs, ProbeFillFails(d)
      PROVE  IInv'
  <2> USE <1>4 DEF ProbeFillFails, Discard, TableLocked
  <2>a. /\ \A x \in Ttys : tdev[x] # d
        /\ table[minor[d]] = d /\ minor[d] \in Minors
        /\ initialized[d] => hup[d]
    BY ProbedAlone DEF Probing
  <2>1. (MemPart /\ TablePart /\ LookupPart /\ TtyPart /\ RefsPart)'
    BY DEF TypeOK, MemPart, Probing, Bound, Cut, Leaving, TablePart,
      LookupPart, TtyPart, FilePart, RefsPart, RefsExact, TtysOf, Own
  <2>2. (UsbPart /\ HangupPart /\ HoldPart /\ TrafficPart)'
    BY DEF TypeOK, UsbPart, Orphaned, Bound, Probing, MemPart, Cut, Leaving, HangupPart,
      FilePart, TtyPart, HoldPart, CountPart, Unhung, TrafficPart, ShutPart
  <2>3. TypeOK'
    BY DEF TypeOK, Phases, Probing, Bound, Cut, Leaving, PCs
  <2>4. FilePart'
    <3>1. \A n \in Minors : n # minor[d] => table'[n] = table[n]
      BY DEF TypeOK
    <3>2. \A u \in Tasks : pc[u] = "got" => at[u] \in Minors /\ at[u] # minor[d]
      BY <2>a DEF TypeOK, FilePart
    <3> QED
      BY <3>1, <3>2 DEF FilePart
  <2>5. CountPart'
    BY CountKept
  <2>6. ShutPart'
    <3>1. \A e \in Devs : e # d => ph'[e] = ph[e]
      BY DEF TypeOK
    <3>2. \A u \in Tasks : pc[u] = "open" => tdev[file[u]] # d
      BY <2>a DEF FilePart
    <3> QED
      BY <2>a, <3>1, <3>2 DEF ShutPart
  <2> QED
    BY <2>1, <2>2, <2>3, <2>4, <2>5, <2>6
<1>5. ASSUME NEW d \in Devs, ProbeClaim(d)
      PROVE  IInv'
  <2> USE <1>5 DEF ProbeClaim
  <2>1. (TablePart /\ FilePart)'
    BY DEF TablePart, FilePart
  <2>2. (MemPart /\ LookupPart /\ TtyPart)'
    BY DEF TypeOK, MemPart, Probing, Bound, Cut, Leaving, LookupPart,
      TablePart, TtyPart, FilePart
  <2>a. bound' \in [Devs -> SUBSET {"control", "data"}]
    <3>1. PICK claimed \in SUBSET Interfaces(d) :
            bound' = [bound EXCEPT ![d] = {"control"} \cup claimed]
      BY Zenon
    <3>2. {"control"} \cup claimed \subseteq {"control", "data"}
      BY DEF Interfaces
    <3> QED
      BY <3>1, <3>2 DEF TypeOK
  <2>b. UsbPart'
    BY DEF TypeOK, UsbPart, Orphaned, Interfaces, Bound, Probing, MemPart
  <2>3. (HangupPart /\ HoldPart /\ ShutPart /\ TrafficPart)'
    BY DEF TypeOK, Bound, Probing, MemPart, Cut, Leaving, HangupPart,
      FilePart, TtyPart, HoldPart, CountPart, Unhung, ShutPart, TrafficPart
  <2>4. TypeOK'
    BY <2>a DEF TypeOK, Interfaces, Phases, Probing, Bound, Cut, Leaving, PCs
  <2>5. RefsPart'
    BY RefsKept DEF Own, TypeOK
  <2>6. CountPart'
    BY CountKept
  <2> QED
    BY <2>1, <2>2, <2>b, <2>3, <2>4, <2>5, <2>6
<1>6. ASSUME NEW d \in Devs, ProbeRegister(d)
      PROVE  IInv'
  <2> USE <1>6 DEF ProbeRegister
  <2>1. (TablePart /\ FilePart)'
    BY DEF TablePart, FilePart
  <2>2. (MemPart /\ LookupPart /\ TtyPart)'
    BY DEF TypeOK, MemPart, Probing, Bound, Cut, Leaving, LookupPart,
      TablePart, TtyPart, FilePart
  <2>3. (UsbPart /\ HangupPart /\ HoldPart /\ ShutPart /\ TrafficPart)'
    BY DEF TypeOK, UsbPart, Orphaned, Bound, Probing, MemPart, Cut, Leaving, HangupPart,
      FilePart, TtyPart, HoldPart, CountPart, Unhung, ShutPart, TrafficPart
  <2>4. TypeOK'
    BY DEF TypeOK, Phases, Probing, Bound, Cut, Leaving, PCs
  <2>5. RefsPart'
    BY RefsKept DEF Own, TypeOK
  <2>6. CountPart'
    BY CountKept
  <2> QED
    BY <2>1, <2>2, <2>3, <2>4, <2>5, <2>6
<1>7. ASSUME NEW d \in Devs, ProbeRegisterFails(d)
      PROVE  IInv'
  <2> USE <1>7 DEF ProbeRegisterFails, Discard, TableLocked
  <2>a. /\ \A x \in Ttys : tdev[x] # d
        /\ table[minor[d]] = d /\ minor[d] \in Minors
        /\ initialized[d] => hup[d]
    BY ProbedAlone DEF Probing
  <2>1. (MemPart /\ TablePart /\ LookupPart /\ TtyPart /\ RefsPart)'
    BY DEF TypeOK, MemPart, Probing, Bound, Cut, Leaving, TablePart,
      LookupPart, TtyPart, FilePart, RefsPart, RefsExact, TtysOf, Own
  <2>2. (UsbPart /\ HangupPart /\ HoldPart /\ TrafficPart)'
    BY DEF TypeOK, UsbPart, Orphaned, Interfaces, Bound, Probing, MemPart, Cut, Leaving, HangupPart,
      FilePart, TtyPart, HoldPart, CountPart, Unhung, TrafficPart, ShutPart
  <2>3. TypeOK'
    BY DEF TypeOK, Phases, Probing, Bound, Cut, Leaving, PCs
  <2>4. FilePart'
    <3>1. \A n \in Minors : n # minor[d] => table'[n] = table[n]
      BY DEF TypeOK
    <3>2. \A u \in Tasks : pc[u] = "got" => at[u] \in Minors /\ at[u] # minor[d]
      BY <2>a DEF TypeOK, FilePart
    <3> QED
      BY <3>1, <3>2 DEF FilePart
  <2>5. CountPart'
    BY CountKept
  <2>6. ShutPart'
    <3>1. \A e \in Devs : e # d => ph'[e] = ph[e]
      BY DEF TypeOK
    <3>2. \A u \in Tasks : pc[u] = "open" => tdev[file[u]] # d
      BY <2>a DEF FilePart
    <3> QED
      BY <2>a, <3>1, <3>2 DEF ShutPart
  <2> QED
    BY <2>1, <2>2, <2>3, <2>4, <2>5, <2>6
<1>8. ASSUME NEW d \in Devs, NEW ok \in BOOLEAN, ProbeGpio(d, ok)
      PROVE  IInv'
  <2> USE <1>8 DEF ProbeGpio
  <2>1. (TablePart /\ FilePart)'
    BY DEF TablePart, FilePart
  <2>2. (MemPart /\ LookupPart /\ TtyPart)'
    BY DEF TypeOK, MemPart, Probing, Bound, Cut, Leaving, LookupPart,
      TablePart, TtyPart, FilePart
  <2>3. (UsbPart /\ HangupPart /\ HoldPart /\ ShutPart /\ TrafficPart)'
    BY DEF TypeOK, UsbPart, Orphaned, Bound, Probing, MemPart, Cut, Leaving, HangupPart,
      FilePart, TtyPart, HoldPart, CountPart, Unhung, ShutPart, TrafficPart
  <2>4. TypeOK'
    BY DEF TypeOK, Phases, Probing, Bound, Cut, Leaving, PCs
  <2>5. RefsPart'
    BY RefsKept DEF Own, TypeOK
  <2>6. CountPart'
    BY CountKept
  <2> QED
    BY <2>1, <2>2, <2>3, <2>4, <2>5, <2>6
<1> QED
  BY <1>1, <1>2, <1>3, <1>4, <1>5, <1>6, <1>7, <1>8 DEF Probe

\* So does an open, and a write.
LEMMA OpenIInv ==
  ASSUME ~StaleOpen, IInv,
         \E u \in Tasks : OpenStep(u) \/ Write(u) \/ \E m \in Minors : Resolve(u, m)
  PROVE  IInv'
<1> USE NullAssumption, SetAssumption DEF IInv, Life, Port, objVars, usbVars, portVars, ttyVars, taskVars
<1>1. ASSUME NEW u \in Tasks, NEW m \in Minors, Resolve(u, m)
      PROVE  IInv'
  <2> USE <1>1 DEF Resolve
  <2>1. (MemPart /\ TablePart)'
    BY DEF MemPart, Probing, Bound, Cut, Leaving, TablePart
  <2>2. (UsbPart /\ HoldPart /\ TrafficPart)'
    BY DEF UsbPart, Orphaned, Bound, Probing, HoldPart, TrafficPart
  <2>3. (LookupPart /\ TtyPart /\ FilePart)'
    BY DEF TypeOK, LookupPart, Probing, MemPart, Bound, Cut, Leaving,
      TablePart, TtyPart, FilePart
  <2>4. (HangupPart /\ ShutPart)'
    BY DEF TypeOK, HangupPart, FilePart, TtyPart, Probing, MemPart, Bound,
      Cut, Leaving, HoldPart, CountPart, Unhung, ShutPart
  <2>5. TypeOK'
    BY DEF TypeOK, Phases, Probing, Bound, Cut, Leaving, PCs
  <2>6. RefsPart'
    BY RefsKept DEF Own
  <2>7. CountPart'
    <3>1. /\ pc[u] \notin {"open", "failed"} /\ pc'[u] \notin {"open", "failed"}
          /\ \A v \in Tasks : v # u => pc'[v] = pc[v] /\ file'[v] = file[v]
      BY DEF TypeOK
    <3>2. \A e \in Devs : Unhung(e)' = Unhung(e)
      BY <3>1 DEF Unhung
    <3>3. \A e \in Devs : \A v \in Unhung(e) : file'[v] = file[v]
      BY <3>1 DEF Unhung
    <3> QED
      BY <3>2, <3>3 DEF CountPart
  <2> QED
    BY <2>1, <2>2, <2>3, <2>4, <2>5, <2>6, <2>7
<1>2. ASSUME NEW u \in Tasks, Reopen(u)
      PROVE  IInv'
  <2> USE <1>2 DEF Reopen, Installing, TtyLocked
  <2>1. (MemPart /\ TablePart)'
    BY DEF MemPart, Probing, Bound, Cut, Leaving, TablePart
  <2>2. (UsbPart /\ HoldPart /\ TrafficPart)'
    BY DEF UsbPart, Orphaned, Bound, Probing, HoldPart, TrafficPart
  <2>3. (LookupPart /\ TtyPart)'
    BY DEF TypeOK, LookupPart, Probing, MemPart, Bound, Cut, Leaving,
      TablePart, TtyPart, FilePart
  <2>4. (HangupPart /\ ShutPart)'
    BY DEF TypeOK, HangupPart, FilePart, TtyPart, Probing, MemPart, Bound,
      Cut, Leaving, HoldPart, CountPart, Unhung, ShutPart
  <2>5. TypeOK'
    BY DEF TypeOK, Phases, Probing, Bound, Cut, Leaving, PCs
  <2>6. FilePart'
    <3>1. at[u] \in Minors /\ ttys[at[u]] \in Ttys
      BY DEF TypeOK
    <3>2. tstate[ttys[at[u]]] = "alive"
      BY <3>1 DEF TtyPart
    <3>3. file'[u] = ttys[at[u]] /\ pc'[u] = "opening"
      BY DEF TypeOK
    <3>4. \A v \in Tasks : v # u => pc'[v] = pc[v] /\ file'[v] = file[v]
      BY DEF TypeOK
    <3> QED
      BY <3>1, <3>2, <3>3, <3>4 DEF FilePart
  <2>7. RefsPart'
    BY RefsKept DEF Own
  <2>8. CountPart'
    <3>1. /\ pc[u] \notin {"open", "failed"} /\ pc'[u] \notin {"open", "failed"}
          /\ \A v \in Tasks : v # u => pc'[v] = pc[v] /\ file'[v] = file[v]
      BY DEF TypeOK
    <3>2. \A e \in Devs : Unhung(e)' = Unhung(e)
      BY <3>1 DEF Unhung
    <3>3. \A e \in Devs : \A v \in Unhung(e) : file'[v] = file[v]
      BY <3>1 DEF Unhung
    <3> QED
      BY <3>2, <3>3 DEF CountPart
  <2> QED
    BY <2>1, <2>2, <2>3, <2>4, <2>5, <2>6, <2>7, <2>8
<1>3. ASSUME NEW u \in Tasks, FindMinor(u)
      PROVE  IInv'
  <2> USE <1>3 DEF FindMinor, Installing
  <2>1. (MemPart /\ TablePart)'
    BY DEF MemPart, Probing, Bound, Cut, Leaving, TablePart
  <2>2. (UsbPart /\ HoldPart /\ TrafficPart)'
    BY DEF UsbPart, Orphaned, Bound, Probing, HoldPart, TrafficPart
  <2>3. (TtyPart /\ FilePart)'
    BY DEF TypeOK, TtyPart, Probing, MemPart, Bound, Cut, Leaving, TablePart,
      LookupPart, FilePart
  <2>4. (HangupPart /\ ShutPart)'
    BY DEF TypeOK, HangupPart, FilePart, TtyPart, Probing, MemPart, Bound,
      Cut, Leaving, HoldPart, CountPart, Unhung, ShutPart
  <2>5. TypeOK'
    BY DEF TypeOK, Phases, Probing, Bound, Cut, Leaving, PCs
  <2>6. LookupPart'
    <3>1. \A v \in Tasks : v # u => pc'[v] = pc[v] /\ want'[v] = want[v]
      BY DEF TypeOK
    <3>2. CASE table[at[u]] = NoDev
      BY <3>1, <3>2 DEF LookupPart, TypeOK
    <3>3. ASSUME NEW d \in Devs, table[at[u]] = d
          PROVE  LookupPart'
      <4>1. ph[d] \notin Probing
        BY <3>3, PathAssumption
      <4>2. mem[d] \in {"zeroed", "ready", "dying"}
        BY <3>3 DEF TypeOK, TablePart
      <4>3. mem[d] \in {"ready", "dying"}
        BY <4>1, <4>2 DEF MemPart, Probing
      <4> QED
        BY <3>1, <3>3, <4>1, <4>3 DEF LookupPart, TypeOK
    <3> QED
      BY <3>2, <3>3 DEF TypeOK
  <2>7. RefsPart'
    BY RefsKept DEF Own
  <2>8. CountPart'
    <3>1. /\ pc[u] \notin {"open", "failed"} /\ pc'[u] \notin {"open", "failed"}
          /\ \A v \in Tasks : v # u => pc'[v] = pc[v] /\ file'[v] = file[v]
      BY DEF TypeOK
    <3>2. \A e \in Devs : Unhung(e)' = Unhung(e)
      BY <3>1 DEF Unhung
    <3>3. \A e \in Devs : \A v \in Unhung(e) : file'[v] = file[v]
      BY <3>1 DEF Unhung
    <3> QED
      BY <3>2, <3>3 DEF CountPart
  <2> QED
    BY <2>1, <2>2, <2>3, <2>4, <2>5, <2>6, <2>7, <2>8
<1>4. ASSUME NEW u \in Tasks, GetByIndex(u)
      PROVE  IInv'
  <2> USE <1>4 DEF GetByIndex
  <2> DEFINE d == want[u]
  <2>a. /\ d \in Devs /\ mem[d] = "ready" /\ ph[d] \notin Probing
        /\ table[at[u]] = d /\ ttys[at[u]] = NoTty
    BY DEF LookupPart, MemPart, TypeOK, Phases, Probing, Bound, Leaving, Cut
  <2>b. PICK x \in Ttys :
          /\ tstate[x] = "none"
          /\ refs' = [refs EXCEPT ![want[u]] = @ + 1]
          /\ tstate' = [tstate EXCEPT ![x] = "new"]
          /\ tdev' = [tdev EXCEPT ![x] = want[u]]
          /\ file' = [file EXCEPT ![u] = x]
          /\ pc' = [pc EXCEPT ![u] = "got"]
    OBVIOUS
  <2>c. tdev[x] = NoDev
    BY <2>b DEF TtyPart
  <2>1. (MemPart /\ TablePart)'
    BY DEF MemPart, Probing, Bound, Cut, Leaving, TablePart
  <2>2. (UsbPart /\ TrafficPart)'
    BY DEF UsbPart, Orphaned, Bound, Probing, TrafficPart
  <2>3. TypeOK'
    BY <2>a, <2>b DEF TypeOK, Phases, Probing, Bound, Cut, Leaving, PCs
  <2>4. LookupPart'
    BY <2>a, <2>b, <2>c DEF TypeOK, LookupPart, Probing, MemPart, Bound, Cut,
      Leaving, TablePart, TtyPart, FilePart
  <2>5. TtyPart'
    BY <2>a, <2>b, <2>c DEF TypeOK, TtyPart, Probing, MemPart, Bound, Cut,
      Leaving, TablePart, LookupPart, FilePart
  <2>6. FilePart'
    BY <2>a, <2>b, <2>c DEF TypeOK, FilePart, MemPart, Probing, Bound, Cut,
      Leaving, TablePart, LookupPart, TtyPart
  <2>7. RefsPart'
    BY <2>a, <2>b, <2>c, GetOfTty
  <2>8. CountPart'
    <3>1. \A v \in Tasks : pc[v] \in {"open", "failed"} =>
            file[v] \in Ttys /\ file[v] # x /\ v # u
      BY <2>b DEF FilePart
    <3>2. /\ pc'[u] = "got"
          /\ \A v \in Tasks : v # u => pc'[v] = pc[v] /\ file'[v] = file[v]
          /\ \A y \in Ttys : y # x => tdev'[y] = tdev[y]
      BY <2>b DEF TypeOK
    <3>3. \A v \in Tasks : pc'[v] \in {"open", "failed"} <=> pc[v] \in {"open", "failed"}
      BY <3>1, <3>2
    <3>4. \A v \in Tasks : pc[v] \in {"open", "failed"} => tdev'[file'[v]] = tdev[file[v]]
      BY <3>1, <3>2
    <3>5. \A e \in Devs : Unhung(e)' = Unhung(e)
      BY <3>3, <3>4 DEF Unhung
    <3>6. \A v \in Tasks : pc[v] \in {"open", "failed"} => file'[v] = file[v]
      BY <3>1, <3>2
    <3> QED
      BY <3>5, <3>6 DEF CountPart, Unhung
  <2>9. HangupPart'
    BY <2>a, <2>b, <2>c DEF TypeOK, HangupPart, FilePart, TtyPart, Probing,
      MemPart, Bound, Cut, Leaving, HoldPart, CountPart, Unhung
  <2>10. HoldPart'
    BY <2>a, <2>b, <2>c DEF TypeOK, HoldPart, MemPart, Probing, Bound, Cut,
      Leaving, TtyPart, FilePart, CountPart, Unhung
  <2>11. ShutPart'
    BY <2>a, <2>b, <2>c DEF TypeOK, ShutPart, Cut, MemPart, Probing, Bound,
      Leaving, TtyPart, FilePart, CountPart, Unhung, HangupPart
  <2> QED
    BY <2>1, <2>2, <2>3, <2>4, <2>5, <2>6, <2>7, <2>8, <2>9, <2>10, <2>11
<1>5. ASSUME NEW u \in Tasks, GetByIndexFails(u)
      PROVE  IInv'
  <2> USE <1>5 DEF GetByIndexFails
  <2>1. (MemPart /\ TablePart)'
    BY DEF MemPart, Probing, Bound, Cut, Leaving, TablePart
  <2>2. (UsbPart /\ HoldPart /\ TrafficPart)'
    BY DEF UsbPart, Orphaned, Bound, Probing, HoldPart, TrafficPart
  <2>3. (LookupPart /\ TtyPart /\ FilePart)'
    BY DEF TypeOK, LookupPart, Probing, MemPart, Bound, Cut, Leaving,
      TablePart, TtyPart, FilePart
  <2>4. (HangupPart /\ ShutPart)'
    BY DEF TypeOK, HangupPart, FilePart, TtyPart, Probing, MemPart, Bound,
      Cut, Leaving, HoldPart, CountPart, Unhung, ShutPart
  <2>5. TypeOK'
    BY DEF TypeOK, Phases, Probing, Bound, Cut, Leaving, PCs
  <2>6. RefsPart'
    BY RefsKept DEF Own
  <2>7. CountPart'
    <3>1. /\ pc[u] \notin {"open", "failed"} /\ pc'[u] \notin {"open", "failed"}
          /\ \A v \in Tasks : v # u => pc'[v] = pc[v] /\ file'[v] = file[v]
      BY DEF TypeOK
    <3>2. \A e \in Devs : Unhung(e)' = Unhung(e)
      BY <3>1 DEF Unhung
    <3>3. \A e \in Devs : \A v \in Unhung(e) : file'[v] = file[v]
      BY <3>1 DEF Unhung
    <3> QED
      BY <3>2, <3>3 DEF CountPart
  <2> QED
    BY <2>1, <2>2, <2>3, <2>4, <2>5, <2>6, <2>7
<1>6. ASSUME NEW u \in Tasks, Install(u)
      PROVE  IInv'
  <2> USE <1>6 DEF Install
  <2>a. file[u] \in Ttys /\ tstate[file[u]] = "new" /\ tdev[file[u]] \in Devs /\ at[u] \in Minors
    BY DEF TypeOK, FilePart, TtyPart
  <2>b. table[at[u]] = tdev[file[u]] /\ ttys[at[u]] = NoTty
    BY DEF FilePart
  <2>c. \A x \in Ttys : tstate[x] = "alive" => tdev[x] # tdev[file[u]]
    BY <2>a, OneTty DEF TypeOK
  <2>1. (MemPart /\ TablePart)'
    BY DEF MemPart, Probing, Bound, Cut, Leaving, TablePart
  <2>2. (UsbPart /\ TrafficPart)'
    BY DEF UsbPart, Orphaned, Bound, Probing, TrafficPart
  <2>3. (LookupPart /\ FilePart)'
    BY DEF TypeOK, LookupPart, Probing, MemPart, Bound, Cut, Leaving,
      TablePart, TtyPart, FilePart
  <2>4. (HoldPart /\ ShutPart)'
    BY DEF TypeOK, HoldPart, MemPart, Probing, Bound, Cut, Leaving, TtyPart,
      FilePart, CountPart, Unhung, ShutPart, HangupPart
  <2>5. TypeOK'
    BY DEF TypeOK, Phases, Probing, Bound, Cut, Leaving, PCs
  <2>6. TtyPart'
    <3>1. \A n \in Minors : ttys'[n] = IF n = at[u] THEN file[u] ELSE ttys[n]
      BY <2>a DEF TypeOK
    <3>2. \A x \in Ttys : tstate'[x] = IF x = file[u] THEN "alive" ELSE tstate[x]
      BY <2>a DEF TypeOK
    <3>3. \A x \in Ttys : tstate[x] = "new" /\ x # file[u] =>
            \E v \in Tasks : v # u /\ pc[v] = "got" /\ file[v] = x
      BY DEF TtyPart
    <3>4. \A v \in Tasks : v # u => pc'[v] = pc[v]
      BY DEF TypeOK
    <3>5. \A x \in Ttys : tstate'[x] = "alive" <=> \E n \in Minors : ttys'[n] = x
      <4> SUFFICES ASSUME NEW x \in Ttys
                   PROVE  tstate'[x] = "alive" <=> \E n \in Minors : ttys'[n] = x
        OBVIOUS
      <4>1. CASE x = file[u]
        BY <2>a, <3>1, <3>2, <4>1
      <4>2. CASE x # file[u]
        <5>1. \A n \in Minors : ttys'[n] = x <=> ttys[n] = x
          BY <2>b, <3>1, <4>2
        <5> QED
          BY <3>2, <4>2, <5>1 DEF TtyPart
      <4> QED
        BY <4>1, <4>2
    <3> QED
      BY <2>a, <2>b, <3>1, <3>2, <3>3, <3>4, <3>5 DEF TtyPart
  <2>7. RefsPart'
    BY RefsKept DEF Own
  <2>8. CountPart'
    <3>1. /\ pc[u] \notin {"open", "failed"} /\ pc'[u] \notin {"open", "failed"}
          /\ \A v \in Tasks : v # u => pc'[v] = pc[v] /\ file'[v] = file[v]
      BY DEF TypeOK
    <3>2. \A e \in Devs : Unhung(e)' = Unhung(e)
      BY <3>1 DEF Unhung
    <3>3. \A e \in Devs : \A v \in Unhung(e) : file'[v] = file[v]
      BY <3>1 DEF Unhung
    <3> QED
      BY <3>2, <3>3 DEF CountPart
  <2>9. HangupPart'
    <3>1. ~hup[tdev[file[u]]]
      BY <2>a, <2>c DEF HangupPart, HoldPart, TypeOK
    <3>2. \A v \in Tasks : v # u => pc'[v] = pc[v]
      BY DEF TypeOK
    <3>3. \A x \in Ttys : tstate[x] = "alive" => tstate'[x] = "alive"
      BY <2>a DEF TypeOK
    <3> QED
      BY <3>1, <3>2, <3>3 DEF HangupPart
  <2> QED
    BY <2>1, <2>2, <2>3, <2>4, <2>5, <2>6, <2>7, <2>8, <2>9
<1>7. ASSUME NEW u \in Tasks, InstallFails(u)
      PROVE  IInv'
  <2> USE <1>7 DEF InstallFails, Put
  <2>a. /\ file[u] \in Ttys /\ tstate[file[u]] = "new" /\ tdev[file[u]] \in Devs
        /\ at[u] \in Minors /\ table[at[u]] = tdev[file[u]] /\ ttys[at[u]] = NoTty
    BY DEF TypeOK, FilePart, TtyPart
  <2>b. PICK x \in Ttys : file[u] = x
    BY <2>a
  <2>d. PICK d \in Devs : tdev[x] = d
    BY <2>a, <2>b
  <2>e. Put(d) /\ tdev' = [tdev EXCEPT ![x] = NoDev]
    BY <2>b, <2>d
  <2> HIDE DEF Put
  <2>c. /\ RefsPart'
        /\ mem[d] = "ready" /\ refs[d] \in Nat \ {0}
        /\ refs[d] = 1 => ph[d] = "unplugged" /\ \A y \in Ttys : tdev[y] = d => y = x
    BY <2>d, <2>e, PutOfTty
  <2>f. \A e \in Devs : mem'[e] = IF e = d /\ refs[d] = 1 THEN "dying" ELSE mem[e]
    BY <2>e DEF TypeOK, Put
  <2>g. /\ refs' \in [Devs -> Nat]
        /\ mem' \in [Devs -> {"free", "zeroed", "ready", "dying", "released"}]
    <3>1. refs' = [refs EXCEPT ![d] = @ - 1]
      BY <2>e DEF Put
    <3>2. mem' = mem \/ mem' = [mem EXCEPT ![d] = "dying"]
      BY <2>e DEF Put
    <3>3. refs' \in [Devs -> Nat]
      <4>1. refs \in [Devs -> Nat] /\ refs[d] - 1 \in Nat
        BY <2>c DEF TypeOK
      <4> QED
        BY <3>1, <4>1
    <3>4. mem' \in [Devs -> {"free", "zeroed", "ready", "dying", "released"}]
      BY <3>2 DEF TypeOK
    <3> QED
      BY <3>3, <3>4
  <2>1. TrafficPart'
    BY DEF TrafficPart, Bound
  <2>2. (HangupPart /\ HoldPart /\ ShutPart)'
    BY DEF TypeOK, HangupPart, FilePart, TtyPart, Probing, MemPart, Bound,
      Cut, Leaving, HoldPart, CountPart, Unhung, ShutPart
  <2>3. TypeOK'
    BY <2>a, <2>g DEF TypeOK, Phases, Probing, Bound, Cut, Leaving, PCs
  <2>4. MemPart'
    BY <2>c, <2>f DEF TypeOK, MemPart, Probing, Bound, Cut, Leaving, TtyPart
  <2>5. TablePart'
    <3>1. \A e \in Devs : mem'[e] \in {"zeroed", "ready", "dying"} <=>
                         mem[e] \in {"zeroed", "ready", "dying"}
      BY <2>c, <2>f
    <3>2. UNCHANGED <<table, minor>>
      OBVIOUS
    <3> QED
      BY <3>1, <3>2 DEF TablePart
  <2>6. LookupPart'
    BY <2>a, <2>c, <2>f DEF TypeOK, LookupPart, Probing, MemPart, Bound, Cut,
      Leaving, TablePart, TtyPart, FilePart
  <2>7. TtyPart'
    <3>1. \A y \in Ttys : y # file[u] => tstate'[y] = tstate[y] /\ tdev'[y] = tdev[y]
      BY <2>a DEF TypeOK
    <3>2. tstate'[file[u]] = "none" /\ tdev'[file[u]] = NoDev
      BY <2>a DEF TypeOK
    <3>3. \A y \in Ttys : tdev'[y] \in Devs =>
            mem'[tdev'[y]] = "ready" /\ ph[tdev'[y]] \notin Probing
      BY <2>b, <2>c, <2>d, <2>f, <3>1, <3>2 DEF TtyPart
    <3>4. \A v \in Tasks : v # u => pc'[v] = pc[v] /\ file'[v] = file[v]
      BY DEF TypeOK
    <3>5. \A m \in Minors : ttys[m] # file[u]
      BY <2>a DEF TtyPart
    <3> QED
      BY <2>a, <3>1, <3>2, <3>3, <3>4, <3>5 DEF TtyPart, TypeOK
  <2>8. FilePart'
    BY DEF TypeOK, FilePart, MemPart, Probing, Bound, Cut, Leaving, TablePart,
      LookupPart, TtyPart
  <2>9. RefsPart'
    BY <2>c
  <2>10. UsbPart'
    BY <2>a, <2>c, <2>f DEF TypeOK, UsbPart, Orphaned, Bound, Probing, MemPart, Cut,
      Leaving
  <2>11. CountPart'
    <3>1. \A v \in Tasks : pc[v] \in {"open", "failed"} =>
            file[v] \in Ttys /\ file[v] # file[u] /\ v # u
      BY <2>a DEF FilePart
    <3>2. /\ pc'[u] = "idle"
          /\ \A v \in Tasks : v # u => pc'[v] = pc[v] /\ file'[v] = file[v]
          /\ \A y \in Ttys : y # file[u] => tdev'[y] = tdev[y]
      BY DEF TypeOK
    <3>3. \A v \in Tasks : pc'[v] \in {"open", "failed"} <=> pc[v] \in {"open", "failed"}
      BY <3>1, <3>2
    <3>4. \A v \in Tasks : pc[v] \in {"open", "failed"} =>
            file'[v] = file[v] /\ tdev'[file'[v]] = tdev[file[v]]
      BY <3>1, <3>2
    <3>5. \A e \in Devs : Unhung(e)' = Unhung(e)
      BY <3>3, <3>4 DEF Unhung
    <3> QED
      BY <3>4, <3>5 DEF CountPart, Unhung
  <2> QED
    BY <2>1, <2>2, <2>3, <2>4, <2>5, <2>6, <2>7, <2>8, <2>9, <2>10, <2>11
<1>8. ASSUME NEW u \in Tasks, OpenPortAgain(u)
      PROVE  IInv'
  <2> USE <1>8 DEF OpenPortAgain
  <2>a. CountPart' /\ tdev[file[u]] \in Devs /\ file[u] \in Ttys
    BY OpenCounts DEF TypeOK
  <2>1. (MemPart /\ TablePart)'
    BY DEF MemPart, Probing, Bound, Cut, Leaving, TablePart
  <2>2. (UsbPart /\ HoldPart /\ TrafficPart)'
    BY DEF UsbPart, Orphaned, Bound, Probing, HoldPart, TrafficPart
  <2>3. (LookupPart /\ TtyPart /\ FilePart)'
    BY DEF TypeOK, LookupPart, Probing, MemPart, Bound, Cut, Leaving,
      TablePart, TtyPart, FilePart
  <2>4. TypeOK'
    BY <2>a DEF TypeOK, Phases, Probing, Bound, Cut, Leaving, PCs
  <2>5. RefsPart'
    BY RefsKept DEF Own
  <2>6. CountPart'
    BY <2>a
  <2>7. HangupPart'
    BY <2>a DEF TypeOK, HangupPart, FilePart, TtyPart, Probing, MemPart,
      Bound, Cut, Leaving, HoldPart, CountPart, Unhung
  <2>8. ShutPart'
    BY <2>a DEF TypeOK, ShutPart, Cut, MemPart, Probing, Bound, Leaving,
      TtyPart, FilePart, CountPart, Unhung, HangupPart
  <2> QED
    BY <2>1, <2>2, <2>3, <2>4, <2>5, <2>6, <2>7, <2>8
<1>9. ASSUME NEW u \in Tasks, NEW talks \in BOOLEAN, OpenPort(u, talks)
      PROVE  IInv'
  <2> USE <1>9 DEF OpenPort
  <2>a. CountPart' /\ tdev[file[u]] \in Devs /\ file[u] \in Ttys
    BY OpenCounts DEF TypeOK
  <2>1. (MemPart /\ TablePart)'
    BY DEF MemPart, Probing, Bound, Cut, Leaving, TablePart
  <2>2. (UsbPart /\ HoldPart)'
    BY DEF UsbPart, Orphaned, Bound, Probing, HoldPart
  <2>3. (LookupPart /\ TtyPart /\ FilePart)'
    BY DEF TypeOK, LookupPart, Probing, MemPart, Bound, Cut, Leaving,
      TablePart, TtyPart, FilePart
  <2>4. TypeOK'
    BY <2>a DEF TypeOK, Phases, Probing, Bound, Cut, Leaving, PCs
  <2>5. RefsPart'
    BY RefsKept DEF Own
  <2>6. CountPart'
    BY <2>a
  <2>7. HangupPart'
    BY <2>a DEF TypeOK, HangupPart, FilePart, TtyPart, Probing, MemPart,
      Bound, Cut, Leaving, HoldPart, CountPart, Unhung
  <2>8. ShutPart'
    BY <2>a DEF TypeOK, ShutPart, Cut, MemPart, Probing, Bound, Leaving,
      TtyPart, FilePart, CountPart, Unhung, HangupPart
  <2>9. TrafficPart'
    <3>1. ph[tdev[file[u]]] \in Bound
      BY <2>a DEF TypeOK, TtyPart, MemPart, Phases, Leaving
    <3> QED
      BY <3>1, <2>a DEF TrafficPart, TypeOK
  <2> QED
    BY <2>1, <2>2, <2>3, <2>4, <2>5, <2>6, <2>7, <2>8, <2>9
<1>10. ASSUME NEW u \in Tasks, OpenPortFails(u)
      PROVE  IInv'
  <2> USE <1>10 DEF OpenPortFails
  <2>a. CountPart' /\ tdev[file[u]] \in Devs /\ file[u] \in Ttys
    BY OpenCounts DEF TypeOK
  <2>1. (MemPart /\ TablePart)'
    BY DEF MemPart, Probing, Bound, Cut, Leaving, TablePart
  <2>2. (UsbPart /\ HoldPart /\ TrafficPart)'
    BY DEF UsbPart, Orphaned, Bound, Probing, HoldPart, TrafficPart
  <2>3. (LookupPart /\ TtyPart /\ FilePart)'
    BY DEF TypeOK, LookupPart, Probing, MemPart, Bound, Cut, Leaving,
      TablePart, TtyPart, FilePart
  <2>4. TypeOK'
    BY <2>a DEF TypeOK, Phases, Probing, Bound, Cut, Leaving, PCs
  <2>5. RefsPart'
    BY RefsKept DEF Own
  <2>6. CountPart'
    BY <2>a
  <2>7. HangupPart'
    BY <2>a DEF TypeOK, HangupPart, FilePart, TtyPart, Probing, MemPart,
      Bound, Cut, Leaving, HoldPart, CountPart, Unhung
  <2>8. ShutPart'
    BY <2>a DEF TypeOK, ShutPart, Cut, MemPart, Probing, Bound, Leaving,
      TtyPart, FilePart, CountPart, Unhung, HangupPart
  <2> QED
    BY <2>1, <2>2, <2>3, <2>4, <2>5, <2>6, <2>7, <2>8
<1>11. ASSUME NEW u \in Tasks, Write(u)
      PROVE  IInv'
  <2> USE <1>11 DEF Write
  <2>1. (MemPart /\ TablePart /\ LookupPart /\ TtyPart /\ FilePart)'
    BY DEF MemPart, Probing, Bound, Cut, Leaving, TablePart, LookupPart,
      TtyPart, FilePart
  <2>2. (UsbPart /\ HangupPart /\ HoldPart /\ ShutPart)'
    BY DEF UsbPart, Orphaned, Bound, Probing, HangupPart, HoldPart, ShutPart, Cut
  <2>3. TypeOK'
    BY DEF TypeOK, Phases, Probing, Bound, Cut, Leaving, PCs
  <2>4. RefsPart'
    BY RefsKept DEF Own
  <2>5. CountPart'
    BY CountKept
  <2>6. TrafficPart'
    <3>1. file[u] \in Ttys /\ tstate[file[u]] = "alive"
      BY DEF FilePart
    <3>2. tdev[file[u]] \in Devs /\ ph[tdev[file[u]]] \notin Probing
      BY <3>1 DEF TypeOK, TtyPart
    <3>3. ph[tdev[file[u]]] \in Bound \cup {"marked", "tty"}
      BY <3>2 DEF TypeOK, ShutPart, Phases, Leaving
    <3> QED
      BY <3>2, <3>3 DEF TrafficPart, TypeOK
  <2> QED
    BY <2>1, <2>2, <2>3, <2>4, <2>5, <2>6
<1> QED
  BY <1>1, <1>2, <1>3, <1>4, <1>5, <1>6, <1>7, <1>8, <1>9, <1>10, <1>11 DEF
    OpenStep

\* So do closes and hang-ups.
LEMMA CloseIInv ==
  ASSUME ~StaleOpen, IInv,
         \/ \E u \in Tasks : Close(u)
         \/ \E x \in Ttys : Cleanup(x) \/ HangupWork(x)
         \/ \E d \in Devs : Carrier(d) \/ HangupShutdown(d)
  PROVE  IInv'
<1> USE NullAssumption, SetAssumption DEF IInv, Life, Port, objVars, usbVars, portVars, ttyVars, taskVars
<1>1. ASSUME NEW u \in Tasks, Close(u)
      PROVE  IInv'
  <2> USE <1>1 DEF Close, PortClose, Shutdown, Openers, Installing, TtyLocked
  <2>a. file[u] \in Ttys /\ tstate[file[u]] = "alive" /\ pc[u] \in {"open", "failed"}
    BY DEF FilePart
  <2>b. PICK d \in Devs : tdev[file[u]] = d
    BY <2>a DEF TtyPart, TypeOK
  <2>c. PortClose(d, hungf[u])
    BY <2>b
  <2> HIDE DEF PortClose
  <2>d. count[d] = Cardinality(Unhung(d)) /\ (u \in Unhung(d) <=> ~hungf[u])
    BY <2>a, <2>b DEF CountPart, Unhung
  <2>e. ~hungf[u] => count[d] \in Nat \ {0}
    BY <2>d, UnhungRemoved
  <2>f. ~hup[d]
    BY <2>b DEF TypeOK
  <2>g. /\ traffic' \in [Devs -> BOOLEAN] /\ initialized' \in [Devs -> BOOLEAN]
        /\ count' \in [Devs -> Nat] /\ ptty' \in [Devs -> Ttys \cup {NoTty}]
    <3>1. CASE ~hungf[u] /\ count[d] = 1
      <4>1. traffic' \in [Devs -> BOOLEAN] /\ initialized' \in [Devs -> BOOLEAN]
        BY <2>c, <3>1, ShutdownTypes DEF PortClose
      <4>2. count' = [count EXCEPT ![d] = @ - 1] /\ ptty' = [ptty EXCEPT ![d] = NoTty]
        BY <2>c, <3>1 DEF PortClose
      <4> QED
        BY <2>e, <3>1, <4>1, <4>2 DEF TypeOK
    <3>2. CASE ~hungf[u] /\ count[d] # 1
      <4>1. count' = [count EXCEPT ![d] = @ - 1] /\ UNCHANGED <<traffic, ptty, initialized>>
        BY <2>c, <3>2 DEF PortClose
      <4>2. count \in [Devs -> Nat] /\ count[d] - 1 \in Nat
        BY <2>e, <3>2 DEF TypeOK
      <4> QED
        BY <4>1, <4>2 DEF TypeOK
    <3>3. CASE hungf[u]
      BY <2>c, <3>3 DEF PortClose, TypeOK
    <3> QED
      BY <3>1, <3>2, <3>3
  <2>h. /\ tstate' \in [Ttys -> {"none", "new", "alive", "released"}]
        /\ ttys' \in [Minors -> Ttys \cup {NoTty}] /\ hupwork' \in [Ttys -> BOOLEAN]
    <3>1. CASE Openers(file[u]) = {u}
      <4>1. /\ tstate' = [tstate EXCEPT ![file[u]] = "released"]
            /\ ttys' = [m \in Minors |-> IF ttys[m] = file[u] THEN NoTty ELSE ttys[m]]
            /\ hupwork' = [hupwork EXCEPT ![file[u]] = FALSE]
        BY <3>1
      <4> HIDE <1>1 DEF Close
      <4> QED
        BY <2>a, <4>1 DEF TypeOK
    <3>2. CASE Openers(file[u]) # {u}
      BY <3>2 DEF TypeOK
    <3> QED
      BY <3>1, <3>2
  <2>1. (MemPart /\ TablePart)'
    BY DEF MemPart, Probing, Bound, Cut, Leaving, TablePart
  <2>2. UsbPart'
    BY DEF UsbPart, Orphaned, Bound, Probing
  <2>3. (LookupPart /\ TtyPart /\ FilePart)'
    BY DEF TypeOK, LookupPart, Probing, MemPart, Bound, Cut, Leaving,
      TablePart, TtyPart, FilePart
  <2>4. (HangupPart /\ HoldPart)'
    BY DEF TypeOK, HangupPart, FilePart, TtyPart, Probing, MemPart, Bound,
      Cut, Leaving, HoldPart, CountPart, Unhung
  <2>5. TypeOK'
    <3>1. pc' \in [Tasks -> PCs] /\ file' \in [Tasks -> Ttys \cup {NoTty}]
          /\ hungf' \in [Tasks -> BOOLEAN]
      BY DEF TypeOK, PCs
    <3> HIDE DEF Openers, TtyLocked, Installing
    <3> QED
      BY <2>g, <2>h, <3>1 DEF TypeOK
  <2>6. RefsPart'
    BY RefsKept DEF Own
  <2>7. CountPart'
    <3>1. \A e \in Devs : Unhung(e)' = Unhung(e) \ {u}
      <4>1. pc'[u] = "idle" /\ \A v \in Tasks : v # u =>
              pc'[v] = pc[v] /\ file'[v] = file[v] /\ hungf'[v] = hungf[v]
        BY DEF TypeOK
      <4> QED
        BY <4>1 DEF Unhung
    <3>2. \A e \in Devs : u \in Unhung(e) <=> e = d /\ ~hungf[u]
      BY <2>b, <2>d DEF Unhung
    <3>3. \A e \in Devs : \A v \in Unhung(e) : v # u => file'[v] = file[v]
      BY DEF TypeOK, Unhung
    <3>4. \A e \in Devs : e # d \/ hungf[u] => Unhung(e)' = Unhung(e)
      BY <3>1, <3>2
    <3>5. \A e \in Devs : e # d \/ hungf[u] =>
            count'[e] = count[e] /\ ptty'[e] = ptty[e] /\ initialized'[e] = initialized[e]
      BY <2>c DEF PortClose, Shutdown, TypeOK
    <3> SUFFICES ASSUME NEW e \in Devs
                 PROVE  (/\ count[e] = Cardinality(Unhung(e))
                         /\ \A v \in Unhung(e) : ptty[e] = file[v]
                         /\ ptty[e] # NoTty => Unhung(e) # {}
                         /\ initialized[e] => ptty[e] # NoTty \/ hup[e])'
      BY DEF CountPart
    <3>6. CASE e # d \/ hungf[u]
      <4>1. hup' = hup /\ \A v \in Unhung(e) : file'[v] = file[v]
        BY <3>2, <3>3, <3>6
      <4> QED
        BY <3>4, <3>5, <3>6, <4>1 DEF CountPart
    <3>7. CASE e = d /\ ~hungf[u]
      <4>1. Cardinality(Unhung(d) \ {u}) = count[d] - 1
        BY <2>d, <3>7, UnhungRemoved
      <4>2. count[d] = 1 <=> Unhung(d) \ {u} = {}
        BY <2>d, <3>7, UnhungRemoved
      <4>4. /\ count'[d] = count[d] - 1
            /\ count[d] = 1 => ptty'[d] = NoTty /\ ~initialized'[d]
            /\ count[d] # 1 => ptty'[d] = ptty[d] /\ initialized'[d] = initialized[d]
            /\ hup' = hup
        BY <2>c, <3>7 DEF PortClose, Shutdown, TypeOK
      <4>5. /\ \A v \in Unhung(d) : ptty[d] = file[v]
            /\ initialized[d] => ptty[d] # NoTty \/ hup[d]
        BY DEF CountPart
      <4>6. Unhung(e)' = Unhung(d) \ {u}
        BY <3>1, <3>7
      <4> QED
        BY <3>3, <3>7, <4>1, <4>2, <4>4, <4>5, <4>6
    <3> QED
      BY <3>6, <3>7
  <2>8. ShutPart'
    <3>1. \A e \in Devs : initialized'[e] => initialized[e]
      BY <2>c DEF PortClose, Shutdown, TypeOK
    <3>2. pc'[u] = "idle" /\ \A v \in Tasks : v # u =>
            pc'[v] = pc[v] /\ file'[v] = file[v] /\ hungf'[v] = hungf[v]
      BY DEF TypeOK
    <3> QED
      BY <3>1, <3>2 DEF ShutPart
  <2>9. TrafficPart'
    <3>1. \A e \in Devs : traffic'[e] => traffic[e]
      BY <2>c DEF PortClose, Shutdown, TypeOK
    <3> QED
      BY <3>1 DEF TrafficPart
  <2> QED
    BY <2>1, <2>2, <2>3, <2>4, <2>5, <2>6, <2>7, <2>8, <2>9
<1>2. ASSUME NEW x \in Ttys, Cleanup(x)
      PROVE  IInv'
  <2> USE <1>2 DEF Cleanup, Put
  <2>a. PICK d \in Devs : tdev[x] = d
    BY DEF TypeOK, TtyPart
  <2>d. Put(d)
    BY <2>a
  <2> HIDE DEF Put
  <2>b. /\ RefsPart'
        /\ mem[d] = "ready" /\ refs[d] \in Nat \ {0}
        /\ refs[d] = 1 => ph[d] = "unplugged" /\ \A y \in Ttys : tdev[y] = d => y = x
    BY <2>a, <2>d, PutOfTty
  <2>c. \A e \in Devs : mem'[e] = IF e = d /\ refs[d] = 1 THEN "dying" ELSE mem[e]
    BY <2>d DEF TypeOK, Put
  <2>e. /\ refs' \in [Devs -> Nat]
        /\ mem' \in [Devs -> {"free", "zeroed", "ready", "dying", "released"}]
    <3>1. refs' = [refs EXCEPT ![d] = @ - 1]
      BY <2>d DEF Put
    <3>2. mem' = mem \/ mem' = [mem EXCEPT ![d] = "dying"]
      BY <2>d DEF Put
    <3>3. refs' \in [Devs -> Nat]
      <4>1. refs \in [Devs -> Nat] /\ refs[d] - 1 \in Nat
        BY <2>b DEF TypeOK
      <4> QED
        BY <3>1, <4>1
    <3>4. mem' \in [Devs -> {"free", "zeroed", "ready", "dying", "released"}]
      BY <3>2 DEF TypeOK
    <3> QED
      BY <3>3, <3>4
  <2>1. TrafficPart'
    BY DEF TrafficPart, Bound
  <2>2. (HangupPart /\ HoldPart /\ ShutPart)'
    BY DEF TypeOK, HangupPart, FilePart, TtyPart, Probing, MemPart, Bound,
      Cut, Leaving, HoldPart, CountPart, Unhung, ShutPart
  <2>3. TypeOK'
    BY <2>e DEF TypeOK, Phases, Probing, Bound, Cut, Leaving, PCs
  <2>4. MemPart'
    BY <2>b, <2>c DEF TypeOK, MemPart, Probing, Bound, Cut, Leaving
  <2>5. TablePart'
    <3>1. \A e \in Devs : mem'[e] \in {"zeroed", "ready", "dying"} <=>
                         mem[e] \in {"zeroed", "ready", "dying"}
      BY <2>b, <2>c
    <3>2. UNCHANGED <<table, minor>>
      OBVIOUS
    <3> QED
      BY <3>1, <3>2 DEF TablePart
  <2>6. LookupPart'
    BY <2>a, <2>b, <2>c DEF TypeOK, LookupPart, Probing, MemPart, Bound, Cut,
      Leaving, TablePart, TtyPart, FilePart
  <2>7. TtyPart'
    <3>1. \A y \in Ttys : y # x => tstate'[y] = tstate[y] /\ tdev'[y] = tdev[y]
      BY DEF TypeOK
    <3>2. tstate'[x] = "none" /\ tdev'[x] = NoDev
      BY DEF TypeOK
    <3>3. \A y \in Ttys : tdev'[y] \in Devs =>
            mem'[tdev'[y]] = "ready" /\ ph[tdev'[y]] \notin Probing
      BY <2>a, <2>b, <2>c, <3>1, <3>2 DEF TtyPart
    <3>5. \A m \in Minors : ttys[m] # x
      BY DEF TtyPart
    <3> QED
      BY <3>1, <3>2, <3>3, <3>5 DEF TtyPart, TypeOK
  <2>8. FilePart'
    BY DEF TypeOK, FilePart, MemPart, Probing, Bound, Cut, Leaving, TablePart,
      LookupPart, TtyPart
  <2>9. RefsPart'
    BY <2>b
  <2>10. UsbPart'
    BY <2>a, <2>b, <2>c DEF TypeOK, UsbPart, Orphaned, Bound, Probing, MemPart, Cut,
      Leaving
  <2>11. CountPart'
    <3>1. \A v \in Tasks : pc[v] \in {"open", "failed"} => file[v] \in Ttys /\ file[v] # x
      BY DEF FilePart
    <3>2. \A y \in Ttys : y # x => tdev'[y] = tdev[y]
      BY DEF TypeOK
    <3>3. \A e \in Devs : Unhung(e)' = Unhung(e)
      BY <3>1, <3>2 DEF Unhung
    <3> QED
      BY <3>3 DEF CountPart
  <2> QED
    BY <2>1, <2>2, <2>3, <2>4, <2>5, <2>6, <2>7, <2>8, <2>9, <2>10, <2>11
<1>3. ASSUME NEW d \in Devs, Carrier(d)
      PROVE  IInv'
  <2> USE <1>3 DEF Carrier
  <2>a. ptty[d] \in Ttys /\ tstate[ptty[d]] = "alive"
    <3>1. PICK u \in Unhung(d) : ptty[d] = file[u]
      BY DEF CountPart
    <3> QED
      BY <3>1 DEF Unhung, FilePart
  <2>1. (MemPart /\ TablePart /\ LookupPart /\ FilePart)'
    BY DEF MemPart, Probing, Bound, Cut, Leaving, TablePart, LookupPart,
      FilePart
  <2>2. (UsbPart /\ HangupPart /\ HoldPart /\ ShutPart /\ TrafficPart)'
    BY DEF UsbPart, Orphaned, Bound, Probing, HangupPart, HoldPart, ShutPart, Cut,
      TrafficPart
  <2>3. TypeOK'
    BY DEF TypeOK, Phases, Probing, Bound, Cut, Leaving, PCs
  <2>4. TtyPart'
    BY <2>a DEF TtyPart, TypeOK
  <2>5. RefsPart'
    BY RefsKept DEF Own
  <2>6. CountPart'
    BY CountKept
  <2> QED
    BY <2>1, <2>2, <2>3, <2>4, <2>5, <2>6
<1>4. ASSUME NEW x \in Ttys, HangupWork(x)
      PROVE  IInv'
  <2> USE <1>4 DEF HangupWork, HangUp, TtyLocked, Openers
  <2>a. PICK d \in Devs : tdev[x] = d /\ tstate[x] = "alive"
    BY DEF TypeOK, TtyPart
  <2>b. \A y \in Ttys : tdev[y] = d /\ tstate[y] = "alive" => y = x
    BY <2>a, OneTty DEF TypeOK
  <2> HIDE DEF HangUp, TtyLocked, Openers
  <2>c. /\ CountPart'
        /\ \A u \in Tasks :
             pc[u] \in {"opening", "open", "failed"} /\ tdev[file[u]] = d => hungf'[u]
        /\ \A u \in Tasks : hungf'[u] => pc[u] \in {"open", "failed"}
        /\ \A u \in Tasks : hungf[u] => hungf'[u]
    BY <2>a, <2>b, HangUpCuts
  <2> USE DEF HangUp
  <2>d. hup' = [hup EXCEPT ![d] = TRUE]
    BY <2>a
  <2>1. (MemPart /\ TablePart /\ LookupPart)'
    BY DEF MemPart, Probing, Bound, Cut, Leaving, TablePart, LookupPart
  <2>2. (UsbPart /\ HoldPart /\ TrafficPart)'
    BY DEF UsbPart, Orphaned, Bound, Probing, HoldPart, TrafficPart
  <2>3. TypeOK'
    BY DEF TypeOK, Phases, Probing, Bound, Cut, Leaving, PCs
  <2>4. TtyPart'
    BY DEF TypeOK, TtyPart, Probing, MemPart, Bound, Cut, Leaving, TablePart,
      LookupPart, FilePart
  <2>5. FilePart'
    BY <2>c DEF FilePart
  <2>6. RefsPart'
    BY RefsKept DEF Own
  <2>7. CountPart'
    BY <2>c
  <2>8. HangupPart'
    BY <2>a, <2>c, <2>d DEF HangupPart, TypeOK
  <2>9. ShutPart'
    BY <2>c, <2>d DEF ShutPart, TypeOK
  <2> QED
    BY <2>1, <2>2, <2>3, <2>4, <2>5, <2>6, <2>7, <2>8, <2>9
<1>5. ASSUME NEW d \in Devs, HangupShutdown(d)
      PROVE  IInv'
  <2> USE <1>5 DEF HangupShutdown, Shutdown
  <2>1. (MemPart /\ TablePart /\ LookupPart /\ TtyPart /\ FilePart)'
    BY DEF MemPart, Probing, Bound, Cut, Leaving, TablePart, LookupPart,
      TtyPart, FilePart
  <2>2. (UsbPart /\ HoldPart)'
    BY DEF UsbPart, Orphaned, Bound, Probing, HoldPart
  <2>3. (HangupPart /\ ShutPart /\ TrafficPart)'
    BY DEF TypeOK, HangupPart, FilePart, TtyPart, Probing, MemPart, Bound,
      Cut, Leaving, HoldPart, CountPart, Unhung, ShutPart, TrafficPart
  <2>4. TypeOK'
    <3>1. traffic' \in [Devs -> BOOLEAN] /\ initialized' \in [Devs -> BOOLEAN]
      BY ShutdownTypes DEF Shutdown
    <3> QED
      BY <3>1 DEF TypeOK, Phases, Probing, Bound, Cut, Leaving, PCs
  <2>5. RefsPart'
    BY RefsKept DEF Own
  <2>6. CountPart'
    <3>1. \A e \in Devs : Unhung(e)' = Unhung(e)
      BY DEF Unhung, FilePart, TypeOK
    <3> QED
      BY <3>1 DEF CountPart, TypeOK
  <2> QED
    BY <2>1, <2>2, <2>3, <2>4, <2>5, <2>6
<1> QED
  BY <1>1, <1>2, <1>3, <1>4, <1>5

\* So do disconnect and what it sets off.
LEMMA DisconnectIInv ==
  ASSUME ~StaleOpen, IInv,
         \E d \in Devs : Disconnect(d) \/ DisconnectStep(d) \/ Destruct(d)
  PROVE  IInv'
<1> USE NullAssumption, SetAssumption DEF IInv, Life, Port, objVars, usbVars, portVars, ttyVars, taskVars
<1>1. ASSUME NEW d \in Devs, Disconnect(d)
      PROVE  IInv'
  <2> USE <1>1 DEF Disconnect
  <2>a. ph[d] = "bound"
    OBVIOUS
  <2>1. (TablePart /\ FilePart)'
    BY DEF TablePart, FilePart
  <2>2. (LookupPart /\ TtyPart)'
    BY DEF TypeOK, LookupPart, Probing, MemPart, Bound, Cut, Leaving,
      TablePart, TtyPart, FilePart
  <2>3. (UsbPart /\ HangupPart /\ HoldPart /\ ShutPart)'
    BY DEF TypeOK, UsbPart, Orphaned, Bound, Probing, MemPart, Cut, Leaving, HangupPart,
      FilePart, TtyPart, HoldPart, CountPart, Unhung, ShutPart
  <2>4. TypeOK'
    BY DEF TypeOK, Phases, Probing, Bound, Cut, Leaving, PCs
  <2>5. MemPart'
    BY <2>a DEF TypeOK, MemPart, Probing, Bound, Cut, Leaving
  <2>6. RefsPart'
    BY <2>a, RefsKept DEF Own, TypeOK
  <2>7. CountPart'
    BY CountKept
  <2>8. TrafficPart'
    BY <2>a DEF TypeOK, TrafficPart, Bound
  <2> QED
    BY <2>1, <2>2, <2>3, <2>4, <2>5, <2>6, <2>7, <2>8
<1>2. ASSUME NEW d \in Devs, DisconnectTty(d)
      PROVE  IInv'
  <2> USE <1>2 DEF DisconnectTty
  <2>a. \A u \in Unhung(d) : ptty[d] = file[u] /\ file[u] \in Ttys /\ tstate[file[u]] = "alive"
    BY DEF CountPart, Unhung, FilePart
  <2>b. ptty[d] # NoTty => \E u \in Unhung(d) : ptty[d] = file[u]
    BY DEF CountPart
  <2>1. (TablePart /\ FilePart)'
    BY DEF TablePart, FilePart
  <2>2. (MemPart /\ LookupPart /\ TtyPart)'
    BY DEF TypeOK, MemPart, Probing, Bound, Cut, Leaving, LookupPart,
      TablePart, TtyPart, FilePart
  <2>3. (UsbPart /\ HangupPart /\ TrafficPart)'
    BY DEF TypeOK, UsbPart, Orphaned, Bound, Probing, MemPart, Cut, Leaving, HangupPart,
      FilePart, TtyPart, HoldPart, CountPart, Unhung, TrafficPart, ShutPart
  <2>4. TypeOK'
    BY DEF TypeOK, Phases, Probing, Bound, Cut, Leaving, PCs
  <2>5. RefsPart'
    BY RefsKept DEF Own, TypeOK
  <2>6. CountPart'
    BY CountKept
  <2>7. HoldPart'
    <3>1. ptty[d] # NoTty =>
            /\ ptty[d] \in Ttys /\ tstate[ptty[d]] = "alive" /\ tdev[ptty[d]] = d
      BY <2>a, <2>b DEF Unhung
    <3>2. ptty[d] # NoTty => \A x \in Ttys :
            tdev[x] = d /\ tstate[x] \in {"new", "alive"} => x = ptty[d]
      BY <3>1, OneTty
    <3>3. \A e \in Devs : e # d => ph'[e] = ph[e] /\ hold'[e] = hold[e]
      BY DEF TypeOK
    <3>4. hold'[d] = ptty[d] /\ ph'[d] = IF ptty[d] = NoTty THEN "quiet" ELSE "tty"
      BY DEF TypeOK
    <3> QED
      BY <3>1, <3>2, <3>3, <3>4 DEF HoldPart
  <2>8. ShutPart'
    <3>1. ptty[d] = NoTty => Unhung(d) = {} /\ (initialized[d] => hup[d])
      BY <2>a DEF CountPart
    <3>2. \A e \in Devs : e # d => ph'[e] = ph[e]
      BY DEF TypeOK
    <3>3. ph'[d] = IF ptty[d] = NoTty THEN "quiet" ELSE "tty"
      BY DEF TypeOK
    <3> QED
      BY <3>1, <3>2, <3>3 DEF ShutPart, Unhung, Cut
  <2> QED
    BY <2>1, <2>2, <2>3, <2>4, <2>5, <2>6, <2>7, <2>8
<1>3. ASSUME NEW d \in Devs, DisconnectHangup(d)
      PROVE  IInv'
  <2> USE <1>3 DEF DisconnectHangup, HangUp, TtyLocked, Openers
  <2>a. /\ hold[d] \in Ttys /\ tdev[hold[d]] = d
        /\ \A y \in Ttys : tdev[y] = d /\ tstate[y] = "alive" => y = hold[d]
    BY DEF TypeOK, HoldPart
  <2> HIDE DEF HangUp, TtyLocked, Openers
  <2>b. /\ CountPart'
        /\ \A u \in Tasks :
             pc[u] \in {"opening", "open", "failed"} /\ tdev[file[u]] = d => hungf'[u]
        /\ \A u \in Tasks : hungf'[u] => pc[u] \in {"open", "failed"}
        /\ \A u \in Tasks : hungf[u] => hungf'[u]
    BY <2>a, HangUpCuts
  <2> USE DEF HangUp
  <2>1. TablePart'
    BY DEF TablePart
  <2>2. (MemPart /\ LookupPart /\ TtyPart)'
    BY DEF TypeOK, MemPart, Probing, Bound, Cut, Leaving, LookupPart,
      TablePart, TtyPart, FilePart
  <2>3. (UsbPart /\ HoldPart /\ TrafficPart)'
    BY DEF TypeOK, UsbPart, Orphaned, Bound, Probing, MemPart, Cut, Leaving, HoldPart,
      TtyPart, FilePart, CountPart, Unhung, TrafficPart, ShutPart
  <2>4. TypeOK'
    BY DEF TypeOK, Phases, Probing, Bound, Cut, Leaving, PCs
  <2>5. FilePart'
    BY <2>b DEF FilePart
  <2>6. RefsPart'
    BY RefsKept DEF Own, TypeOK
  <2>7. CountPart'
    BY <2>b
  <2>8. HangupPart'
    BY <2>b DEF HangupPart, TypeOK
  <2>9. ShutPart'
    <3>1. hup'[d] /\ \A e \in Devs : e # d => ph'[e] = ph[e] /\ hup'[e] = hup[e]
      BY DEF TypeOK
    <3> QED
      BY <2>b, <3>1 DEF ShutPart
  <2> QED
    BY <2>1, <2>2, <2>3, <2>4, <2>5, <2>6, <2>7, <2>8, <2>9
<1>4. ASSUME NEW d \in Devs, DisconnectHungUp(d)
      PROVE  IInv'
  <2> USE <1>4 DEF DisconnectHungUp
  <2>1. (TablePart /\ FilePart)'
    BY DEF TablePart, FilePart
  <2>2. (MemPart /\ LookupPart /\ TtyPart)'
    BY DEF TypeOK, MemPart, Probing, Bound, Cut, Leaving, LookupPart,
      TablePart, TtyPart, FilePart
  <2>3. (UsbPart /\ HangupPart /\ HoldPart /\ ShutPart /\ TrafficPart)'
    BY DEF TypeOK, UsbPart, Orphaned, Bound, Probing, MemPart, Cut, Leaving, HangupPart,
      FilePart, TtyPart, HoldPart, CountPart, Unhung, ShutPart, TrafficPart
  <2>4. TypeOK'
    BY DEF TypeOK, Phases, Probing, Bound, Cut, Leaving, PCs
  <2>5. RefsPart'
    BY RefsKept DEF Own, TypeOK
  <2>6. CountPart'
    BY CountKept
  <2> QED
    BY <2>1, <2>2, <2>3, <2>4, <2>5, <2>6
<1>5. ASSUME NEW d \in Devs, DisconnectStop(d)
      PROVE  IInv'
  <2> USE <1>5 DEF DisconnectStop
  <2>1. (TablePart /\ FilePart)'
    BY DEF TablePart, FilePart
  <2>2. (MemPart /\ LookupPart /\ TtyPart)'
    BY DEF TypeOK, MemPart, Probing, Bound, Cut, Leaving, LookupPart,
      TablePart, TtyPart, FilePart
  <2>3. (UsbPart /\ HangupPart /\ HoldPart /\ ShutPart /\ TrafficPart)'
    BY DEF TypeOK, UsbPart, Orphaned, Bound, Probing, MemPart, Cut, Leaving, HangupPart,
      FilePart, TtyPart, HoldPart, CountPart, Unhung, ShutPart, TrafficPart
  <2>4. TypeOK'
    BY DEF TypeOK, Phases, Probing, Bound, Cut, Leaving, PCs
  <2>5. RefsPart'
    BY RefsKept DEF Own, TypeOK
  <2>6. CountPart'
    BY CountKept
  <2> QED
    BY <2>1, <2>2, <2>3, <2>4, <2>5, <2>6
<1>6. ASSUME NEW d \in Devs, DisconnectUnregister(d)
      PROVE  IInv'
  <2> USE <1>6 DEF DisconnectUnregister
  <2>1. (TablePart /\ FilePart)'
    BY DEF TablePart, FilePart
  <2>2. (MemPart /\ LookupPart /\ TtyPart)'
    BY DEF TypeOK, MemPart, Probing, Bound, Cut, Leaving, LookupPart,
      TablePart, TtyPart, FilePart
  <2>3. (UsbPart /\ HangupPart /\ HoldPart /\ ShutPart /\ TrafficPart)'
    BY DEF TypeOK, UsbPart, Orphaned, Bound, Probing, MemPart, Cut, Leaving, HangupPart,
      FilePart, TtyPart, HoldPart, CountPart, Unhung, ShutPart, TrafficPart
  <2>4. TypeOK'
    BY DEF TypeOK, Phases, Probing, Bound, Cut, Leaving, PCs
  <2>5. RefsPart'
    BY RefsKept DEF Own, TypeOK
  <2>6. CountPart'
    BY CountKept
  <2> QED
    BY <2>1, <2>2, <2>3, <2>4, <2>5, <2>6
<1>7. ASSUME NEW d \in Devs, DisconnectFree(d)
      PROVE  IInv'
  <2> USE <1>7 DEF DisconnectFree
  <2>1. (TablePart /\ FilePart)'
    BY DEF TablePart, FilePart
  <2>2. (MemPart /\ LookupPart /\ TtyPart)'
    BY DEF TypeOK, MemPart, Probing, Bound, Cut, Leaving, LookupPart,
      TablePart, TtyPart, FilePart
  <2>3. (UsbPart /\ HangupPart /\ HoldPart /\ ShutPart /\ TrafficPart)'
    BY DEF TypeOK, UsbPart, Orphaned, Bound, Probing, MemPart, Cut, Leaving, HangupPart,
      FilePart, TtyPart, HoldPart, CountPart, Unhung, ShutPart, TrafficPart
  <2>4. TypeOK'
    BY DEF TypeOK, Phases, Probing, Bound, Cut, Leaving, PCs
  <2>5. RefsPart'
    BY RefsKept DEF Own, TypeOK
  <2>6. CountPart'
    BY CountKept
  <2> QED
    BY <2>1, <2>2, <2>3, <2>4, <2>5, <2>6
<1>8. ASSUME NEW d \in Devs, DisconnectRelease(d)
      PROVE  IInv'
  <2> USE <1>8 DEF DisconnectRelease
  <2>1. (TablePart /\ FilePart)'
    BY DEF TablePart, FilePart
  <2>2. (MemPart /\ LookupPart /\ TtyPart)'
    BY DEF TypeOK, MemPart, Probing, Bound, Cut, Leaving, LookupPart,
      TablePart, TtyPart, FilePart
  <2>3. (UsbPart /\ HangupPart /\ HoldPart /\ ShutPart /\ TrafficPart)'
    BY DEF TypeOK, UsbPart, Orphaned, Bound, Probing, MemPart, Cut, Leaving, HangupPart,
      FilePart, TtyPart, HoldPart, CountPart, Unhung, ShutPart, TrafficPart
  <2>4. TypeOK'
    BY DEF TypeOK, Phases, Probing, Bound, Cut, Leaving, PCs
  <2>5. RefsPart'
    BY RefsKept DEF Own, TypeOK
  <2>6. CountPart'
    BY CountKept
  <2> QED
    BY <2>1, <2>2, <2>3, <2>4, <2>5, <2>6
<1>9. ASSUME NEW d \in Devs, DisconnectPut(d)
      PROVE  IInv'
  <2> USE <1>9 DEF DisconnectPut, Put
  <2>a. mem[d] = "ready" /\ refs[d] \in Nat \ {0} /\ disconnected[d]
    BY DEF MemPart, RefsPart, TypeOK, Leaving, Cut
  <2>b. refs[d] = Cardinality(TtysOf(d)) + 1
    BY <2>a DEF RefsPart, RefsExact, Own
  <2>c. refs[d] = 1 => \A x \in Ttys : tdev[x] # d
    <3>1. refs[d] = 1 => TtysOf(d) = {}
      BY <2>b, TtysFinite, FS_EmptySet
    <3> QED
      BY <3>1 DEF TtysOf
  <2>d. \A e \in Devs : mem'[e] = IF e = d /\ refs[d] = 1 THEN "dying" ELSE mem[e]
    BY DEF TypeOK
  <2>1. FilePart'
    BY DEF FilePart
  <2>2. (UsbPart /\ HangupPart /\ HoldPart /\ ShutPart /\ TrafficPart)'
    BY DEF TypeOK, UsbPart, Orphaned, Bound, Probing, MemPart, Cut, Leaving, HangupPart,
      FilePart, TtyPart, HoldPart, CountPart, Unhung, ShutPart, TrafficPart
  <2>3. TypeOK'
    BY <2>a DEF TypeOK, Phases, Probing, Bound, Cut, Leaving, PCs
  <2>4. MemPart'
    BY <2>a, <2>d DEF TypeOK, MemPart, Probing, Bound, Cut, Leaving
  <2>5. TablePart'
    <3>1. table' = table /\ minor' = minor
      OBVIOUS
    <3>2. TablePart
      OBVIOUS
    <3> HIDE <1>9 DEF DisconnectPut, Put
    <3>3. \A e \in Devs : mem'[e] \in {"zeroed", "ready", "dying"} <=>
                         mem[e] \in {"zeroed", "ready", "dying"}
      BY <2>a, <2>d
    <3> QED
      BY <3>1, <3>2, <3>3 DEF TablePart
  <2>6. LookupPart'
    BY <2>a, <2>d DEF TypeOK, LookupPart, Probing, MemPart, Bound, Cut,
      Leaving
  <2>7. TtyPart'
    BY <2>c, <2>d DEF TtyPart, TypeOK, Probing
  <2>8. RefsPart'
    <3>1. \A e \in Devs : TtysOf(e)' = TtysOf(e)
      BY DEF TtysOf
    <3>2. \A e \in Devs : e # d => refs'[e] = refs[e] /\ mem'[e] = mem[e] /\ Own(e)' = Own(e)
      BY <2>d DEF Own, TypeOK
    <3>3. refs'[d] = refs[d] - 1 /\ Own(d)' = 0 /\ (mem'[d] = "ready" => refs[d] # 1)
      BY <2>d DEF Own, TypeOK
    <3> QED
      BY <2>a, <2>b, <3>1, <3>2, <3>3, TtysFinite DEF RefsPart, RefsExact
  <2>9. CountPart'
    BY CountKept
  <2> QED
    BY <2>1, <2>2, <2>3, <2>4, <2>5, <2>6, <2>7, <2>8, <2>9
<1>10. ASSUME NEW d \in Devs, DestructMinor(d)
      PROVE  IInv'
  <2> USE <1>10 DEF DestructMinor, TableLocked
  <2>1. (HangupPart /\ HoldPart /\ ShutPart /\ TrafficPart)'
    BY DEF HangupPart, HoldPart, ShutPart, Cut, TrafficPart, Bound
  <2>2. (MemPart /\ TablePart /\ LookupPart /\ TtyPart /\ RefsPart)'
    BY DEF TypeOK, MemPart, Probing, Bound, Cut, Leaving, TablePart,
      LookupPart, TtyPart, FilePart, RefsPart, RefsExact, TtysOf, Own
  <2>3. TypeOK'
    BY DEF TypeOK, Phases, Probing, Bound, Cut, Leaving, PCs
  <2>4. FilePart'
    <3>1. table[minor[d]] = d /\ minor[d] \in Minors
      BY DEF TypeOK, TablePart
    <3>2. \A n \in Minors : n # minor[d] => table'[n] = table[n]
      BY DEF TypeOK
    <3>3. \A u \in Tasks : pc[u] = "got" =>
            at[u] \in Minors /\ tdev[file[u]] \in Devs /\ mem[tdev[file[u]]] = "ready"
      BY DEF TypeOK, FilePart, TtyPart
    <3>4. \A u \in Tasks : pc[u] = "got" => at[u] # minor[d]
      BY <3>1, <3>3 DEF FilePart
    <3> QED
      BY <3>2, <3>3, <3>4 DEF FilePart
  <2>5. UsbPart'
    BY DEF TypeOK, UsbPart, Orphaned, Bound, Probing, MemPart, Cut, Leaving
  <2>6. CountPart'
    BY CountKept
  <2> QED
    BY <2>1, <2>2, <2>3, <2>4, <2>5, <2>6
<1>11. ASSUME NEW d \in Devs, DestructFree(d)
      PROVE  IInv'
  <2> USE <1>11 DEF DestructFree
  <2>1. FilePart'
    BY DEF FilePart
  <2>2. (HangupPart /\ HoldPart /\ ShutPart /\ TrafficPart)'
    BY DEF HangupPart, HoldPart, ShutPart, Cut, TrafficPart, Bound
  <2>3. (MemPart /\ TablePart /\ LookupPart /\ TtyPart /\ RefsPart)'
    BY DEF TypeOK, MemPart, Probing, Bound, Cut, Leaving, TablePart,
      LookupPart, TtyPart, FilePart, RefsPart, RefsExact, TtysOf, Own
  <2>4. TypeOK'
    BY DEF TypeOK, Phases, Probing, Bound, Cut, Leaving, PCs
  <2>5. UsbPart'
    BY DEF TypeOK, UsbPart, Orphaned, Bound, Probing, MemPart, Cut, Leaving
  <2>6. CountPart'
    BY CountKept
  <2> QED
    BY <2>1, <2>2, <2>3, <2>4, <2>5, <2>6
<1> QED
  BY <1>1, <1>2, <1>3, <1>4, <1>5, <1>6, <1>7, <1>8, <1>9, <1>10, <1>11 DEF
    DisconnectStep, Destruct

-----------------------------------------------------------------------------
LEMMA InitIInv == Init => IInv
<1> SUFFICES ASSUME Init PROVE IInv
  OBVIOUS
<1> USE NullAssumption, SetAssumption DEF Init
<1>1. TypeOK
  BY DEF TypeOK, Phases, PCs
<1>2. MemPart /\ TablePart /\ LookupPart /\ TtyPart /\ FilePart
  BY DEF MemPart, TablePart, LookupPart, TtyPart, FilePart, Probing, Bound, Cut, Leaving
<1>3. RefsPart /\ UsbPart /\ HangupPart /\ HoldPart /\ TrafficPart
  BY DEF RefsPart, RefsExact, UsbPart, Orphaned, HangupPart, HoldPart, TrafficPart, Probing, Bound
<1>4. CountPart /\ ShutPart
  <2>1. \A d \in Devs : Unhung(d) = {}
    BY DEF Unhung
  <2> QED
    BY <2>1, FS_EmptySet DEF CountPart, ShutPart
<1> QED
  BY <1>1, <1>2, <1>3, <1>4 DEF IInv, Life, Port

LEMMA NextIInv ==
  ASSUME ~StaleOpen, IInv, [Next]_vars
  PROVE  IInv'
<1>1. CASE Next
  BY <1>1, ProbeIInv, OpenIInv, CloseIInv, DisconnectIInv DEF Next
<1>2. CASE UNCHANGED vars
  <2> USE <1>2 DEF vars, objVars, usbVars, portVars, ttyVars, taskVars
  <2>1. TypeOK'
    BY DEF IInv, TypeOK
  <2>2. (MemPart /\ TablePart /\ LookupPart /\ TtyPart /\ FilePart /\ UsbPart)'
    BY DEF IInv, Life, MemPart, TablePart, LookupPart, TtyPart, FilePart, UsbPart, Orphaned
  <2>3. (HangupPart /\ HoldPart /\ ShutPart /\ TrafficPart)'
    BY DEF IInv, Port, HangupPart, HoldPart, ShutPart, TrafficPart
  <2>4. RefsPart' /\ CountPart'
    BY RefsKept, CountKept DEF IInv, Life, Port, Own
  <2> QED
    BY <2>1, <2>2, <2>3, <2>4 DEF IInv, Life, Port
<1> QED
  BY <1>1, <1>2

LEMMA IInvHolds ==
  ASSUME ~StaleOpen
  PROVE  Spec => []IInv
<1>1. IInv /\ [Next]_vars => IInv'
  BY NextIInv
<1> QED
  BY InitIInv, <1>1, PTL DEF Spec

\* The types, and that no count goes below zero.
THEOREM TypeCorrect ==
  ASSUME ~StaleOpen
  PROVE  Spec => []TypeOK
<1>1. IInv => TypeOK
  BY DEF IInv
<1> QED
  BY IInvHolds, <1>1, PTL

\* The port's kref counts the ttys of the device and the driver's own
\* reference, exactly (xr_usb_serial_common.c:81-103, 569, 661-677).
THEOREM ReferencesExact ==
  ASSUME ~StaleOpen
  PROVE  Spec => []RefsExact
<1>1. IInv => RefsExact
  BY DEF IInv, Life, RefsPart
<1> QED
  BY IInvHolds, <1>1, PTL

\* Nothing points to a structure that was freed: not the minor table, a
\* lookup, a tty, an interface, the tty device, the GPIO chip or disconnect,
\* but for the data interface of a device that could not be registered.
THEOREM PointersAreLive ==
  ASSUME ~StaleOpen
  PROVE  Spec => []PointersLive
<1>1. IInv => PointersLive
  <2> SUFFICES ASSUME IInv PROVE PointersLive
    OBVIOUS
  <2> USE DEF IInv, Life
  <2>1. \A m \in Minors : table[m] \in Devs => mem[table[m]] \notin {"free", "released"}
    BY DEF TablePart
  <2>2. \A u \in Tasks : pc[u] = "found" => mem[want[u]] \notin {"free", "released"}
    BY DEF LookupPart
  <2>3. \A x \in Ttys : tdev[x] \in Devs => mem[tdev[x]] = "ready"
    BY DEF TtyPart
  <2>4. \A d \in Devs :
          /\ intfdata[d] # {} => mem[d] = "ready" \/ Orphaned(d)
          /\ node[d] \/ ph[d] \in Leaving => mem[d] = "ready"
          /\ gpio[d] => mem[d] \in {"ready", "dying"}
    BY DEF MemPart, UsbPart, Orphaned, Bound, Leaving, Cut
  <2> QED
    BY <2>1, <2>2, <2>3, <2>4 DEF PointersLive
<1> QED
  BY IInvHolds, <1>1, PTL

\* An open of a minor never finds the tty of a device that had it before.
THEOREM TtyIsOfItsMinor ==
  ASSUME ~StaleOpen
  PROVE  Spec => []TtyOfItsMinor
<1>1. IInv => TtyOfItsMinor
  BY NullAssumption DEF IInv, Life, TypeOK, TtyPart, TtyOfItsMinor
<1> QED
  BY IInvHolds, <1>1, PTL

\* disconnect frees no URB that the host controller may have.
THEOREM NoTrafficWhenFreed ==
  ASSUME ~StaleOpen
  PROVE  Spec => []NoTrafficAfterFree
<1>1. IInv => NoTrafficAfterFree
  BY DEF IInv, Port, TrafficPart, NoTrafficAfterFree
<1> QED
  BY IInvHolds, <1>1, PTL

\* From stop_data_traffic on every open file of the device was hung up.
THEOREM NobodyWritesAfterHangup ==
  ASSUME ~StaleOpen
  PROVE  Spec => []NobodyWrites
<1>1. IInv => NobodyWrites
  BY DEF IInv, Port, ShutPart, NobodyWrites
<1> QED
  BY IInvHolds, <1>1, PTL
-----------------------------------------------------------------------------
(* XrPort implements XrLifetime.                                           *)

Gone == {d \in Devs : disconnected[d]}

\* One lookup at a time: the choice in Found is the only one.
FoundIs ==
  /\ \A u \in Tasks : pc[u] = "found" => Found = want[u]
  /\ ~TableLocked => Found = NoDev

LEMMA FoundKnown == LookupPart => FoundIs
<1> SUFFICES ASSUME LookupPart PROVE FoundIs
  OBVIOUS
<1>1. ASSUME NEW u \in Tasks, pc[u] = "found" PROVE Found = want[u]
  <2>1. TableLocked
    BY <1>1 DEF TableLocked
  <2>2. (CHOOSE v \in Tasks : pc[v] = "found") = u
    BY <1>1 DEF LookupPart
  <2> QED
    BY <2>1, <2>2 DEF Found
<1> QED
  BY <1>1 DEF FoundIs, Found

LEMMA FoundKnownNext == LookupPart' => FoundIs'
BY FoundKnown, PTL

LEMMA FoundSame ==
  ASSUME LookupPart, LookupPart',
         \A u \in Tasks : pc'[u] = "found" <=> pc[u] = "found",
         \A u \in Tasks : pc[u] = "found" => want'[u] = want[u]
  PROVE  Found' = Found
<1>1. FoundIs /\ FoundIs'
  BY FoundKnown, FoundKnownNext
<1>2. CASE TableLocked
  <2>1. PICK u \in Tasks : pc[u] = "found"
    BY <1>2 DEF TableLocked
  <2> QED
    BY <1>1, <2>1 DEF FoundIs
<1>3. CASE ~TableLocked
  <2>1. ~TableLocked'
    BY <1>3 DEF TableLocked
  <2> QED
    BY <1>1, <1>3, <2>1 DEF FoundIs
<1> QED
  BY <1>2, <1>3

\* The kref of a structure is the number of its holders.
LEMMA RefsCountHolders ==
  ASSUME IInv, NEW d \in Devs, mem[d] = "ready"
  PROVE  refs[d] = Cardinality(HoldersOf(d)) /\ IsFiniteSet(HoldersOf(d))
<1>1. refs[d] = Cardinality(TtysOf(d)) + Own(d)
  BY DEF IInv, Life, RefsPart, RefsExact
<1>2. NoTty \notin TtysOf(d)
  BY NullAssumption DEF TtysOf
<1>3. CASE Own(d) = 1
  <2>1. HoldersOf(d) = TtysOf(d) \cup {NoTty}
    BY <1>3 DEF HoldersOf
  <2> QED
    BY <1>1, <1>2, <1>3, <2>1, TtysFinite, FS_AddElement
<1>4. CASE Own(d) # 1
  <2>1. HoldersOf(d) = TtysOf(d) /\ Own(d) = 0
    BY <1>4 DEF HoldersOf, Own
  <2> QED
    BY <1>1, <2>1, TtysFinite
<1> QED
  BY <1>3, <1>4

\* So the put that finds it at one is that of the last holder.
LEMMA LastPut ==
  ASSUME IInv, NEW d \in Devs, mem[d] = "ready", NEW h \in HoldersOf(d)
  PROVE  refs[d] = 1 <=> HoldersOf(d) = {h}
<1>1. refs[d] = 1 <=> \E y : HoldersOf(d) = {y}
  BY RefsCountHolders, FS_Singleton
<1> QED
  BY <1>1

LEMMA HoldersSame ==
  ASSUME tdev' = tdev, \A d \in Devs : Own(d)' = Own(d)
  PROVE  Holders' = Holders
<1>1. \A d \in Devs : HoldersOf(d)' = HoldersOf(d)
  BY DEF HoldersOf, TtysOf
<1> QED
  BY <1>1 DEF Holders

LEMMA HoldersChange ==
  ASSUME NEW d \in Devs, NEW S, HoldersOf(d)' = S,
         \A e \in Devs \ {d} : HoldersOf(e)' = HoldersOf(e)
  PROVE  Holders' = [Holders EXCEPT ![d] = S]
<1>1. \A e \in Devs : HoldersOf(e)' = IF e = d THEN S ELSE HoldersOf(e)
  OBVIOUS
<1>2. Holders' = [e \in Devs |-> HoldersOf(e)']
  BY DEF Holders
<1> QED
  BY <1>1, <1>2 DEF Holders

LEMMA LifeSame ==
  ASSUME UNCHANGED <<table, mem, disconnected, tdev>>, Found' = Found,
         \A d \in Devs : Own(d)' = Own(d)
  PROVE  UNCHANGED Lifetime!lifeVars
<1>1. Holders' = Holders
  BY HoldersSame
<1>2. {d \in Devs : disconnected'[d]} = {d \in Devs : disconnected[d]}
  OBVIOUS
<1> QED
  BY <1>1, <1>2 DEF Lifetime!lifeVars

\* release_minor clears the one slot of the device.
LEMMA SlotCleared ==
  ASSUME IInv, NEW d \in Devs, mem[d] \in {"zeroed", "ready", "dying"},
         table' = [table EXCEPT ![minor[d]] = NoDev]
  PROVE  Lifetime!Unlisted(d)
<1>1. \A m \in Minors : table[m] = d <=> m = minor[d]
  BY DEF IInv, Life, TablePart
<1>2. table' = [m \in Minors |-> IF table[m] = d THEN NoDev ELSE table[m]]
  BY <1>1 DEF IInv, TypeOK
<1> QED
  BY <1>2 DEF Lifetime!Unlisted

\* A tty that puts its reference leaves the holders of its device.
LEMMA TtyLeaves ==
  ASSUME IInv, NEW x \in Ttys, NEW d \in Devs, tdev[x] = d, Put(d),
         tdev' = [tdev EXCEPT ![x] = NoDev],
         UNCHANGED <<ph, table, disconnected>>, Found' = Found
  PROVE  Lifetime!Put(d, x)
<1> USE NullAssumption DEF IInv, Life
<1>1. mem[d] = "ready" /\ x \in HoldersOf(d)
  BY DEF TtyPart, HoldersOf, TtysOf
<1>2. TtysOf(d)' = TtysOf(d) \ {x} /\ \A e \in Devs \ {d} : TtysOf(e)' = TtysOf(e)
  BY DEF TypeOK, TtysOf
<1>3. \A e \in Devs : Own(e)' = Own(e)
  BY DEF Own
<1>4. HoldersOf(d)' = HoldersOf(d) \ {x} /\ \A e \in Devs \ {d} : HoldersOf(e)' = HoldersOf(e)
  BY <1>2, <1>3 DEF HoldersOf
<1>5. Holders' = [Holders EXCEPT ![d] = HoldersOf(d) \ {x}]
  BY <1>4, HoldersChange
<1>6. Holders[d] = HoldersOf(d)
  BY DEF Holders
<1>7. mem' = IF HoldersOf(d) = {x} THEN [mem EXCEPT ![d] = "dying"] ELSE mem
  BY <1>1, LastPut DEF Put
<1> QED
  BY <1>1, <1>5, <1>6, <1>7 DEF Lifetime!Put
LEMMA InitLife == Init => Lifetime!Init
<1> SUFFICES ASSUME Init PROVE Lifetime!Init
  OBVIOUS
<1>1. ~TableLocked
  BY DEF Init, TableLocked
<1>2. \A d \in Devs : HoldersOf(d) = {}
  BY NullAssumption DEF Init, HoldersOf, TtysOf, Own
<1>3. Found = NoDev /\ Holders = [d \in Devs |-> {}]
  BY <1>1, <1>2 DEF Found, Holders
<1>4. {d \in Devs : disconnected[d]} = {}
  BY DEF Init
<1> QED
  BY <1>3, <1>4 DEF Init, Lifetime!Init

LEMMA ProbeLife ==
  ASSUME IInv, IInv', NEW d \in Devs, Probe(d)
  PROVE  [Lifetime!Next]_(Lifetime!lifeVars)
<1> USE NullAssumption DEF IInv, Life
<1>1. UNCHANGED <<pc, want, tdev>>
  BY DEF Probe, ProbeAlloc, ProbeInit, ProbeFill, ProbeFillFails, ProbeClaim, ProbeRegister,
         ProbeRegisterFails, ProbeGpio, taskVars, ttyVars
<1>2. Found' = Found
  BY <1>1, FoundSame
<1>3. ~TableLocked => Found = NoDev
  BY FoundKnown DEF FoundIs
<1>4. \A e \in Devs : TtysOf(e)' = TtysOf(e)
  BY <1>1 DEF TtysOf
<1>5. CASE ProbeAlloc(d)
  <2>1. PICK m \in Minors : table[m] = NoDev /\ table' = [table EXCEPT ![m] = d]
    BY <1>5 DEF ProbeAlloc
  <2>2. /\ mem[d] = "free" /\ mem' = [mem EXCEPT ![d] = "zeroed"] /\ ~TableLocked
        /\ ph[d] = "unplugged" /\ ph' = [ph EXCEPT ![d] = "published"]
        /\ disconnected' = [disconnected EXCEPT ![d] = FALSE]
    BY <1>5 DEF ProbeAlloc
  <2>3. \A e \in Devs : Own(e)' = Own(e)
    BY <2>2 DEF Own, TypeOK
  <2>4. Holders' = Holders
    BY <1>1, <2>3, HoldersSame
  <2>5. {e \in Devs : disconnected'[e]} = {e \in Devs : disconnected[e]} \ {d}
    BY <2>2 DEF TypeOK
  <2>6. Lifetime!Publish(d, m)
    BY <1>2, <1>3, <2>1, <2>2, <2>4, <2>5 DEF Lifetime!Publish, Lifetime!Becomes
  <2> QED
    BY <2>1, <2>6 DEF Lifetime!Next
<1>6. CASE ProbeInit(d)
  <2>1. /\ mem' = [mem EXCEPT ![d] = "ready"] /\ UNCHANGED <<table, disconnected>>
        /\ ph[d] = "published" /\ ph' = [ph EXCEPT ![d] = "locked"]
    BY <1>6 DEF ProbeInit
  <2>2. mem[d] = "zeroed"
    BY <2>1 DEF MemPart
  <2>3. TtysOf(d) = {}
    BY <2>1, ProbedAlone DEF TtysOf, Probing
  <2>4. HoldersOf(d) = {} /\ HoldersOf(d)' = {NoTty}
    BY <1>4, <2>1, <2>3 DEF HoldersOf, Own, TypeOK
  <2>5. \A e \in Devs \ {d} : HoldersOf(e)' = HoldersOf(e)
    BY <1>4, <2>1 DEF HoldersOf, Own, TypeOK
  <2>6. Holders' = [Holders EXCEPT ![d] = {NoTty}]
    BY <2>4, <2>5, HoldersChange
  <2>7. Holders[d] = {}
    BY <2>4 DEF Holders
  <2>8. Lifetime!Ready(d)
    BY <1>2, <2>1, <2>2, <2>6, <2>7 DEF Lifetime!Ready, Lifetime!Becomes
  <2> QED
    BY <2>8 DEF Lifetime!Next
<1>7. CASE ProbeFillFails(d) \/ ProbeRegisterFails(d)
  <2>1. Discard(d) /\ ph[d] \in {"locked", "claimed"} /\ disconnected' = disconnected
    BY <1>7 DEF ProbeFillFails, ProbeRegisterFails
  <2>2. /\ ~TableLocked /\ table' = [table EXCEPT ![minor[d]] = NoDev]
        /\ mem' = [mem EXCEPT ![d] = "free"] /\ ph' = [ph EXCEPT ![d] = "unplugged"]
    BY <2>1 DEF Discard
  <2>3. mem[d] = "ready"
    BY <2>1 DEF MemPart
  <2>4. TtysOf(d) = {}
    BY <2>1, ProbedAlone DEF TtysOf, Probing
  <2>5. HoldersOf(d) = {NoTty} /\ HoldersOf(d)' = {}
    BY <1>4, <2>1, <2>2, <2>4 DEF HoldersOf, Own, TypeOK
  <2>6. \A e \in Devs \ {d} : HoldersOf(e)' = HoldersOf(e)
    BY <1>4, <2>2 DEF HoldersOf, Own, TypeOK
  <2>7. Holders' = [Holders EXCEPT ![d] = {}]
    BY <2>5, <2>6, HoldersChange
  <2>8. Holders[d] = {NoTty}
    BY <2>5 DEF Holders
  <2>9. Lifetime!Unlisted(d)
    BY <2>2, <2>3, SlotCleared
  <2>10. Lifetime!Abandon(d)
    BY <1>2, <1>3, <2>1, <2>2, <2>3, <2>7, <2>8, <2>9 DEF Lifetime!Abandon, Lifetime!Becomes
  <2> QED
    BY <2>10 DEF Lifetime!Next
<1>8. CASE \/ ProbeFill(d) \/ ProbeClaim(d) \/ ProbeRegister(d)
           \/ \E ok \in BOOLEAN : ProbeGpio(d, ok)
  <2>1. UNCHANGED <<table, mem, disconnected>>
    BY <1>8 DEF ProbeFill, ProbeClaim, ProbeRegister, ProbeGpio, objVars
  <2>2. \A e \in Devs : Own(e)' = Own(e)
    BY <1>8 DEF ProbeFill, ProbeClaim, ProbeRegister, ProbeGpio, Own, TypeOK
  <2> QED
    BY <1>1, <1>2, <2>1, <2>2, LifeSame
<1> QED
  BY <1>5, <1>6, <1>7, <1>8 DEF Probe

LEMMA OpenLife ==
  ASSUME IInv, IInv', NEW u \in Tasks, OpenStep(u)
  PROVE  [Lifetime!Next]_(Lifetime!lifeVars)
<1> USE NullAssumption DEF IInv, Life
<1>1. ph' = ph /\ disconnected' = disconnected /\ table' = table
  BY DEF OpenStep, Reopen, FindMinor, GetByIndex, GetByIndexFails, Install, InstallFails,
         OpenPortAgain, OpenPort, OpenPortFails, objVars, usbVars
<1>2. \A d \in Devs : Own(d)' = Own(d)
  BY <1>1 DEF Own
<1>3. FoundIs /\ FoundIs'
  BY FoundKnown, FoundKnownNext
<1>4. CASE FindMinor(u) /\ table[at[u]] # NoDev
  <2>1. /\ pc[u] = "resolved" /\ pc' = [pc EXCEPT ![u] = "found"] /\ ~Installing
        /\ want' = [want EXCEPT ![u] = table[at[u]]] /\ UNCHANGED <<mem, tdev>>
    BY <1>4 DEF FindMinor, objVars, ttyVars
  <2>2. Found = NoDev
    BY <1>3, <2>1 DEF FoundIs, TableLocked, Installing
  <2>3. Found' = table[at[u]]
    BY <1>3, <2>1 DEF FoundIs, TypeOK
  <2>4. Holders' = Holders
    BY <1>2, <2>1, HoldersSame
  <2>5. at[u] \in Minors
    BY DEF TypeOK
  <2>6. Lifetime!Lookup(at[u])
    BY <1>1, <1>4, <2>1, <2>2, <2>3, <2>4 DEF Lifetime!Lookup
  <2> QED
    BY <2>5, <2>6 DEF Lifetime!Next
<1>5. CASE GetByIndexFails(u)
  <2>1. /\ pc[u] = "found" /\ disconnected[want[u]] /\ pc' = [pc EXCEPT ![u] = "idle"]
        /\ UNCHANGED <<mem, tdev>>
    BY <1>5 DEF GetByIndexFails, objVars, ttyVars
  <2>2. Found = want[u] /\ want[u] \in Devs
    BY <1>3, <2>1 DEF FoundIs, LookupPart
  <2>3. ~TableLocked'
    BY <2>1 DEF TableLocked, LookupPart, TypeOK
  <2>4. Holders' = Holders
    BY <1>2, <2>1, HoldersSame
  <2>5. Found \in Gone /\ Gone' = Gone
    BY <1>1, <2>1, <2>2 DEF Gone
  <2>6. Found' = NoDev
    BY <1>3, <2>3 DEF FoundIs
  <2>7. Lifetime!Miss
    BY <1>1, <2>1, <2>4, <2>5, <2>6 DEF Lifetime!Miss, Gone
  <2> QED
    BY <2>7 DEF Lifetime!Next
<1>6. CASE GetByIndex(u)
  <2>1. PICK x \in Ttys :
          /\ tstate[x] = "none" /\ refs' = [refs EXCEPT ![want[u]] = @ + 1]
          /\ tdev' = [tdev EXCEPT ![x] = want[u]] /\ pc' = [pc EXCEPT ![u] = "got"]
    BY <1>6 DEF GetByIndex
  <2>2. pc[u] = "found" /\ ~disconnected[want[u]] /\ mem' = mem
    BY <1>6 DEF GetByIndex
  <2>3. PICK d \in Devs : d = want[u]
    BY <2>2 DEF LookupPart
  <2>4. Found = d /\ mem[d] \in {"ready", "dying"} /\ ph[d] \notin Probing
    BY <1>3, <2>2, <2>3 DEF FoundIs, LookupPart
  <2>5. ph[d] \notin {"unplugged", "published"} /\ mem[d] = "ready"
    BY <2>2, <2>3, <2>4 DEF MemPart, Probing, TypeOK
  <2>6. ~TableLocked'
    BY <2>1, <2>2 DEF TableLocked, LookupPart, TypeOK
  <2>7. Found' = NoDev
    BY <1>3, <2>6 DEF FoundIs
  <2>8. tdev[x] = NoDev
    BY <2>1 DEF TtyPart
  <2>9. TtysOf(d)' = TtysOf(d) \cup {x} /\ \A e \in Devs \ {d} : TtysOf(e)' = TtysOf(e)
    BY <2>1, <2>3, <2>8 DEF TypeOK, TtysOf
  <2>10. HoldersOf(d)' = HoldersOf(d) \cup {x} /\ \A e \in Devs \ {d} : HoldersOf(e)' = HoldersOf(e)
    BY <1>2, <2>9 DEF HoldersOf
  <2>11. Holders' = [Holders EXCEPT ![d] = HoldersOf(d) \cup {x}]
    BY <2>10, HoldersChange
  <2>12. NoTty \in HoldersOf(d) /\ \A e \in Devs : x \notin HoldersOf(e)
    BY <2>5, <2>8 DEF HoldersOf, TtysOf, Own
  <2>13. \A e \in Devs : Holders[e] = HoldersOf(e)
    BY DEF Holders
  <2>14. Lifetime!Get(d, x)
    BY <1>1, <2>2, <2>3, <2>4, <2>5, <2>7, <2>11, <2>12, <2>13 DEF Lifetime!Get
  <2> QED
    BY <2>14 DEF Lifetime!Next
<1>7. CASE InstallFails(u)
  <2>1. /\ pc[u] = "got" /\ Put(tdev[file[u]]) /\ tdev' = [tdev EXCEPT ![file[u]] = NoDev]
        /\ pc' = [pc EXCEPT ![u] = "idle"] /\ want' = want
    BY <1>7 DEF InstallFails
  <2>2. PICK x \in Ttys : x = file[u]
    BY <2>1 DEF FilePart
  <2>3. tdev[x] \in Devs
    BY <2>1, <2>2 DEF FilePart, TtyPart, TypeOK
  <2>4. PICK d \in Devs : d = tdev[x]
    BY <2>3
  <2>5. Found' = Found
    BY <2>1, FoundSame DEF TypeOK
  <2>6. Lifetime!Put(d, x)
    BY <1>1, <2>1, <2>2, <2>4, <2>5, TtyLeaves
  <2> QED
    BY <2>6 DEF Lifetime!Next
<1>8. CASE \/ Reopen(u) \/ (FindMinor(u) /\ table[at[u]] = NoDev) \/ Install(u)
           \/ OpenPortAgain(u) \/ OpenPortFails(u) \/ \E talks \in BOOLEAN : OpenPort(u, talks)
  <2>1. UNCHANGED <<mem, tdev>>
    BY <1>8 DEF Reopen, FindMinor, Install, OpenPortAgain, OpenPort, OpenPortFails, objVars, ttyVars
  <2>2. PICK s \in {"idle", "opening", "open", "failed"} : pc' = [pc EXCEPT ![u] = s] /\ pc[u] # "found"
    BY <1>8 DEF Reopen, FindMinor, Install, OpenPortAgain, OpenPort, OpenPortFails
  <2>3. \A v \in Tasks \ {u} : want'[v] = want[v]
    BY <1>8 DEF Reopen, FindMinor, Install, OpenPortAgain, OpenPort, OpenPortFails, TypeOK
  <2>4. Found' = Found
    BY <2>2, <2>3, FoundSame DEF TypeOK
  <2> QED
    BY <1>1, <1>2, <2>1, <2>4, LifeSame
<1> QED
  BY <1>4, <1>5, <1>6, <1>7, <1>8 DEF OpenStep
LEMMA CleanupLife ==
  ASSUME IInv, IInv', NEW x \in Ttys, Cleanup(x)
  PROVE  [Lifetime!Next]_(Lifetime!lifeVars)
<1> USE NullAssumption DEF IInv, Life
<1>1. /\ tstate[x] = "released" /\ Put(tdev[x]) /\ tdev' = [tdev EXCEPT ![x] = NoDev]
      /\ UNCHANGED <<ph, table, disconnected, pc, want>>
  BY DEF Cleanup, usbVars, taskVars
<1>2. PICK d \in Devs : d = tdev[x]
  BY <1>1 DEF TtyPart, TypeOK
<1>3. Found' = Found
  BY <1>1, FoundSame
<1>4. Lifetime!Put(d, x)
  BY <1>1, <1>2, <1>3, TtyLeaves
<1> QED
  BY <1>4 DEF Lifetime!Next

\* Opens that have begun, closes and hang-ups change no holder.
LEMMA UseLife ==
  ASSUME IInv, IInv',
         \/ \E d \in Devs : Carrier(d) \/ HangupShutdown(d)
         \/ \E u \in Tasks : Write(u) \/ Close(u) \/ \E m \in Minors : Resolve(u, m)
         \/ \E x \in Ttys : HangupWork(x)
         \/ UNCHANGED vars
  PROVE  UNCHANGED Lifetime!lifeVars
<1> USE DEF IInv, Life
<1>1. UNCHANGED <<table, mem, disconnected, tdev, ph, want>>
  BY DEF Carrier, HangupShutdown, Write, Close, Resolve, HangupWork, vars, objVars, usbVars, ttyVars,
         taskVars
<1>2. \A u \in Tasks : pc'[u] = "found" <=> pc[u] = "found"
  BY DEF Carrier, HangupShutdown, Write, Close, Resolve, HangupWork, vars, taskVars, TypeOK
<1>3. Found' = Found
  BY <1>1, <1>2, FoundSame
<1>4. \A d \in Devs : Own(d)' = Own(d)
  BY <1>1 DEF Own
<1> QED
  BY <1>1, <1>3, <1>4, LifeSame

LEMMA DisconnectLife ==
  ASSUME IInv, IInv', NEW d \in Devs, Disconnect(d) \/ DisconnectStep(d) \/ Destruct(d)
  PROVE  [Lifetime!Next]_(Lifetime!lifeVars)
<1> USE NullAssumption DEF IInv, Life
<1>1. UNCHANGED <<pc, want, tdev>>
  BY DEF Disconnect, DisconnectStep, DisconnectTty, DisconnectHangup, DisconnectHungUp, DisconnectStop,
         DisconnectUnregister, DisconnectFree, DisconnectRelease, DisconnectPut, Destruct,
         DestructMinor, DestructFree, taskVars, ttyVars
<1>2. Found' = Found
  BY <1>1, FoundSame
<1>3. ~TableLocked => Found = NoDev
  BY FoundKnown DEF FoundIs
<1>4. \A e \in Devs : TtysOf(e)' = TtysOf(e)
  BY <1>1 DEF TtysOf
<1>5. CASE Disconnect(d)
  <2>1. /\ ph[d] = "bound" /\ UNCHANGED <<table, mem>>
        /\ disconnected' = [disconnected EXCEPT ![d] = TRUE] /\ ph' = [ph EXCEPT ![d] = "marked"]
    BY <1>5 DEF Disconnect
  <2>2. ph[d] = "bound"
    BY <2>1
  <2>3. ~disconnected[d]
    BY <2>2 DEF MemPart, Bound
  <2>4. \A e \in Devs : Own(e)' = Own(e)
    BY <2>1, <2>2 DEF Own, TypeOK
  <2>5. Holders' = Holders
    BY <1>1, <2>4, HoldersSame
  <2>6. NoTty \in Holders[d]
    BY <2>2 DEF Holders, HoldersOf, Own
  <2>7. {e \in Devs : disconnected'[e]} = {e \in Devs : disconnected[e]} \cup {d}
    BY <2>1 DEF TypeOK
  <2>8. Lifetime!Disconnect(d)
    BY <1>2, <2>1, <2>3, <2>5, <2>6, <2>7 DEF Lifetime!Disconnect
  <2> QED
    BY <2>8 DEF Lifetime!Next
<1>6. CASE DisconnectPut(d)
  <2>1. /\ ph[d] = "single" /\ Put(d) /\ ph' = [ph EXCEPT ![d] = "unplugged"]
        /\ UNCHANGED <<table, disconnected>>
    BY <1>6 DEF DisconnectPut
  <2>2. mem[d] = "ready" /\ disconnected[d]
    BY <2>1 DEF MemPart, Leaving, Cut
  <2>3. HoldersOf(d)' = HoldersOf(d) \ {NoTty} /\ NoTty \in HoldersOf(d)
    BY <1>4, <2>1 DEF HoldersOf, Own, TypeOK, TtysOf
  <2>4. \A e \in Devs \ {d} : HoldersOf(e)' = HoldersOf(e)
    BY <1>4, <2>1 DEF HoldersOf, Own, TypeOK
  <2>5. Holders' = [Holders EXCEPT ![d] = HoldersOf(d) \ {NoTty}] /\ Holders[d] = HoldersOf(d)
    BY <2>3, <2>4, HoldersChange DEF Holders
  <2>6. mem' = IF HoldersOf(d) = {NoTty} THEN [mem EXCEPT ![d] = "dying"] ELSE mem
    BY <2>1, <2>2, <2>3, LastPut DEF Put
  <2>7. Lifetime!Put(d, NoTty)
    BY <1>2, <2>1, <2>2, <2>3, <2>5, <2>6 DEF Lifetime!Put
  <2> QED
    BY <2>7 DEF Lifetime!Next
<1>7. CASE DestructMinor(d)
  <2>1. /\ mem[d] = "dying" /\ mem' = [mem EXCEPT ![d] = "released"] /\ ~TableLocked
        /\ table' = [table EXCEPT ![minor[d]] = NoDev] /\ UNCHANGED <<ph, disconnected>>
    BY <1>7 DEF DestructMinor
  <2>2. Holders' = Holders
    BY <1>1, <2>1, HoldersSame DEF Own
  <2>3. Lifetime!Unlisted(d)
    BY <2>1, SlotCleared
  <2>4. Lifetime!Unlist(d)
    BY <1>2, <1>3, <2>1, <2>2, <2>3 DEF Lifetime!Unlist, Lifetime!Becomes
  <2> QED
    BY <2>4 DEF Lifetime!Next
<1>8. CASE DestructFree(d)
  <2>1. /\ mem[d] = "released" /\ mem' = [mem EXCEPT ![d] = "free"]
        /\ disconnected' = [disconnected EXCEPT ![d] = FALSE] /\ UNCHANGED <<ph, table>>
    BY <1>8 DEF DestructFree
  <2>2. Holders' = Holders
    BY <1>1, <2>1, HoldersSame DEF Own
  <2>3. {e \in Devs : disconnected'[e]} = {e \in Devs : disconnected[e]} \ {d}
    BY <2>1 DEF TypeOK
  <2>4. Lifetime!Free(d)
    BY <1>2, <2>1, <2>2, <2>3 DEF Lifetime!Free, Lifetime!Becomes
  <2> QED
    BY <2>4 DEF Lifetime!Next
<1>9. CASE \/ DisconnectTty(d) \/ DisconnectHangup(d) \/ DisconnectHungUp(d) \/ DisconnectStop(d)
           \/ DisconnectUnregister(d) \/ DisconnectFree(d) \/ DisconnectRelease(d)
  <2>1. UNCHANGED <<table, mem, disconnected>>
    BY <1>9 DEF DisconnectTty, DisconnectHangup, DisconnectHungUp, DisconnectStop,
                DisconnectUnregister, DisconnectFree, DisconnectRelease, objVars
  <2>2. \A e \in Devs : Own(e)' = Own(e)
    BY <1>9 DEF DisconnectTty, DisconnectHangup, DisconnectHungUp, DisconnectStop,
                DisconnectUnregister, DisconnectFree, DisconnectRelease, Own, TypeOK
  <2> QED
    BY <1>1, <1>2, <2>1, <2>2, LifeSame
<1> QED
  BY <1>5, <1>6, <1>7, <1>8, <1>9 DEF DisconnectStep, Destruct

LEMMA StepLife ==
  ASSUME IInv, IInv', [Next]_vars
  PROVE  [Lifetime!Next]_(Lifetime!lifeVars)
<1>1. CASE Next
  <2>1. ASSUME NEW d \in Devs, Probe(d) PROVE [Lifetime!Next]_(Lifetime!lifeVars)
    BY <2>1, ProbeLife
  <2>2. ASSUME NEW d \in Devs, Disconnect(d) \/ DisconnectStep(d) \/ Destruct(d)
        PROVE  [Lifetime!Next]_(Lifetime!lifeVars)
    BY <2>2, DisconnectLife
  <2>3. ASSUME NEW u \in Tasks, OpenStep(u) PROVE [Lifetime!Next]_(Lifetime!lifeVars)
    BY <2>3, OpenLife
  <2>4. ASSUME NEW x \in Ttys, Cleanup(x) PROVE [Lifetime!Next]_(Lifetime!lifeVars)
    BY <2>4, CleanupLife
  <2> QED
    BY <1>1, <2>1, <2>2, <2>3, <2>4, UseLife DEF Next
<1>2. CASE UNCHANGED vars
  BY <1>2, UseLife
<1> QED
  BY <1>1, <1>2

\* The structure of every device lives and dies as XrLifetime says: holders
\* come through the minor table while the device is there, the last one to
\* leave ends it, and it is out of the table, with no lookup in it, before it
\* is freed (xr_usb_serial_common.c:81-130, 569, 661-677, 705, 1820-1880).
THEOREM PortImplementsLifetime ==
  ASSUME ~StaleOpen
  PROVE  Spec => ImplementsLifetime
<1>1. Init => Lifetime!Init
  BY InitLife
<1>2. IInv /\ IInv' /\ [Next]_vars => [Lifetime!Next]_(Lifetime!lifeVars)
  BY StepLife
<1> QED
  BY <1>1, <1>2, IInvHolds, PTL DEF Spec, ImplementsLifetime, Lifetime!Spec
=============================================================================
