----------------------------- MODULE Recovery_proofs -----------------------------
(****************************************************************************)
(* The two components that take up interrupted work: the supervisors of the  *)
(* research runs (ResearchRecovery) and, inside the collectors they start,   *)
(* the batches of a feature ledger (FeatureCollection).                      *)
(****************************************************************************)
EXTENDS ResearchRecovery, FeatureCollection, TLAPS, WellFoundedInduction, FiniteSetTheorems

--------------------------------------------------------------------------------
(****************************************************************************)
(* Two writers of a ledger are never both accounted for, for any number of   *)
(* supervisors, processes, tracks and batches.  A run looks at the status    *)
(* file and at the process table once, before its first phase.  That what it *)
(* then finds on its track is its own or has escaped rests on three things:  *)
(* the lock, under which no other supervisor of the track starts anything;   *)
(* the file, which names every child that lives, is nobody's and has not     *)
(* escaped (Remembered); and the scan, which finds the collectors of a       *)
(* recovery script, whose names no file ever holds.                          *)
(****************************************************************************)

Beyond == {"begin", "launch", "record", "wait"}
KindsOf(t) == (IF t = "forward" THEN Forward ELSE QuarterHour) \cup {"preflight"}

(* The lock, and what a supervisor knows of its child.                       *)
Locked ==
  \A s, o \in Supervisors :
    sup[s].pc # "off" /\ sup[o].pc # "off" /\ sup[s].track = sup[o].track => s = o

OwnChild(s) ==
  IF sup[s].pc \in {"record", "wait"}
  THEN \E p \in Processes :
         /\ sup[s].child = {p}
         /\ proc[p].code # "none" /\ proc[p].parent = {} /\ proc[p].track = sup[s].track
  ELSE sup[s].child = {}

Supervised ==
  \A s \in Supervisors :
    /\ OwnChild(s)
    /\ sup[s].pc # "off" => /\ sup[s].track \in Tracks
                            /\ sup[s].todo \in Seq(KindsOf(sup[s].track))
    /\ sup[s].pc \in {"record", "wait"} => sup[s].todo # <<>>

(* A process of a track is of the track's kinds; one with a parent is a      *)
(* collector of a recovery script that has not ended well, and there is no   *)
(* such script on the forward track.                                         *)
Placing(p) ==
  /\ proc[p].kind \in KindsOf(proc[p].track) /\ proc[p].track \in Tracks
  /\ \/ proc[p].parent = {}
     \/ /\ proc[p].kind = "collect"
        /\ \E o \in Processes : /\ proc[p].parent = {o}
                                /\ proc[o].kind = "recover"
                                /\ proc[o].code # "ok"

Placed == \A p \in Processes : Alive(p) => Placing(p)

(* Beside a recovery script only its own collector touches the ledger, but   *)
(* for escapees.                                                             *)
Touches(p) == Alive(p) /\ proc[p].kind \in Writers \cup {"recover"}

RecoversAlone ==
  \A p, q \in Processes :
    /\ Touches(p) /\ proc[p].kind = "recover" /\ Touches(q) /\ p # q
    /\ proc[p].track = proc[q].track
    => \/ proc[q].kind # "recover" /\ proc[q].parent = {p}
       \/ Escapee(p) \/ Escapee(q)

(* The status file follows the supervisor, and one that has reconciled has   *)
(* found every phase of its track ended that has not escaped.                *)
States == {"none", "STARTING", "RUNNING", "INTERRUPTED", "FAILED", "COMPLETED"}
Saved == status \in [Tracks -> [state : States, child : SUBSET Processes]]

Noted(s) ==
  /\ sup[s].pc \in {"scan", "begin", "launch", "record"} => status[sup[s].track].child = {}
  /\ sup[s].pc = "wait" => status[sup[s].track].child = sup[s].child

Reconciled(s) ==
  sup[s].pc = "scan" =>
    \A p \in Processes :
      Alive(p) /\ proc[p].track = sup[s].track /\ proc[p].parent = {} => p \in escaped

Filed == \A s \in Supervisors : Noted(s) /\ Reconciled(s)

Shape == /\ sup \in [Supervisors -> SupRecord]
         /\ proc \in [Processes -> ProcRecord]
         /\ ledger \in [Tracks -> 0 .. Batches]

Coded == \A p \in Processes : proc[p].code \in {"none", "running", "ok", "bad"}

Parts == /\ Coded /\ Locked /\ Supervised /\ Placed /\ RecoversAlone /\ Saved /\ Filed
         /\ SecondWriterEscaped /\ StrangerEscaped /\ Remembered
IInv == Shape /\ Parts

--------------------------------------------------------------------------------
(* What the actions say of the records they change.                          *)

(* A process that ends or moves on: nothing but its code or its rest.        *)
Moves(p) ==
  /\ Alive(p)
  /\ \A q \in Processes \ {p} : proc'[q] = proc[q]
  /\ proc'[p].kind = proc[p].kind /\ proc'[p].track = proc[p].track
  /\ proc'[p].parent = proc[p].parent
  /\ proc'[p].code \in {"running", "ok", "bad"}
  /\ proc'[p].code = "ok" => \A q \in Processes : Alive(q) => proc[q].parent # {p}

(* A new process.                                                            *)
Spawns(q, kind, t, parent) ==
  /\ Free(q)
  /\ \A o \in Processes \ {q} : proc'[o] = proc[o]
  /\ proc'[q].code = "running" /\ proc'[q].kind = kind /\ proc'[q].track = t
  /\ proc'[q].parent = parent
  /\ escaped' = escaped \ {q}

(* The supervisor of s changes, and no other; of the files, its track's.     *)
Others(s) == \A o \in Supervisors \ {s} : sup'[o] = sup[o]
Files(s) == Saved' /\ \A t \in Tracks \ {sup[s].track} : status'[t] = status[t]

(* What a supervisor's file holds after a save, and that it leaves the files *)
(* of the other tracks alone (Save-State).                                   *)
LEMMA SaveFiles ==
  ASSUME Saved, NEW s \in Supervisors, sup[s].track \in Tracks, NEW x \in States, NEW c \in SUBSET Processes,
         status' = [status EXCEPT ![sup[s].track] = [state |-> x, child |-> c]]
  PROVE  Files(s) /\ status'[sup[s].track].child = c
<1>1. [state |-> x, child |-> c] \in [state : States, child : SUBSET Processes]
  OBVIOUS
<1>2. Saved'
  <2> HIDE DEF States
  <2> QED
    BY <1>1 DEF Saved
<1>3. status'[sup[s].track] = [state |-> x, child |-> c]
  BY DEF Saved
<1>4. \A t \in Tracks \ {sup[s].track} : status'[t] = status[t]
  BY DEF Saved
<1> QED
  BY <1>2, <1>3, <1>4 DEF Files

(* A process that moves on disturbs no part of the invariant: fewer live     *)
(* processes, the same children (Write, Recover, Replicate, Read, Die).      *)
LEMMA MovesKeepsParts ==
  ASSUME Shape, Parts, NEW p \in Processes, Moves(p), sup' = sup, status' = status, escaped' = escaped
  PROVE  Parts'
<1> USE DEF Moves, Alive, Parts
<1>1. \A q \in Processes : Alive(q)' => Alive(q)
  OBVIOUS
<1>2. \A q \in Processes : /\ proc'[q].kind = proc[q].kind
                          /\ proc'[q].track = proc[q].track
                          /\ proc'[q].parent = proc[q].parent
  OBVIOUS
<1>e. \A q \in Processes : Escapee(q)' <=> Escapee(q)
  BY <1>2 DEF Escapee
<1>3. Locked' /\ Coded' /\ Saved'
  BY DEF Locked, Coded, Saved
<1>4. Supervised'
  <2>1. \A s \in Supervisors : OwnChild(s)'
    <3> SUFFICES ASSUME NEW s \in Supervisors PROVE OwnChild(s)'
      OBVIOUS
    <3>1. OwnChild(s)
      BY DEF Supervised
    <3>2. \A q \in Processes : proc[q].code # "none" => proc'[q].code # "none"
      OBVIOUS
    <3> QED
      BY <3>1, <3>2, <1>2 DEF OwnChild
  <2> QED
    BY <2>1 DEF Supervised
<1>5. Placed'
  <2> SUFFICES ASSUME NEW q \in Processes, Alive(q)' PROVE Placing(q)'
    BY DEF Placed
  <2>1. Alive(q) /\ Placing(q)
    BY <1>1 DEF Placed
  <2>2. \A o \in Processes : proc[q].parent = {o} /\ proc[o].code # "ok" => proc'[o].code # "ok"
    BY <2>1
  <2> QED
    BY <1>2, <2>1, <2>2 DEF Placing, KindsOf
<1>6. RecoversAlone'
  BY <1>1, <1>2, <1>e DEF RecoversAlone, Touches
<1>7. SecondWriterEscaped'
  BY <1>1, <1>2, <1>e DEF SecondWriterEscaped
<1>8. StrangerEscaped'
  BY <1>1, <1>2, <1>e DEF StrangerEscaped, Descends
<1>9. Remembered'
  BY <1>1, <1>2 DEF Remembered
<1>10. Filed'
  BY <1>1, <1>2 DEF Filed, Noted, Reconciled
<1> QED
  BY <1>3, <1>4, <1>5, <1>6, <1>7, <1>8, <1>9, <1>10

(* What is said of the processes alone.                                      *)
LEMMA ProcessesStand ==
  ASSUME Parts, proc' = proc, escaped \subseteq escaped'
  PROVE  /\ Coded' /\ Placed' /\ RecoversAlone' /\ SecondWriterEscaped'
         /\ \A p \in Processes : Escapee(p) => Escapee(p)'
<1>1. \A p \in Processes : Escapee(p) => Escapee(p)'
  BY DEF Escapee
<1>2. Coded' /\ Placed'
  BY DEF Parts, Coded, Placed, Placing, Alive
<1>3. RecoversAlone'
  BY <1>1 DEF Parts, RecoversAlone, Touches, Alive
<1>4. SecondWriterEscaped'
  BY <1>1 DEF Parts, SecondWriterEscaped, Alive
<1> QED
  BY <1>1, <1>2, <1>3, <1>4

(* A phase that lives is remembered after a supervisor's step when those that *)
(* it or its file knew are in the file, or have escaped.                     *)
Hands(s) ==
  \A p \in Processes :
    Alive(p) /\ (p \in sup[s].child \/ p \in status[sup[s].track].child)
    => p \in sup'[s].child \/ p \in status'[sup[s].track].child \/ p \in escaped'

LEMMA HandsOn ==
  ASSUME Shape, Parts, NEW s \in Supervisors, sup[s].pc # "off", Others(s), Files(s), Hands(s),
         proc' = proc, escaped \subseteq escaped'
  PROVE  Remembered'
<1> SUFFICES ASSUME NEW p \in Processes, Alive(p), proc[p].parent = {}
             PROVE  \/ \E o \in Supervisors : p \in sup'[o].child
                    \/ p \in status'[proc[p].track].child
                    \/ p \in escaped'
  BY DEF Remembered, Alive
<1>1. proc[p].track \in Tracks
  BY DEF Parts, Placed, Placing
<1>2. CASE p \in escaped
  BY <1>2
<1>3. CASE p \in status[proc[p].track].child
  <2>1. CASE proc[p].track = sup[s].track
    BY <1>3, <2>1 DEF Hands
  <2>2. CASE proc[p].track # sup[s].track
    BY <1>1, <1>3, <2>2 DEF Files
  <2> QED
    BY <2>1, <2>2
<1>4. CASE \E o \in Supervisors : p \in sup[o].child
  <2>1. PICK o \in Supervisors : p \in sup[o].child
    BY <1>4
  <2>2. CASE o = s
    <3>1. proc[p].track = sup[s].track
      BY <2>1, <2>2 DEF Parts, Supervised, OwnChild
    <3> QED
      BY <2>1, <2>2, <3>1 DEF Hands
  <2>3. CASE o # s
    BY <2>1, <2>3 DEF Others
  <2> QED
    BY <2>2, <2>3
<1> QED
  BY <1>2, <1>3, <1>4 DEF Parts, Remembered

(* The other supervisors are on other tracks.                                *)
LEMMA OthersFiled ==
  ASSUME Shape, Parts, NEW s \in Supervisors, sup[s].pc # "off", Others(s), Files(s),
         proc' = proc, escaped \subseteq escaped', Noted(s)', Reconciled(s)'
  PROVE  Filed'
<1> SUFFICES ASSUME NEW o \in Supervisors, o # s PROVE Noted(o)' /\ Reconciled(o)'
  BY DEF Filed
<1>1. sup'[o] = sup[o]
  BY DEF Others
<1>2. CASE sup[o].pc = "off"
  BY <1>1, <1>2 DEF Noted, Reconciled
<1>3. CASE sup[o].pc # "off"
  <2>1. sup[o].track \in Tracks \ {sup[s].track}
    BY <1>3 DEF Parts, Locked, Supervised
  <2>2. status'[sup[o].track] = status[sup[o].track]
    BY <2>1 DEF Files
  <2>3. Noted(o)'
    BY <1>1, <2>2 DEF Parts, Filed, Noted
  <2>4. Reconciled(o)'
    BY <1>1 DEF Parts, Filed, Reconciled, Alive
  <2> QED
    BY <2>3, <2>4
<1> QED
  BY <1>2, <1>3

(* A supervisor that ends lets go of lock and child.                         *)
LEMMA EndsKeepsParts ==
  ASSUME Shape, Parts, NEW s \in Supervisors, sup[s].pc # "off", sup' = [sup EXCEPT ![s] = Off],
         proc' = proc, escaped \subseteq escaped', Files(s), Hands(s)
  PROVE  Parts'
<1>1. Others(s) /\ sup'[s].pc = "off" /\ sup'[s].child = {}
  BY DEF Shape, Others, Off
<1>2. /\ Coded' /\ Placed' /\ RecoversAlone' /\ SecondWriterEscaped' /\ Saved'
      /\ \A p \in Processes : Escapee(p) => Escapee(p)'
  BY ProcessesStand DEF Files
<1>3. Locked'
  BY <1>1 DEF Parts, Others, Locked
<1>4. Supervised'
  BY <1>1 DEF Parts, Others, Supervised, OwnChild
<1>5. StrangerEscaped'
  BY <1>1, <1>2 DEF Parts, Others, StrangerEscaped, Descends, Alive
<1>6. Remembered'
  BY <1>1, HandsOn
<1>7. Filed'
  <2>1. Noted(s)' /\ Reconciled(s)'
    BY <1>1 DEF Noted, Reconciled
  <2> QED
    BY <1>1, <2>1, OthersFiled
<1> QED
  BY <1>2, <1>3, <1>4, <1>5, <1>6, <1>7 DEF Parts

(* A supervisor that fails: FAILED names its own child, and what its file    *)
(* named before has ended, is that child, or escapes (catch).                *)
LEMMA FailsKeepsParts ==
  ASSUME Shape, Parts, NEW s \in Supervisors, sup[s].pc # "off", Fails(s), proc' = proc,
         escaped \subseteq escaped',
         \A p \in status[sup[s].track].child : Alive(p) => p \in sup[s].child \/ p \in escaped'
  PROVE  Parts'
<1>1. sup[s].track \in Tracks /\ sup[s].child \in SUBSET Processes /\ "FAILED" \in States
  BY DEF Parts, Supervised, Shape, SupRecord, States
<1>2. Files(s) /\ status'[sup[s].track].child = sup[s].child
  BY <1>1, SaveFiles DEF Fails, Parts
<1>3. Hands(s)
  BY <1>2 DEF Hands
<1> QED
  BY <1>2, <1>3, EndsKeepsParts DEF Fails

(* A supervisor that stays on its side of the scan, with its child.          *)
LEMMA StaysKeepsParts ==
  ASSUME Shape, Parts, NEW s \in Supervisors, sup[s].pc # "off", Others(s), proc' = proc,
         escaped' = escaped, Files(s), Hands(s), Noted(s)', Reconciled(s)',
         sup'[s].track = sup[s].track, sup'[s].todo = sup[s].todo,
         sup'[s].child = sup[s].child, sup'[s].pc # "off",
         sup'[s].pc \in Beyond => sup[s].pc \in Beyond,
         sup'[s].pc \in {"record", "wait"} <=> sup[s].pc \in {"record", "wait"}
  PROVE  Parts'
<1>2. /\ Coded' /\ Placed' /\ RecoversAlone' /\ SecondWriterEscaped' /\ Saved'
      /\ \A p \in Processes : Escapee(p) => Escapee(p)'
  BY ProcessesStand DEF Files
<1>3. Locked'
  BY DEF Parts, Others, Locked
<1>4. Supervised'
  <2>1. ASSUME NEW o \in Supervisors PROVE OwnChild(o)'
    <3>1. OwnChild(o)
      BY DEF Parts, Supervised
    <3> QED
      BY <3>1 DEF Others, OwnChild
  <2>2. \A o \in Supervisors : /\ sup'[o].track = sup[o].track /\ sup'[o].todo = sup[o].todo
                               /\ sup'[o].pc = "off" <=> sup[o].pc = "off"
                               /\ sup'[o].pc \in {"record", "wait"} => sup[o].pc \in {"record", "wait"}
    BY DEF Others
  <2> HIDE DEF KindsOf
  <2> QED
    BY <2>1, <2>2 DEF Parts, Supervised, KindsOf
<1>5. StrangerEscaped'
  BY <1>2 DEF Parts, Others, StrangerEscaped, Descends, Alive, Beyond
<1>6. Remembered'
  BY HandsOn
<1>7. Filed'
  BY OthersFiled
<1> QED
  BY <1>2, <1>3, <1>4, <1>5, <1>6, <1>7 DEF Parts

(* The phases of a track are of its kinds (PhasesOf).                          *)
LEMMA PhasesAreOfTheTrack ==
  ASSUME NEW t \in Tracks, NEW prepare \in BOOLEAN, NEW resume \in BOOLEAN
  PROVE  PhasesOf(t, prepare, resume) \in Seq(KindsOf(t))
<1>1. CASE t = "forward"
  BY <1>1 DEF PhasesOf, KindsOf, Forward
<1>2. CASE t = "v4"
  BY <1>2 DEF PhasesOf, KindsOf, QuarterHour, Study
<1>3. CASE t = "v5"
  <2>1. KindsOf(t) = QuarterHour \cup {"preflight"}
    BY <1>3 DEF KindsOf
  <2>2. Study(prepare) \in Seq(KindsOf(t)) /\ <<"preflight">> \in Seq(KindsOf(t))
    BY <2>1 DEF Study, QuarterHour
  <2>3. (IF resume THEN Study(prepare) ELSE <<>>) \in Seq(KindsOf(t))
    BY <2>2
  <2>4. PhasesOf(t, prepare, resume) = <<"preflight">> \o (IF resume THEN Study(prepare) ELSE <<>>)
    BY <1>3 DEF PhasesOf
  <2> HIDE DEF Study, KindsOf
  <2> QED
    BY <2>2, <2>3, <2>4
<1> QED
  BY <1>1, <1>2, <1>3, TrackAssumption DEF Lineages

(* A track is opened under its lock (Open).                                  *)
LEMMA OpenKeepsParts ==
  ASSUME Shape, Parts, NEW s \in Supervisors, Open(s)
  PROVE  Parts'
<1>1. PICK t \in Tracks, prepare \in BOOLEAN, resume \in BOOLEAN :
        /\ \A o \in Supervisors : ~Holds(o, t)
        /\ sup' = [sup EXCEPT ![s] = [pc |-> "reconcile", track |-> t, resume |-> resume, v4 |-> 0,
                                      child |-> {}, todo |-> PhasesOf(t, prepare, resume)]]
  BY DEF Open
<1>2. PhasesOf(t, prepare, resume) \in Seq(KindsOf(t))
  BY PhasesAreOfTheTrack
<1>3. /\ Others(s) /\ sup'[s].pc = "reconcile" /\ sup'[s].track = t /\ sup'[s].child = {}
      /\ sup'[s].todo \in Seq(KindsOf(t))
  BY <1>1, <1>2 DEF Shape, Others
<1>4. \A o \in Supervisors : sup[o].pc = "off" \/ sup[o].track # t
  BY <1>1 DEF Holds
<1>5. proc' = proc /\ status' = status /\ escaped' = escaped /\ sup[s].pc = "off"
  BY DEF Open
<1> HIDE DEF PhasesOf
<1>6. Locked'
  BY <1>3, <1>4 DEF Parts, Others, Locked
<1>7. Supervised'
  BY <1>3, <1>5 DEF Parts, Others, Supervised, OwnChild
<1>8. /\ Placed' /\ Coded' /\ RecoversAlone' /\ SecondWriterEscaped' /\ Saved'
      /\ \A p \in Processes : Escapee(p) => Escapee(p)'
  BY <1>5, ProcessesStand DEF Parts, Saved
<1>9. StrangerEscaped'
  BY <1>3, <1>5, <1>8 DEF Parts, Others, StrangerEscaped, Descends, Alive
<1>10. Remembered'
  <2>1. sup[s].child = {}
    BY <1>5 DEF Parts, Supervised, OwnChild
  <2>2. \A p \in Processes : (\E o \in Supervisors : p \in sup[o].child)
                                => \E o \in Supervisors : p \in sup'[o].child
    BY <1>3, <2>1 DEF Others
  <2> QED
    BY <1>5, <2>2 DEF Parts, Remembered, Alive
<1>11. Filed'
  BY <1>3, <1>5 DEF Parts, Others, Filed, Noted, Reconciled, Alive
<1> QED
  BY <1>6, <1>7, <1>8, <1>9, <1>10, <1>11 DEF Parts

(* A phase of the track that lives and has not escaped is in the file, for   *)
(* no other supervisor is on the track and this one has no child yet: then   *)
(* the run refuses, and the phase escapes.  Otherwise all of them have ended *)
(* (Reconcile).                                                              *)
LEMMA ReconcileKeepsParts ==
  ASSUME Shape, Parts, NEW s \in Supervisors, Reconcile(s)
  PROVE  Parts'
<1>1. proc' = proc /\ sup[s].pc = "reconcile" /\ sup[s].child = {} /\ sup[s].track \in Tracks
  BY DEF Reconcile, Parts, Supervised, OwnChild
<1>2. CASE Fails(s) /\ escaped' = escaped \cup {p \in status[sup[s].track].child : Alive(p)}
  BY <1>1, <1>2, FailsKeepsParts
<1>3. CASE /\ \A p \in status[sup[s].track].child : ~Alive(p)
           /\ sup' = [sup EXCEPT ![s].pc = "scan"]
           /\ status' = [status EXCEPT ![sup[s].track] = IF Orphaned(@)
                           THEN [state |-> "INTERRUPTED", child |-> {}] ELSE @]
           /\ UNCHANGED escaped
  <2>1. Others(s)
    BY <1>3 DEF Shape, Others
  <2>2. /\ sup'[s].track = sup[s].track /\ sup'[s].todo = sup[s].todo
        /\ sup'[s].child = sup[s].child /\ sup'[s].pc = "scan"
    BY <1>3 DEF Shape, SupRecord
  <2>3. Files(s) /\ status'[sup[s].track].child = {}
    <3>1. CASE Orphaned(status[sup[s].track])
      <4>1. status' = [status EXCEPT ![sup[s].track] = [state |-> "INTERRUPTED", child |-> {}]]
        BY <1>3, <3>1
      <4>2. "INTERRUPTED" \in States /\ {} \in SUBSET Processes
        BY DEF States
      <4> QED
        BY <1>1, <4>1, <4>2, SaveFiles DEF Parts
    <3>2. CASE ~Orphaned(status[sup[s].track])
      <4>1. status' = status
        BY <1>3, <3>2 DEF Parts, Saved
      <4>2. status[sup[s].track].child = {}
        BY <3>2 DEF Orphaned
      <4> QED
        BY <4>1, <4>2 DEF Files, Parts, Saved
    <3> QED
      BY <3>1, <3>2
  <2>4. Hands(s) /\ Noted(s)'
    BY <1>1, <1>3, <2>2, <2>3 DEF Hands, Noted
  <2>5. Reconciled(s)'
    <3> SUFFICES ASSUME NEW p \in Processes, Alive(p), proc[p].track = sup[s].track,
                        proc[p].parent = {}
                 PROVE  p \in escaped
      BY <1>1, <1>3, <2>2 DEF Reconciled, Alive
    <3>1. p \notin status[proc[p].track].child
      BY <1>3
    <3>2. ASSUME NEW o \in Supervisors, p \in sup[o].child PROVE FALSE
      <4>1. sup[o].pc # "off" /\ sup[o].track = sup[s].track
        BY <3>2 DEF Parts, Supervised, OwnChild
      <4>2. o = s
        BY <1>1, <4>1 DEF Parts, Locked
      <4> QED
        BY <1>1, <3>2, <4>2
    <3> QED
      BY <3>1, <3>2 DEF Parts, Remembered
  <2> QED
    BY <1>1, <1>3, <2>1, <2>2, <2>3, <2>4, <2>5, StaysKeepsParts DEF Beyond
<1> QED
  BY <1>2, <1>3 DEF Reconcile

(* The scan finds no collector of a script, and the phases that live have    *)
(* escaped (Scan).                                                           *)
LEMMA ScanKeepsParts ==
  ASSUME Shape, Parts, NEW s \in Supervisors, Scan(s)
  PROVE  Parts'
<1>1. /\ proc' = proc /\ escaped' = escaped /\ sup[s].pc = "scan" /\ sup[s].child = {}
      /\ sup[s].track \in Tracks /\ status[sup[s].track].child = {}
  BY DEF Scan, Parts, Supervised, OwnChild, Filed, Noted
<1>2. CASE Fails(s)
  BY <1>1, <1>2, FailsKeepsParts
<1>3. CASE /\ sup' = [sup EXCEPT ![s].pc = "begin"]
           /\ status' = [status EXCEPT ![sup[s].track] = [state |-> "STARTING", child |-> {}]]
           /\ Seen(sup[s].track) = {}
  <2>1. Others(s)
    BY <1>3 DEF Shape, Others
  <2>2. /\ sup'[s].track = sup[s].track /\ sup'[s].todo = sup[s].todo
        /\ sup'[s].child = sup[s].child /\ sup'[s].pc = "begin"
    BY <1>3 DEF Shape, SupRecord
  <2>3. ASSUME NEW p \in Processes, Alive(p), proc[p].track = sup[s].track PROVE Escapee(p)
    <3>1. Placing(p)
      BY <2>3 DEF Parts, Placed
    <3>2. CASE proc[p].parent = {}
      BY <1>1, <2>3, <3>2 DEF Parts, Filed, Reconciled, Escapee
    <3>3. CASE proc[p].parent # {}
      <4>1. proc[p].kind = "collect"
        BY <3>1, <3>3 DEF Placing
      <4>2. sup[s].track # "forward"
        BY <2>3, <3>1, <4>1 DEF Placing, KindsOf, Forward
      <4> QED
        BY <1>3, <2>3, <3>3, <4>2 DEF Seen
    <3> QED
      BY <3>2, <3>3
  <2>4. /\ Placed' /\ Coded' /\ RecoversAlone' /\ SecondWriterEscaped'
        /\ \A p \in Processes : Escapee(p) => Escapee(p)'
    BY <1>1, ProcessesStand
  <2>5. Locked'
    BY <1>1, <2>1, <2>2 DEF Parts, Others, Locked
  <2>6. Supervised'
    BY <1>1, <2>1, <2>2 DEF Parts, Others, Supervised, OwnChild
  <2>7. StrangerEscaped'
    BY <1>1, <2>1, <2>2, <2>3, <2>4 DEF Parts, Others, StrangerEscaped, Descends, Alive
  <2>8. Files(s) /\ status'[sup[s].track].child = {}
    <3>1. "STARTING" \in States /\ {} \in SUBSET Processes
      BY DEF States
    <3>2. status' = [status EXCEPT ![sup[s].track] = [state |-> "STARTING", child |-> {}]]
      BY <1>3
    <3> QED
      BY <1>1, <3>1, <3>2, SaveFiles DEF Parts
  <2>9. Hands(s)
    BY <1>1 DEF Hands
  <2>10. Remembered'
    BY <1>1, <2>1, <2>8, <2>9, HandsOn
  <2>11. Filed'
    <3>1. Noted(s)' /\ Reconciled(s)'
      BY <2>2, <2>8 DEF Noted, Reconciled
    <3> QED
      BY <1>1, <2>1, <2>8, <3>1, OthersFiled
  <2> QED
    BY <2>4, <2>5, <2>6, <2>7, <2>8, <2>10, <2>11 DEF Parts, Files
<1> QED
  BY <1>2, <1>3 DEF Scan

LEMMA BeginKeepsParts ==
  ASSUME Shape, Parts, NEW s \in Supervisors, Begin(s)
  PROVE  Parts'
<1>1. /\ proc' = proc /\ escaped' = escaped /\ sup[s].pc = "begin" /\ sup[s].child = {}
      /\ status[sup[s].track].child = {}
  BY DEF Begin, Parts, Supervised, OwnChild, Filed, Noted
<1>2. CASE Fails(s)
  BY <1>1, <1>2, FailsKeepsParts
<1>3. CASE /\ sup' = [sup EXCEPT ![s].pc = "launch",
                                 ![s].v4 = IF "v4" \in Tracks THEN ledger["v4"] ELSE 0]
           /\ status' = status
  <2>1. Others(s)
    BY <1>3 DEF Shape, Others
  <2>2. /\ sup'[s].track = sup[s].track /\ sup'[s].todo = sup[s].todo
        /\ sup'[s].child = sup[s].child /\ sup'[s].pc = "launch"
    BY <1>3 DEF Shape, SupRecord
  <2>3. Files(s) /\ Hands(s) /\ Noted(s)' /\ Reconciled(s)'
    BY <1>1, <1>3, <2>2 DEF Files, Hands, Noted, Reconciled, Parts, Saved
  <2> QED
    BY <1>1, <2>1, <2>2, <2>3, StaysKeepsParts DEF Beyond
<1> QED
  BY <1>2, <1>3 DEF Begin

(* From here on the file names the child (Record).                           *)
LEMMA RecordKeepsParts ==
  ASSUME Shape, Parts, NEW s \in Supervisors, Record(s)
  PROVE  Parts'
<1>1. /\ proc' = proc /\ escaped' = escaped /\ sup[s].pc = "record"
      /\ sup[s].track \in Tracks /\ status[sup[s].track].child = {}
  BY DEF Record, Parts, Supervised, Filed, Noted
<1>2. CASE Fails(s)
  BY <1>1, <1>2, FailsKeepsParts
<1>3. CASE /\ sup' = [sup EXCEPT ![s].pc = "wait"]
           /\ status' = [status EXCEPT ![sup[s].track] = [state |-> "RUNNING", child |-> sup[s].child]]
  <2>1. Others(s)
    BY <1>3 DEF Shape, Others
  <2>2. /\ sup'[s].track = sup[s].track /\ sup'[s].todo = sup[s].todo
        /\ sup'[s].child = sup[s].child /\ sup'[s].pc = "wait"
    BY <1>3 DEF Shape, SupRecord
  <2>3. Files(s) /\ status'[sup[s].track].child = sup[s].child
    <3> DEFINE c == sup[s].child
    <3>1. "RUNNING" \in States /\ c \in SUBSET Processes
      BY DEF States, Shape, SupRecord
    <3>2. status' = [status EXCEPT ![sup[s].track] = [state |-> "RUNNING", child |-> c]]
      BY <1>3
    <3>3. Saved
      BY DEF Parts
    <3> HIDE DEF States, c
    <3>4. Files(s) /\ status'[sup[s].track].child = c
      BY <1>1, <3>1, <3>2, <3>3, SaveFiles
    <3> QED
      BY <3>4 DEF c
  <2>4. Hands(s) /\ Noted(s)' /\ Reconciled(s)'
    BY <1>1, <2>2, <2>3 DEF Hands, Noted, Reconciled
  <2> QED
    BY <1>1, <2>1, <2>2, <2>3, <2>4, StaysKeepsParts DEF Beyond
<1> QED
  BY <1>2, <1>3 DEF Record

(* Nothing was ever taken on, or the file names it, or it escapes (Crash).   *)
LEMMA CrashKeepsParts ==
  ASSUME Shape, Parts, NEW s \in Supervisors, Crash(s)
  PROVE  Parts'
<1>1. /\ proc' = proc /\ status' = status /\ sup[s].pc # "off" /\ sup' = [sup EXCEPT ![s] = Off]
      /\ escaped' = escaped \cup {p \in sup[s].child : sup[s].pc = "record" /\ Alive(p)}
  BY DEF Crash
<1>2. Files(s)
  BY <1>1 DEF Files, Parts, Saved
<1>3. sup[s].pc \in {"record", "wait"} \/ sup[s].child = {}
  BY DEF Parts, Supervised, OwnChild
<1>4. Hands(s)
  BY <1>1, <1>3 DEF Hands, Parts, Filed, Noted
<1> QED
  BY <1>1, <1>2, <1>4, EndsKeepsParts

LEMMA CompleteKeepsParts ==
  ASSUME Shape, Parts, NEW s \in Supervisors, Complete(s)
  PROVE  Parts'
<1>1. /\ proc' = proc /\ escaped' = escaped /\ sup[s].pc = "launch" /\ sup[s].child = {}
      /\ sup[s].track \in Tracks /\ status[sup[s].track].child = {}
  BY DEF Complete, Parts, Supervised, OwnChild, Filed, Noted
<1>2. CASE Fails(s)
  BY <1>1, <1>2, FailsKeepsParts
<1>3. CASE /\ status' = [status EXCEPT ![sup[s].track] = [state |-> "COMPLETED", child |-> {}]]
           /\ sup' = [sup EXCEPT ![s] = Off]
  <2>1. "COMPLETED" \in States /\ {} \in SUBSET Processes
    BY DEF States
  <2>2. Files(s)
    BY <1>1, <1>3, <2>1, SaveFiles DEF Parts
  <2>3. Hands(s)
    BY <1>1 DEF Hands
  <2> QED
    BY <1>1, <1>3, <2>2, <2>3, EndsKeepsParts
<1> QED
  BY <1>2, <1>3 DEF Complete

(* What is left of a list of phases is of the same kinds.                    *)
LEMMA TailStays ==
  ASSUME NEW S, NEW x \in Seq(S), x # <<>>
  PROVE  Tail(x) \in Seq(S)
  OBVIOUS

(* A phase that ended well leaves nothing of it alive: neither the child nor *)
(* a collector of it (Harvest).                                              *)
LEMMA HarvestKeepsParts ==
  ASSUME Shape, Parts, NEW s \in Supervisors, Harvest(s)
  PROVE  Parts'
<1>1. /\ proc' = proc /\ escaped' = escaped /\ sup[s].pc = "wait" /\ \A p \in sup[s].child : ~Alive(p)
      /\ sup[s].track \in Tracks /\ status[sup[s].track].child = sup[s].child
  BY DEF Harvest, Parts, Supervised, Filed, Noted
<1>2. Hands(s)
  BY <1>1 DEF Hands
<1>3. {"FAILED", "RUNNING"} \subseteq States /\ {} \in SUBSET Processes
  BY DEF States
<1>4. Files(s) /\ status'[sup[s].track].child = {}
  BY <1>1, <1>3, SaveFiles DEF Harvest, Parts
<1>5. CASE sup' = [sup EXCEPT ![s] = Off]
  BY <1>1, <1>2, <1>4, <1>5, EndsKeepsParts
<1>6. CASE /\ ~\E p \in sup[s].child : proc[p].code = "bad"
           /\ sup' = [sup EXCEPT ![s].pc = "launch", ![s].child = {}, ![s].todo = Tail(@)]
  <2>1. Others(s)
    BY <1>6 DEF Shape, Others
  <2>2. /\ sup'[s].track = sup[s].track /\ sup'[s].todo = Tail(sup[s].todo)
        /\ sup'[s].child = {} /\ sup'[s].pc = "launch"
    BY <1>6 DEF Shape, SupRecord
  <2>3. Tail(sup[s].todo) \in Seq(KindsOf(sup[s].track))
    <3>1. sup[s].todo \in Seq(KindsOf(sup[s].track)) /\ sup[s].todo # <<>>
      BY <1>1 DEF Parts, Supervised
    <3> QED
      BY <3>1, TailStays
  <2>4. ASSUME NEW p \in Processes, Alive(p), proc[p].track = sup[s].track, ~Escapee(p) PROVE FALSE
    <3>1. Descends(p, s)
      BY <1>1, <2>4 DEF Parts, StrangerEscaped
    <3>2. PICK c \in Processes : sup[s].child = {c} /\ proc[c].code # "none"
      BY <1>1 DEF Parts, Supervised, OwnChild
    <3>3. ~Alive(c) /\ proc[c].code # "bad"
      BY <1>1, <1>6, <3>2
    <3>4. proc[p].parent = {c}
      BY <2>4, <3>1, <3>2, <3>3 DEF Descends
    <3>5. proc[c].code # "ok"
      BY <2>4, <3>4 DEF Parts, Placed, Placing
    <3>6. proc[c].code = "running"
      BY <3>2, <3>3, <3>5 DEF Parts, Coded
    <3> QED
      BY <3>3, <3>6 DEF Alive
  <2> HIDE DEF KindsOf
  <2>5. Locked'
    BY <1>1, <2>1, <2>2 DEF Parts, Others, Locked
  <2>6. Supervised'
    <3>1. ASSUME NEW o \in Supervisors PROVE OwnChild(o)'
      <4>1. OwnChild(o)
        BY DEF Parts, Supervised
      <4> QED
        BY <4>1, <1>1, <2>1, <2>2 DEF Others, OwnChild
    <3> QED
      BY <3>1, <1>1, <2>1, <2>2, <2>3 DEF Parts, Others, Supervised
  <2>7. /\ Placed' /\ Coded' /\ RecoversAlone' /\ SecondWriterEscaped'
        /\ \A p \in Processes : Escapee(p) => Escapee(p)'
    BY <1>1, ProcessesStand
  <2>8. StrangerEscaped'
    BY <1>1, <2>1, <2>2, <2>4, <2>7 DEF Parts, Others, StrangerEscaped, Descends, Alive
  <2>9. Remembered'
    BY <1>1, <1>2, <1>4, <2>1, HandsOn
  <2>10. Filed'
    <3>1. Noted(s)' /\ Reconciled(s)'
      BY <1>4, <2>2 DEF Noted, Reconciled
    <3> QED
      BY <1>1, <1>4, <2>1, <3>1, OthersFiled
  <2> QED
    BY <1>4, <2>5, <2>6, <2>7, <2>8, <2>9, <2>10 DEF Parts, Files
<1> QED
  BY <1>5, <1>6 DEF Harvest

(* A new process disturbs nothing that is said of the others: it was nobody's *)
(* child or parent, and what escaped stays escaped.                          *)
LEMMA SpawnLeaves ==
  ASSUME Shape, Parts, NEW q \in Processes, NEW kind, NEW t, NEW parent, Spawns(q, kind, t, parent)
  PROVE  /\ ~Alive(q) /\ Alive(q)' /\ \A o \in Supervisors : q \notin sup[o].child
         /\ \A r \in Processes : Alive(r) => q \notin proc[r].parent
         /\ \A r \in Processes \ {q} : /\ Alive(r)' <=> Alive(r)
                                       /\ Alive(r) /\ Escapee(r) => Escapee(r)'
                                       /\ Alive(r) /\ r \in escaped => r \in escaped'
         /\ Coded' /\ \A r \in Processes \ {q} : Alive(r)' => Placing(r)'
<1>1. /\ ~Alive(q) /\ Alive(q)' /\ \A o \in Supervisors : q \notin sup[o].child
      /\ \A r \in Processes : Alive(r) => q \notin proc[r].parent
  BY DEF Spawns, Free, Alive
<1>2. \A r \in Processes \ {q} : Alive(r)' <=> Alive(r)
  BY DEF Spawns, Alive
<1>3. \A r \in Processes \ {q} : Alive(r) /\ r \in escaped => r \in escaped'
  BY DEF Spawns
<1>4. \A r \in Processes \ {q} : Alive(r) /\ Escapee(r) => Escapee(r)'
  BY <1>1 DEF Spawns, Escapee
<1>5. Coded'
  BY DEF Parts, Coded, Spawns
<1>6. ASSUME NEW r \in Processes \ {q}, Alive(r)' PROVE Placing(r)'
  <2>1. Alive(r) /\ Placing(r) /\ proc'[r] = proc[r]
    BY <1>2, <1>6 DEF Parts, Placed, Spawns
  <2>2. \A o \in Processes : proc[r].parent = {o} => proc'[o] = proc[o]
    BY <1>1, <2>1 DEF Spawns
  <2> QED
    BY <2>1, <2>2 DEF Placing, KindsOf
<1> QED
  BY <1>1, <1>2, <1>3, <1>4, <1>5, <1>6

(* A new child of a supervisor has only escapees beside it on the track      *)
(* (Launch).                                                                 *)
LEMMA LaunchKeepsParts ==
  ASSUME Shape, Parts, NEW s \in Supervisors, Launch(s)
  PROVE  Parts'
<1>1. /\ sup[s].pc = "launch" /\ sup[s].todo # <<>> /\ sup[s].child = {}
      /\ sup[s].track \in Tracks /\ status[sup[s].track].child = {}
      /\ sup[s].todo \in Seq(KindsOf(sup[s].track))
  BY DEF Launch, Parts, Supervised, OwnChild, Filed, Noted
<1>2. CASE Fails(s) /\ UNCHANGED <<proc, escaped>>
  BY <1>1, <1>2, FailsKeepsParts
<1>3. CASE /\ status' = status
           /\ \E p \in Processes :
                /\ Free(p)
                /\ proc' = [proc EXCEPT ![p] = Running(Head(sup[s].todo), sup[s].track, {}, Batches)]
                /\ sup' = [sup EXCEPT ![s].pc = "record", ![s].child = {p}]
                /\ escaped' = escaped \ {p}
  <2>1. PICK p \in Processes :
             /\ Free(p)
             /\ proc' = [proc EXCEPT ![p] = Running(Head(sup[s].todo), sup[s].track, {}, Batches)]
             /\ sup' = [sup EXCEPT ![s].pc = "record", ![s].child = {p}]
             /\ escaped' = escaped \ {p}
    BY <1>3
  <2>2. Others(s)
    BY <2>1 DEF Shape, Others
  <2>3. /\ sup'[s].track = sup[s].track /\ sup'[s].todo = sup[s].todo
        /\ sup'[s].child = {p} /\ sup'[s].pc = "record"
    BY <2>1 DEF Shape, SupRecord
  <2> DEFINE kind == Head(sup[s].todo)
  <2>4. Spawns(p, kind, sup[s].track, {})
    BY <2>1 DEF Shape, Spawns, Running
  <2>5. kind \in KindsOf(sup[s].track)
    <3> HIDE DEF KindsOf
    <3> QED
      BY <1>1
  <2> HIDE DEF KindsOf, kind
  <2>6. \A q \in Processes : Alive(q) /\ proc[q].track = sup[s].track => Escapee(q)
    BY <1>1 DEF Parts, StrangerEscaped, Descends
  <2>7. /\ ~Alive(p) /\ Alive(p)' /\ \A o \in Supervisors : p \notin sup[o].child
        /\ \A q \in Processes : Alive(q) => p \notin proc[q].parent
        /\ \A q \in Processes \ {p} : /\ Alive(q)' <=> Alive(q)
                                      /\ Alive(q) /\ Escapee(q) => Escapee(q)'
                                      /\ Alive(q) /\ q \in escaped => q \in escaped'
        /\ Coded' /\ \A q \in Processes \ {p} : Alive(q)' => Placing(q)'
    BY <2>4, SpawnLeaves
  <2>8. /\ proc'[p].kind = kind /\ proc'[p].track = sup[s].track /\ proc'[p].parent = {}
        /\ proc'[p].code = "running"
        /\ \A q \in Processes \ {p} : proc'[q] = proc[q]
    BY <2>4 DEF Spawns
  <2>9. \A q \in Processes \ {p} : Alive(q)' /\ proc'[q].track = sup[s].track => Escapee(q)'
    BY <2>6, <2>7, <2>8
  <2>11. Locked'
    BY <1>1, <2>2, <2>3 DEF Parts, Others, Locked
  <2>12. Supervised'
    <3>1. ASSUME NEW o \in Supervisors PROVE OwnChild(o)'
      <4>1. CASE o = s
        BY <4>1, <2>3, <2>8 DEF OwnChild
      <4>2. CASE o # s
        <5>1. OwnChild(o) /\ sup'[o] = sup[o] /\ p \notin sup[o].child
          BY <4>2, <2>2, <2>7 DEF Parts, Supervised, Others
        <5> QED
          BY <5>1, <2>8 DEF OwnChild
      <4> QED
        BY <4>1, <4>2
    <3> QED
      BY <3>1, <1>1, <2>2, <2>3 DEF Parts, Supervised, Others
  <2>13. Placed'
    <3>1. Placing(p)'
      BY <1>1, <2>5, <2>8 DEF Placing, KindsOf
    <3> QED
      BY <2>7, <3>1 DEF Placed
  <2>14. RecoversAlone'
    BY <2>7, <2>8, <2>9 DEF Parts, RecoversAlone, Touches, Writers
  <2>15. SecondWriterEscaped'
    BY <2>7, <2>8, <2>9 DEF Parts, SecondWriterEscaped, Writers
  <2>16. StrangerEscaped'
    <3> SUFFICES ASSUME NEW o \in Supervisors, NEW q \in Processes,
                        sup'[o].pc \in {"begin", "launch", "record", "wait"},
                        Alive(q)', proc'[q].track = sup'[o].track
                 PROVE  Descends(q, o)' \/ Escapee(q)'
      BY DEF StrangerEscaped
    <3>1. CASE o = s
      BY <3>1, <2>3, <2>8, <2>9 DEF Descends
    <3>2. CASE o # s
      <4>1. sup'[o] = sup[o] /\ sup[o].track # sup[s].track
        BY <3>2, <1>1, <2>2 DEF Parts, Others, Locked
      <4>2. q # p
        BY <4>1, <2>8
      <4> QED
        BY <4>1, <4>2, <2>7, <2>8 DEF Parts, StrangerEscaped, Descends
    <3> QED
      BY <3>1, <3>2
  <2>17. Remembered'
    <3> SUFFICES ASSUME NEW q \in Processes, Alive(q)', proc'[q].parent = {}
                 PROVE  \/ \E o \in Supervisors : q \in sup'[o].child
                        \/ q \in status'[proc'[q].track].child
                        \/ q \in escaped'
      BY DEF Remembered
    <3>1. CASE q = p
      BY <3>1, <2>3
    <3>2. CASE q # p
      <4>1. Alive(q) /\ proc'[q] = proc[q] /\ (q \in escaped => q \in escaped')
        BY <3>2, <2>7, <2>8
      <4>2. \A o \in Supervisors : q \in sup[o].child => q \in sup'[o].child
        BY <1>1, <2>2 DEF Others
      <4> QED
        BY <1>3, <4>1, <4>2 DEF Parts, Remembered
    <3> QED
      BY <3>1, <3>2
  <2>18. Filed' /\ Saved'
    <3>1. Saved'
      BY <1>3 DEF Parts, Saved
    <3>2. Noted(s)' /\ Reconciled(s)'
      BY <1>1, <1>3, <2>3 DEF Noted, Reconciled
    <3>3. ASSUME NEW o \in Supervisors, o # s PROVE Noted(o)' /\ Reconciled(o)'
      <4>1. sup'[o] = sup[o]
        BY <2>2, <3>3 DEF Others
      <4>2. Noted(o)'
        BY <1>3, <4>1 DEF Parts, Filed, Noted
      <4>3. Reconciled(o)'
        <5>1. sup[o].pc # "off" => sup[o].track # sup[s].track
          BY <1>1, <3>3 DEF Parts, Locked
        <5> QED
          BY <4>1, <5>1, <2>7, <2>8 DEF Parts, Filed, Reconciled
      <4> QED
        BY <4>2, <4>3
    <3> QED
      BY <3>1, <3>2, <3>3 DEF Filed
  <2> QED
    BY <2>7, <2>11, <2>12, <2>13, <2>14, <2>15, <2>16, <2>17, <2>18 DEF Parts
<1> QED
  BY <1>2, <1>3 DEF Launch

(* A recovery script starts its collector when none of its own is left; any  *)
(* other writer there is then has escaped, or the script itself has, and     *)
(* with it its collector (Recover).                                          *)
LEMMA SpawnKeepsParts ==
  ASSUME Shape, Parts, NEW p \in Processes, NEW q \in Processes, sup' = sup, status' = status,
         Alive(p), proc[p].kind = "recover", \A r \in Collecting(p) : ~Alive(r),
         Spawns(q, "collect", proc[p].track, {p})
  PROVE  Parts'
<1>1. /\ ~Alive(q) /\ Alive(q)' /\ \A o \in Supervisors : q \notin sup[o].child
      /\ \A r \in Processes : Alive(r) => q \notin proc[r].parent
      /\ \A r \in Processes \ {q} : /\ Alive(r)' <=> Alive(r)
                                    /\ Alive(r) /\ Escapee(r) => Escapee(r)'
                                    /\ Alive(r) /\ r \in escaped => r \in escaped'
      /\ Coded' /\ \A r \in Processes \ {q} : Alive(r)' => Placing(r)'
  BY SpawnLeaves
<1>2. /\ proc'[q].kind = "collect" /\ proc'[q].track = proc[p].track /\ proc'[q].parent = {p}
      /\ \A r \in Processes \ {q} : proc'[r] = proc[r]
      /\ p # q
  BY <1>1 DEF Spawns
<1>3. Placing(p) /\ proc[p].parent = {}
  BY DEF Parts, Placed, Placing
<1>4. Escapee(p) => Escapee(q)'
  BY <1>1, <1>2, <1>3 DEF Escapee
<1>5. \A r \in Processes \ {q} : Touches(r)' /\ proc'[r].track = proc[p].track /\ r # p
                                => Escapee(r)' \/ Escapee(q)'
  <2> SUFFICES ASSUME NEW r \in Processes \ {q}, Touches(r)', proc'[r].track = proc[p].track, r # p,
                      ~Escapee(r)', ~Escapee(q)'
               PROVE  FALSE
    OBVIOUS
  <2>1. Touches(r) /\ proc[r].track = proc[p].track /\ ~Escapee(r) /\ ~Escapee(p)
    BY <1>1, <1>2, <1>4 DEF Touches
  <2>2. proc[r].parent = {p}
    BY <2>1 DEF Parts, RecoversAlone, Touches
  <2>3. r \in Collecting(p)
    BY <2>1, <2>2 DEF Collecting, Touches, Alive
  <2> QED
    BY <2>1, <2>3 DEF Touches
<1>6. Locked' /\ Saved'
  BY DEF Parts, Locked, Saved
<1>7. Supervised'
  <2>1. ASSUME NEW o \in Supervisors PROVE OwnChild(o)'
    <3>1. OwnChild(o)
      BY DEF Parts, Supervised
    <3> QED
      BY <3>1, <1>1, <1>2 DEF OwnChild
  <2> QED
    BY <2>1 DEF Parts, Supervised
<1>8. Placed'
  <2>1. "collect" \in KindsOf(proc[p].track)
    BY <1>3 DEF Placing, KindsOf, QuarterHour, Forward
  <2>2. Placing(q)'
    BY <1>2, <1>3, <2>1 DEF Placing, KindsOf, Alive
  <2> QED
    BY <1>1, <2>2 DEF Placed
<1>9. RecoversAlone'
  <2> SUFFICES ASSUME NEW x \in Processes, NEW y \in Processes,
                      Touches(x)', proc'[x].kind = "recover", Touches(y)', x # y,
                      proc'[x].track = proc'[y].track
               PROVE  \/ proc'[y].kind # "recover" /\ proc'[y].parent = {x}
                      \/ Escapee(x)' \/ Escapee(y)'
    BY DEF RecoversAlone
  <2>1. x # q
    BY <1>2
  <2>2. CASE y = q
    BY <1>2, <1>5, <2>1, <2>2
  <2>3. CASE y # q
    <3>1. /\ Touches(x) /\ Touches(y) /\ proc'[x] = proc[x] /\ proc'[y] = proc[y]
          /\ (Escapee(x) => Escapee(x)') /\ (Escapee(y) => Escapee(y)')
      BY <1>1, <1>2, <2>1, <2>3 DEF Touches
    <3> QED
      BY <3>1 DEF Parts, RecoversAlone
  <2> QED
    BY <2>2, <2>3
<1>10. SecondWriterEscaped'
  <2>1. \A r \in Processes \ {q} : Alive(r)' /\ proc'[r].kind \in Writers => Touches(r)' /\ r # p
    BY <1>2 DEF Touches, Writers
  <2> QED
    BY <1>1, <1>2, <1>5, <2>1 DEF Parts, SecondWriterEscaped
<1>11. StrangerEscaped'
  <2> SUFFICES ASSUME NEW o \in Supervisors, NEW r \in Processes,
                      sup[o].pc \in {"begin", "launch", "record", "wait"},
                      Alive(r)', proc'[r].track = sup[o].track
               PROVE  Descends(r, o)' \/ Escapee(r)'
    BY DEF StrangerEscaped
  <2>1. CASE r = q
    <3>1. Descends(p, o) \/ Escapee(p)
      BY <1>2, <2>1 DEF Parts, StrangerEscaped
    <3>2. CASE Escapee(p)
      BY <1>4, <2>1, <3>2
    <3>3. CASE Descends(p, o)
      <4>1. p \in sup[o].child
        BY <1>3, <3>3 DEF Descends
      <4> QED
        BY <1>2, <2>1, <4>1 DEF Descends
    <3> QED
      BY <3>1, <3>2, <3>3
  <2>2. CASE r # q
    BY <2>2, <1>1, <1>2 DEF Parts, StrangerEscaped, Descends
  <2> QED
    BY <2>1, <2>2
<1>12. Remembered'
  BY <1>1, <1>2 DEF Parts, Remembered
<1>13. Filed'
  BY <1>1, <1>2 DEF Parts, Filed, Noted, Reconciled
<1> QED
  BY <1>1, <1>6, <1>7, <1>8, <1>9, <1>10, <1>11, <1>12, <1>13 DEF Parts

(* The steps of a process: it moves on, ends, or starts a collector.         *)
LEMMA ProcessKeepsParts ==
  ASSUME Shape, Parts, NEW p \in Processes, ProcessStep(p) \/ Die(p)
  PROVE  Parts'
<1>1. Alive(p) /\ sup' = sup /\ status' = status
  BY DEF ProcessStep, Write, Recover, Replicate, Read, Die
<1>2. ASSUME Exits(p, "bad") PROVE Moves(p)
  BY <1>1, <1>2 DEF Exits, Shape, ProcRecord, Moves
<1>3. ASSUME Exits(p, "ok"), \A q \in Processes : Alive(q) => proc[q].parent # {p}
      PROVE  Moves(p)
  BY <1>1, <1>3 DEF Exits, Shape, ProcRecord, Moves
<1>4. ASSUME proc[p].kind # "recover"
      PROVE  \A q \in Processes : Alive(q) => proc[q].parent # {p}
  BY <1>4 DEF Parts, Placed, Placing
<1>5. CASE Die(p)
  BY <1>1, <1>2, <1>5, MovesKeepsParts DEF Die
<1>6. CASE Read(p)
  BY <1>1, <1>3, <1>4, <1>6, MovesKeepsParts DEF Read
<1>7. CASE Replicate(p)
  BY <1>1, <1>2, <1>3, <1>4, <1>7, MovesKeepsParts DEF Replicate
<1>8. CASE Write(p)
  <2>1. proc[p].kind # "recover" /\ escaped' = escaped
    BY <1>8 DEF Write, Writers
  <2>2. CASE Exits(p, "ok")
    BY <1>1, <1>3, <1>4, <2>1, <2>2, MovesKeepsParts
  <2>3. CASE proc' = [proc EXCEPT ![p].left = @ - 1]
    <3>1. Moves(p)
      BY <1>1, <2>3 DEF Shape, ProcRecord, Moves, Alive
    <3> QED
      BY <1>1, <2>1, <3>1, MovesKeepsParts
  <2> QED
    BY <1>8, <2>2, <2>3 DEF Write
<1>9. CASE Recover(p)
  <2>1. proc[p].kind = "recover" /\ \A q \in Collecting(p) : ~Alive(q)
    BY <1>9 DEF Recover
  <2>2. CASE Exits(p, "bad") /\ UNCHANGED escaped
    BY <1>1, <1>2, <2>2, MovesKeepsParts
  <2>3. CASE Exits(p, "ok") /\ UNCHANGED escaped
    <3>1. \A q \in Processes : Alive(q) => proc[q].parent # {p}
      BY <2>1 DEF Collecting, Alive
    <3> QED
      BY <1>1, <1>3, <2>3, <3>1, MovesKeepsParts
  <2>4. CASE \E q \in Processes :
               /\ Free(q)
               /\ proc' = [proc EXCEPT ![q] = Running("collect", proc[p].track, {p}, Group)]
               /\ escaped' = escaped \ {q}
    <3>1. PICK q \in Processes :
               /\ Free(q)
               /\ proc' = [proc EXCEPT ![q] = Running("collect", proc[p].track, {p}, Group)]
               /\ escaped' = escaped \ {q}
      BY <2>4
    <3>2. Spawns(q, "collect", proc[p].track, {p})
      BY <3>1 DEF Spawns, Running, Shape
    <3> QED
      BY <1>1, <2>1, <3>2, SpawnKeepsParts
  <2> QED
    BY <1>9, <2>2, <2>3, <2>4 DEF Recover
<1> QED
  BY <1>5, <1>6, <1>7, <1>8, <1>9 DEF ProcessStep

--------------------------------------------------------------------------------
(* The records keep their form.                                              *)

LEMMA InitShape == Init => Shape
<1>1. Off \in SupRecord /\ Gone \in ProcRecord
  BY BatchAssumption DEF Off, Gone, SupRecord, ProcRecord
<1>2. ASSUME Init PROVE ledger \in [Tracks -> 0 .. Batches]
  BY <1>2, BatchAssumption DEF Init
<1> HIDE DEF SupRecord, ProcRecord
<1> QED
  BY <1>1, <1>2 DEF Init, Shape

LEMMA PhasesAreKinds ==
  ASSUME NEW t \in Tracks, NEW prepare \in BOOLEAN, NEW resume \in BOOLEAN
  PROVE  PhasesOf(t, prepare, resume) \in Seq(Kinds)
<1>1. CASE t = "forward"
  BY <1>1 DEF PhasesOf, Kinds, Forward
<1>2. CASE t = "v4"
  BY <1>2 DEF PhasesOf, Study, Kinds, QuarterHour
<1>3. CASE t = "v5"
  <2>2. Study(prepare) \in Seq(Kinds) /\ <<"preflight">> \in Seq(Kinds)
    BY DEF Study, Kinds, QuarterHour
  <2>3. (IF resume THEN Study(prepare) ELSE <<>>) \in Seq(Kinds)
    BY <2>2
  <2>4. PhasesOf(t, prepare, resume) = <<"preflight">> \o (IF resume THEN Study(prepare) ELSE <<>>)
    BY <1>3 DEF PhasesOf
  <2> HIDE DEF Study
  <2> QED
    BY <2>2, <2>3, <2>4
<1> QED
  BY <1>1, <1>2, <1>3, TrackAssumption DEF Lineages

LEMMA SupervisorKeepsShape ==
  ASSUME Shape, Parts, NEW s \in Supervisors, Open(s) \/ SupervisorStep(s) \/ Crash(s)
  PROVE  Shape'
<1>1. sup[s] \in SupRecord /\ Off \in SupRecord
  BY BatchAssumption DEF Shape, Off, SupRecord
<1>2. ASSUME NEW r \in SupRecord, sup' = [sup EXCEPT ![s] = r], UNCHANGED <<proc, ledger>>
      PROVE  Shape'
  BY <1>2 DEF Shape
<1>3. CASE Open(s)
  <2>1. PICK t \in Tracks, prepare \in BOOLEAN, resume \in BOOLEAN :
        /\ sup' = [sup EXCEPT ![s] = [pc |-> "reconcile", track |-> t, resume |-> resume, v4 |-> 0,
                                      child |-> {}, todo |-> PhasesOf(t, prepare, resume)]]
    BY <1>3 DEF Open
  <2>2. PhasesOf(t, prepare, resume) \in Seq(Kinds) /\ t \in Tracks
    BY PhasesAreKinds
  <2> HIDE DEF PhasesOf
  <2>3. [pc |-> "reconcile", track |-> t, resume |-> resume, v4 |-> 0,
         child |-> {}, todo |-> PhasesOf(t, prepare, resume)] \in SupRecord
    BY <2>2, BatchAssumption DEF SupRecord
  <2> QED
    BY <1>2, <1>3, <2>1, <2>3 DEF Open
<1>4. ASSUME sup' = [sup EXCEPT ![s] = Off], UNCHANGED <<proc, ledger>> PROVE Shape'
  BY <1>1, <1>2, <1>4
<1>5. ASSUME NEW pc \in {"off", "reconcile", "scan", "begin", "launch", "record", "wait"}, sup' = [sup EXCEPT ![s].pc = pc], UNCHANGED <<proc, ledger>>
      PROVE  Shape'
  <2>1. [sup[s] EXCEPT !.pc = pc] \in SupRecord
    BY <1>1 DEF SupRecord
  <2>2. sup' = [sup EXCEPT ![s] = [sup[s] EXCEPT !.pc = pc]]
    BY <1>5
  <2> QED
    BY <1>2, <1>5, <2>1, <2>2
<1>6. CASE Crash(s) \/ Complete(s)
  BY <1>4, <1>6, <1>5 DEF Crash, Complete, Fails
<1>7. CASE Reconcile(s)
  BY <1>4, <1>5, <1>7 DEF Reconcile, Fails
<1>8. CASE Scan(s)
  BY <1>4, <1>5, <1>8 DEF Scan, Fails
<1>9. CASE Record(s)
  BY <1>4, <1>5, <1>9 DEF Record, Fails
<1>10. CASE Begin(s)
  <2>1. CASE Fails(s)
    BY <1>4, <1>10, <2>1 DEF Begin, Fails
  <2>2. CASE sup' = [sup EXCEPT ![s].pc = "launch",
                                ![s].v4 = IF "v4" \in Tracks THEN ledger["v4"] ELSE 0]
    <3>1. (IF "v4" \in Tracks THEN ledger["v4"] ELSE 0) \in 0 .. Batches
      BY BatchAssumption DEF Shape
    <3> DEFINE n == IF "v4" \in Tracks THEN ledger["v4"] ELSE 0
    <3>2. [sup[s] EXCEPT !.pc = "launch", !.v4 = n] \in SupRecord
      BY <1>1, <3>1 DEF SupRecord
    <3>3. sup' = [sup EXCEPT ![s] = [sup[s] EXCEPT !.pc = "launch", !.v4 = n]]
      BY <2>2
    <3> QED
      BY <1>2, <1>10, <3>2, <3>3 DEF Begin
  <2> QED
    BY <1>10, <2>1, <2>2 DEF Begin
<1>11. CASE Harvest(s)
  <2>1. CASE sup' = [sup EXCEPT ![s] = Off]
    BY <1>4, <1>11, <2>1 DEF Harvest
  <2>2. CASE sup' = [sup EXCEPT ![s].pc = "launch", ![s].child = {}, ![s].todo = Tail(@)]
    <3>1. sup[s].todo \in Seq(Kinds) /\ sup[s].todo # <<>>
      BY <1>1, <1>11 DEF SupRecord, Harvest, Parts, Supervised
    <3>2. Tail(sup[s].todo) \in Seq(Kinds)
      BY <3>1, TailStays
    <3>3. [sup[s] EXCEPT !.pc = "launch", !.child = {}, !.todo = Tail(sup[s].todo)] \in SupRecord
      BY <1>1, <3>2 DEF SupRecord
    <3>4. sup' = [sup EXCEPT ![s] = [sup[s] EXCEPT !.pc = "launch", !.child = {},
                                                   !.todo = Tail(sup[s].todo)]]
      BY <2>2
    <3> QED
      BY <1>2, <1>11, <3>3, <3>4 DEF Harvest
  <2> QED
    BY <1>11, <2>1, <2>2 DEF Harvest
<1>12. CASE Launch(s)
  <2>1. CASE Fails(s) /\ UNCHANGED proc
    BY <1>4, <1>12, <2>1 DEF Launch, Fails
  <2>2. CASE \E p \in Processes :
             /\ proc' = [proc EXCEPT ![p] = Running(Head(sup[s].todo), sup[s].track, {}, Batches)]
             /\ sup' = [sup EXCEPT ![s].pc = "record", ![s].child = {p}]
    <3>1. PICK p \in Processes :
             /\ proc' = [proc EXCEPT ![p] = Running(Head(sup[s].todo), sup[s].track, {}, Batches)]
             /\ sup' = [sup EXCEPT ![s].pc = "record", ![s].child = {p}]
      BY <2>2
    <3>2. sup[s].todo \in Seq(Kinds) /\ sup[s].todo # <<>> /\ sup[s].track \in Tracks \cup {"none"}
      BY <1>1, <1>12 DEF SupRecord, Launch
    <3>3. Head(sup[s].todo) \in Kinds
      BY <3>2
    <3>4. Running(Head(sup[s].todo), sup[s].track, {}, Batches) \in ProcRecord
      BY <3>2, <3>3, BatchAssumption DEF Running, ProcRecord
    <3>5. [sup[s] EXCEPT !.pc = "record", !.child = {p}] \in SupRecord
      BY <1>1 DEF SupRecord
    <3>6. sup' = [sup EXCEPT ![s] = [sup[s] EXCEPT !.pc = "record", !.child = {p}]]
      BY <3>1
    <3>7. ledger' = ledger
      BY <1>12 DEF Launch
    <3> HIDE DEF Running
    <3> QED
      BY <3>1, <3>4, <3>5, <3>6, <3>7 DEF Shape
  <2> QED
    BY <1>12, <2>1, <2>2 DEF Launch
<1> QED
  BY <1>3, <1>6, <1>7, <1>8, <1>9, <1>10, <1>11, <1>12 DEF SupervisorStep

LEMMA ProcessKeepsShape ==
  ASSUME Shape, Parts, NEW p \in Processes, ProcessStep(p) \/ Die(p)
  PROVE  Shape'
<1>1. sup' = sup /\ proc[p] \in ProcRecord /\ Alive(p)
  BY DEF ProcessStep, Write, Recover, Replicate, Read, Die, Shape
<1>2. ASSUME NEW code \in {"none", "running", "ok", "bad"}, Exits(p, code), ledger' = ledger PROVE Shape'
  <2>1. [proc[p] EXCEPT !.code = code] \in ProcRecord
    BY <1>1 DEF ProcRecord
  <2>2. proc' = [proc EXCEPT ![p] = [proc[p] EXCEPT !.code = code]]
    BY <1>2 DEF Exits
  <2> QED
    BY <1>1, <1>2, <2>1, <2>2 DEF Shape
<1>3. CASE Die(p) \/ Read(p) \/ Replicate(p)
  BY <1>2, <1>3 DEF Die, Read, Replicate
<1>4. CASE Write(p)
  <2>1. CASE Exits(p, "ok") /\ UNCHANGED ledger
    BY <1>2, <2>1
  <2>2. CASE /\ ledger' = [ledger EXCEPT ![proc[p].track] = @ + 1] /\ proc[p].left > 0
             /\ ledger[proc[p].track] < Batches
             /\ proc' = [proc EXCEPT ![p].left = @ - 1]
    <3>1. proc[p].left - 1 \in Nat
      BY <1>1, <2>2 DEF ProcRecord
    <3>2. [proc[p] EXCEPT !.left = proc[p].left - 1] \in ProcRecord
      BY <1>1, <3>1 DEF ProcRecord
    <3>3. proc' = [proc EXCEPT ![p] = [proc[p] EXCEPT !.left = proc[p].left - 1]]
      BY <2>2
    <3>4. ledger' \in [Tracks -> 0 .. Batches]
      <4>1. ledger \in [Tracks -> 0 .. Batches]
        BY DEF Shape
      <4> DEFINE u == proc[p].track
      <4>2. ledger' = [ledger EXCEPT ![u] = @ + 1] /\ ledger[u] < Batches
        BY <2>2
      <4>3. u \in Tracks => ledger[u] + 1 \in 0 .. Batches
        BY <4>1, <4>2, BatchAssumption
      <4> HIDE DEF u
      <4> QED
        BY <4>1, <4>2, <4>3
    <3> QED
      BY <1>1, <3>2, <3>3, <3>4 DEF Shape
  <2> QED
    BY <1>4, <2>1, <2>2 DEF Write
<1>5. CASE Recover(p)
  <2>1. ledger' = ledger
    BY <1>5 DEF Recover
  <2>2. CASE Exits(p, "ok") \/ Exits(p, "bad")
    BY <1>2, <2>1, <2>2
  <2>3. CASE \E q \in Processes :
               proc' = [proc EXCEPT ![q] = Running("collect", proc[p].track, {p}, Group)]
    <3>1. Running("collect", proc[p].track, {p}, Group) \in ProcRecord
      BY <1>1, BatchAssumption DEF Running, ProcRecord, Kinds, QuarterHour
    <3> HIDE DEF Running
    <3> QED
      BY <1>1, <2>1, <2>3, <3>1 DEF Shape
  <2> QED
    BY <1>5, <2>2, <2>3 DEF Recover
<1> QED
  BY <1>3, <1>4, <1>5 DEF ProcessStep

--------------------------------------------------------------------------------

LEMMA InitParts == Init => Parts
<1> SUFFICES ASSUME Init PROVE Parts
  OBVIOUS
<1>1. \A s \in Supervisors : sup[s].pc = "off" /\ sup[s].child = {}
  BY DEF Init, Off
<1>2. \A p \in Processes : proc[p].code = "none"
  BY DEF Init, Gone
<1>3. Saved
  BY DEF Init, Saved, States
<1>4. Filed
  BY <1>1 DEF Filed, Noted, Reconciled
<1> QED
  BY <1>1, <1>2, <1>3, <1>4 DEF Parts, Coded, Locked, Supervised, OwnChild, Placed, RecoversAlone,
     Touches, SecondWriterEscaped, StrangerEscaped, Remembered, Alive

LEMMA NextKeepsIInv == ASSUME IInv, [Next]_vars PROVE IInv'
<1> USE DEF IInv
<1>1. CASE UNCHANGED vars
  <2>1. sup' = sup /\ proc' = proc /\ ledger' = ledger /\ status' = status /\ escaped' = escaped
    BY <1>1 DEF vars
  <2>2. Shape' /\ Locked' /\ Saved'
    BY <2>1 DEF Shape, Parts, Locked, Saved
  <2>3. Supervised'
    BY <2>1 DEF Parts, Supervised, OwnChild
  <2>4. /\ Placed' /\ Coded' /\ RecoversAlone' /\ SecondWriterEscaped'
        /\ \A p \in Processes : Escapee(p) => Escapee(p)'
    BY <2>1, ProcessesStand
  <2>5. StrangerEscaped'
    BY <2>1, <2>4 DEF Parts, StrangerEscaped, Descends, Alive
  <2>6. Remembered'
    BY <2>1 DEF Parts, Remembered, Alive
  <2>7. Filed'
    BY <2>1 DEF Parts, Filed, Noted, Reconciled, Alive
  <2> QED
    BY <2>2, <2>3, <2>4, <2>5, <2>6, <2>7 DEF Parts
<1>2. CASE \E s \in Supervisors : Open(s) \/ SupervisorStep(s) \/ Crash(s)
  <2>1. PICK s \in Supervisors : Open(s) \/ SupervisorStep(s) \/ Crash(s)
    BY <1>2
  <2>2. Shape'
    BY <2>1, SupervisorKeepsShape
  <2>3. CASE Open(s)
    BY <2>2, <2>3, OpenKeepsParts
  <2>4. CASE Crash(s)
    BY <2>2, <2>4, CrashKeepsParts
  <2>5. CASE SupervisorStep(s)
    BY <2>2, <2>5, ReconcileKeepsParts, ScanKeepsParts, BeginKeepsParts, RecordKeepsParts,
       HarvestKeepsParts, LaunchKeepsParts, CompleteKeepsParts DEF SupervisorStep
  <2> QED
    BY <2>1, <2>3, <2>4, <2>5
<1>3. CASE \E p \in Processes : ProcessStep(p) \/ Die(p)
  BY <1>3, ProcessKeepsShape, ProcessKeepsParts
<1> QED
  BY <1>1, <1>2, <1>3 DEF Next

(* Two live writers of a ledger are never both accounted for, through deaths *)
(* of the supervisors, of the recovery script and of the collectors          *)
(* (Invoke-ResearchRecovery, recover_quarter_hour).                          *)
THEOREM SecondWriterHasEscaped == Spec => []SecondWriterEscaped
<1>1. Init => IInv
  BY InitShape, InitParts DEF IInv
<1>2. IInv /\ [Next]_vars => IInv'
  BY NextKeepsIInv
<1>3. IInv => SecondWriterEscaped
  BY DEF IInv, Parts
<1> QED
  BY <1>1, <1>2, <1>3, PTL DEF Spec

(* Whatever works on a track beside its supervisor has escaped from an       *)
(* earlier one (Invoke-ResearchRecovery).                                    *)
THEOREM StrangersHaveEscaped == Spec => []StrangerEscaped
<1>1. Init => IInv
  BY InitShape, InitParts DEF IInv
<1>2. IInv /\ [Next]_vars => IInv'
  BY NextKeepsIInv
<1>3. IInv => StrangerEscaped
  BY DEF IInv, Parts
<1> QED
  BY <1>1, <1>2, <1>3, PTL DEF Spec

(* A phase that lives is its supervisor's, is named by the status file of    *)
(* its track, or has escaped (Save-State, Invoke-Phase).                     *)
THEOREM PhasesAreRemembered == Spec => []Remembered
<1>1. Init => IInv
  BY InitShape, InitParts DEF IInv
<1>2. IInv /\ [Next]_vars => IInv'
  BY NextKeepsIInv
<1>3. IInv => Remembered
  BY DEF IInv, Parts
<1> QED
  BY <1>1, <1>2, <1>3, PTL DEF Spec

--------------------------------------------------------------------------------
(* A completed run has published.  The status file says COMPLETED when the   *)
(* list of phases is empty, and the supervisor never looks at the result     *)
(* then: that it is there rests on the last phase of the list, on the exit   *)
(* code of the very child that ran it, and on a result that is never taken   *)
(* back.                                                                     *)

Published == result = {<<"v4", Batches>>}

Replicated ==
  \A p \in Processes :
    proc[p].kind = "replicate" /\ proc[p].code = "ok" => result = {<<proc[p].track, Batches>>}

(* The child of a supervisor is its next phase.                              *)
Phased ==
  \A s \in Supervisors : sup[s].pc \in {"record", "wait"} =>
    \A p \in sup[s].child : proc[p].kind = Head(sup[s].todo) /\ proc[p].track = sup[s].track

(* Until it has published, a run of V4 has the replication before it.        *)
EndsWell(todo) == IF todo = <<>> THEN Published ELSE todo[Len(todo)] = "replicate"
Ends == \A s \in Supervisors : sup[s].pc # "off" /\ sup[s].track = "v4" => EndsWell(sup[s].todo)

Publication == Replicated /\ Phased /\ Ends /\ Saved /\ CompletedHasPublished

(* What a step may do to the processes and the result: a process keeps its   *)
(* kind and its track until its number is free, only a replication that      *)
(* publishes ends well, and what is published stays.                         *)
Progress ==
  /\ result # {} => result' = result
  /\ \A q \in Processes :
       \/ /\ proc'[q].kind = proc[q].kind /\ proc'[q].track = proc[q].track
          /\ proc[q].kind = "replicate" /\ proc'[q].code = "ok"
                => proc[q].code = "ok" \/ result' = {<<proc[q].track, Batches>>}
       \/ Free(q) /\ proc'[q].code = "running"

LEMMA ProgressKeepsReplicated ==
  ASSUME Replicated, Progress
  PROVE  Replicated' /\ (Published => Published')
<1>1. Published => Published'
  BY DEF Progress, Published
<1>2. Replicated'
  BY DEF Replicated, Progress
<1> QED
  BY <1>1, <1>2

(* The steps of the processes (Write, Recover, Replicate, Read, Die).        *)
LEMMA ProcessProgresses ==
  ASSUME Shape, NEW p \in Processes, ProcessStep(p) \/ Die(p)
  PROVE  Progress /\ sup' = sup /\ status' = status
<1>1. sup' = sup /\ status' = status
  BY DEF ProcessStep, Write, Recover, Replicate, Read, Die
<1> SUFFICES Progress
  BY <1>1
<1>2. ASSUME Exits(p, "bad"), result' = result PROVE Progress
  BY <1>2 DEF Exits, Shape, ProcRecord, Progress
<1>3. ASSUME Exits(p, "ok"), proc[p].kind # "replicate", result' = result PROVE Progress
  BY <1>3 DEF Exits, Shape, ProcRecord, Progress
<1>4. CASE Die(p)
  BY <1>2, <1>4 DEF Die
<1>5. CASE Read(p)
  BY <1>3, <1>5 DEF Read
<1>6. CASE Write(p)
  <2>1. result' = result /\ proc[p].kind # "replicate"
    BY <1>6 DEF Write, Writers
  <2>2. CASE Exits(p, "ok")
    BY <1>3, <2>1, <2>2
  <2>3. CASE proc' = [proc EXCEPT ![p].left = @ - 1]
    BY <2>1, <2>3 DEF Shape, ProcRecord, Progress
  <2> QED
    BY <1>6, <2>2, <2>3 DEF Write
<1>7. CASE Replicate(p)
  <2>1. CASE Exits(p, "bad") /\ UNCHANGED result
    BY <1>2, <2>1
  <2>2. CASE /\ ledger[proc[p].track] = Batches /\ result = {}
             /\ result' = {<<proc[p].track, ledger[proc[p].track]>>} /\ Exits(p, "ok")
    BY <2>2 DEF Exits, Shape, ProcRecord, Progress
  <2> QED
    BY <1>7, <2>1, <2>2 DEF Replicate
<1>8. CASE Recover(p)
  <2>1. result' = result /\ proc[p].kind = "recover"
    BY <1>8 DEF Recover
  <2>2. CASE Exits(p, "bad")
    BY <1>2, <2>1, <2>2
  <2>3. CASE Exits(p, "ok")
    BY <1>3, <2>1, <2>3
  <2>4. CASE \E q \in Processes :
               Free(q) /\ proc' = [proc EXCEPT ![q] = Running("collect", proc[p].track, {p}, Group)]
    BY <2>1, <2>4 DEF Running, Shape, Progress
  <2> QED
    BY <1>8, <2>2, <2>3, <2>4 DEF Recover
<1> QED
  BY <1>4, <1>5, <1>6, <1>7, <1>8 DEF ProcessStep

LEMMA ProcessKeepsPublication ==
  ASSUME IInv, Publication, NEW p \in Processes, ProcessStep(p) \/ Die(p)
  PROVE  Publication'
<1> USE DEF IInv, Publication
<1>1. Progress /\ sup' = sup /\ status' = status
  BY ProcessProgresses
<1>2. Replicated' /\ (Published => Published')
  BY <1>1, ProgressKeepsReplicated
<1>3. Phased'
  <2> SUFFICES ASSUME NEW s \in Supervisors, sup[s].pc \in {"record", "wait"}, NEW q \in sup[s].child
               PROVE  proc'[q].kind = Head(sup[s].todo) /\ proc'[q].track = sup[s].track
    BY <1>1 DEF Phased
  <2>1. q \in Processes
    BY DEF Shape, SupRecord
  <2>2. ~Free(q)
    BY DEF Free
  <2> QED
    BY <1>1, <2>1, <2>2 DEF Phased, Progress
<1>4. Ends'
  BY <1>1, <1>2 DEF Ends, EndsWell
<1>5. Saved' /\ CompletedHasPublished'
  BY <1>1, <1>2 DEF Saved, CompletedHasPublished, Published
<1> QED
  BY <1>2, <1>3, <1>4, <1>5

(* The steps of a supervisor that say neither COMPLETED nor take a phase     *)
(* from the list: it ends, or stays with its child and its list.             *)
Writes(s, states) ==
  \/ status' = status
  \/ \E x \in states, c \in SUBSET Processes :
       status' = [status EXCEPT ![sup[s].track] = [state |-> x, child |-> c]]

Unfinished == States \ {"COMPLETED"}

LEMMA WritesKeepsStatus ==
  ASSUME Saved, CompletedHasPublished, Published => Published',
         NEW s \in Supervisors, Writes(s, Unfinished)
  PROVE  Saved' /\ CompletedHasPublished'
<1> USE DEF Saved, CompletedHasPublished, Published
<1>1. CASE status' = status
  BY <1>1
<1>2. CASE \E x \in Unfinished, c \in SUBSET Processes :
             status' = [status EXCEPT ![sup[s].track] = [state |-> x, child |-> c]]
  <2>1. PICK x \in Unfinished, c \in SUBSET Processes :
             status' = [status EXCEPT ![sup[s].track] = [state |-> x, child |-> c]]
    BY <1>2
  <2>2. x \in States /\ x # "COMPLETED"
    BY DEF Unfinished
  <2>3. [state |-> x, child |-> c] \in [state : States, child : SUBSET Processes]
    BY <2>2
  <2>4. Saved'
    <3> HIDE DEF States
    <3> QED
      BY <2>1, <2>3
  <2>5. "v4" \in Tracks /\ status'["v4"].state = "COMPLETED" => status["v4"].state = "COMPLETED"
    BY <2>1, <2>2
  <2> QED
    BY <2>4, <2>5
<1> QED
  BY <1>1, <1>2 DEF Writes

Stays(s) ==
  /\ Others(s)
  /\ sup'[s].pc # "off" =>
       /\ sup[s].pc # "off"
       /\ sup'[s].track = sup[s].track /\ sup'[s].todo = sup[s].todo
       /\ sup'[s].child = sup[s].child
       /\ sup'[s].pc \in {"record", "wait"} => sup[s].pc \in {"record", "wait"}

LEMMA StaysKeepsPublication ==
  ASSUME IInv, Publication, NEW s \in Supervisors, Stays(s), Writes(s, Unfinished),
         proc' = proc, result' = result
  PROVE  Publication'
<1> USE DEF Publication
<1>1. Replicated' /\ (Published <=> Published')
  BY DEF Replicated, Published
<1>2. Phased'
  BY DEF Phased, Stays, Others
<1>3. Ends'
  BY <1>1 DEF Ends, EndsWell, Stays, Others
<1>4. Saved' /\ CompletedHasPublished'
  BY <1>1, WritesKeepsStatus
<1> QED
  BY <1>1, <1>2, <1>3, <1>4

LEMMA FailsKeepsPublication ==
  ASSUME IInv, Publication, NEW s \in Supervisors, Fails(s), proc' = proc, result' = result
  PROVE  Publication'
<1>1. sup[s].child \in SUBSET Processes /\ "FAILED" \in Unfinished
  BY DEF IInv, Shape, SupRecord, Unfinished, States
<1>2. Writes(s, Unfinished)
  BY <1>1 DEF Fails, Writes
<1>3. Stays(s)
  BY DEF Fails, IInv, Shape, Off, Stays, Others
<1> QED
  BY <1>2, <1>3, StaysKeepsPublication

(* A crash saves nothing.                                                    *)
LEMMA CrashKeepsPublication ==
  ASSUME IInv, Publication, NEW s \in Supervisors, Crash(s)
  PROVE  Publication'
<1>1. Writes(s, Unfinished)
  BY DEF Crash, Writes
<1>2. Stays(s)
  BY DEF Crash, IInv, Shape, Off, Stays, Others
<1> QED
  BY <1>1, <1>2, StaysKeepsPublication DEF Crash

(* Every list of V4 ends with the replication (PhasesOf).                      *)
LEMMA PhasesEndWell ==
  ASSUME NEW prepare \in BOOLEAN, NEW resume \in BOOLEAN
  PROVE  EndsWell(PhasesOf("v4", prepare, resume))
  BY DEF PhasesOf, Study, EndsWell

LEMMA OpenKeepsPublication ==
  ASSUME IInv, Publication, NEW s \in Supervisors, Open(s)
  PROVE  Publication'
<1> USE DEF Publication
<1>1. PICK t \in Tracks, prepare \in BOOLEAN, resume \in BOOLEAN :
        sup' = [sup EXCEPT ![s] = [pc |-> "reconcile", track |-> t, resume |-> resume, v4 |-> 0,
                                   child |-> {}, todo |-> PhasesOf(t, prepare, resume)]]
  BY DEF Open
<1>2. /\ Others(s) /\ sup'[s].pc = "reconcile" /\ sup'[s].track = t
      /\ sup'[s].todo = PhasesOf(t, prepare, resume)
  BY <1>1 DEF IInv, Shape, Others
<1>3. proc' = proc /\ status' = status /\ result' = result
  BY DEF Open
<1>4. Replicated' /\ Saved' /\ CompletedHasPublished'
  BY <1>3 DEF Replicated, Saved, CompletedHasPublished
<1>5. Phased'
  BY <1>2, <1>3 DEF Phased, Others
<1>6. Ends'
  <2>1. t = "v4" => EndsWell(sup'[s].todo)
    BY <1>2, PhasesEndWell
  <2>2. \A todo : EndsWell(todo) => EndsWell(todo)'
    BY <1>3 DEF EndsWell, Published
  <2> QED
    BY <1>2, <2>1, <2>2 DEF Ends, Others
<1> QED
  BY <1>4, <1>5, <1>6

LEMMA ReconcileKeepsPublication ==
  ASSUME IInv, Publication, NEW s \in Supervisors, Reconcile(s) \/ Scan(s) \/ Begin(s) \/ Record(s)
  PROVE  Publication'
<1>1. proc' = proc /\ result' = result
  BY DEF Reconcile, Scan, Begin, Record
<1>2. CASE Fails(s)
  BY <1>1, <1>2, FailsKeepsPublication
<1>3. CASE /\ sup[s].pc \in {"reconcile", "scan", "begin"}
           /\ \/ sup' = [sup EXCEPT ![s].pc = "scan"]
              \/ sup' = [sup EXCEPT ![s].pc = "begin"]
              \/ sup' = [sup EXCEPT ![s].pc = "launch",
                                    ![s].v4 = IF "v4" \in Tracks THEN ledger["v4"] ELSE 0]
           /\ Writes(s, Unfinished)
  <2>1. Stays(s)
    BY <1>3 DEF IInv, Shape, SupRecord, Stays, Others
  <2> QED
    BY <1>1, <1>3, <2>1, StaysKeepsPublication
<1>4. CASE Reconcile(s) /\ ~Fails(s)
  <2>1. Writes(s, Unfinished)
    <3>1. "INTERRUPTED" \in Unfinished /\ {} \in SUBSET Processes
      BY DEF Unfinished, States
    <3>2. status' = [status EXCEPT ![sup[s].track] = IF Orphaned(@)
                           THEN [state |-> "INTERRUPTED", child |-> {}] ELSE @]
      BY <1>4 DEF Reconcile
    <3>3. CASE Orphaned(status[sup[s].track])
      BY <3>1, <3>2, <3>3 DEF Writes
    <3>4. CASE ~Orphaned(status[sup[s].track])
      <4>1. status' = status
        BY <3>2, <3>4 DEF Publication, Saved
      <4> QED
        BY <4>1 DEF Writes
    <3> QED
      BY <3>3, <3>4
  <2> QED
    BY <1>3, <1>4, <2>1 DEF Reconcile
<1>5. CASE Scan(s) /\ ~Fails(s)
  <2>1. Writes(s, Unfinished)
    BY <1>5 DEF Scan, Writes, Unfinished, States
  <2> QED
    BY <1>3, <1>5, <2>1 DEF Scan
<1>6. CASE Begin(s) /\ ~Fails(s)
  BY <1>3, <1>6 DEF Begin, Writes
<1>7. CASE Record(s) /\ ~Fails(s)
  <2>1. sup[s].child \in SUBSET Processes /\ "RUNNING" \in Unfinished
    BY DEF IInv, Shape, SupRecord, Unfinished, States
  <2>2. Writes(s, Unfinished)
    BY <1>7, <2>1 DEF Record, Writes
  <2>3. Stays(s)
    BY <1>7 DEF Record, IInv, Shape, SupRecord, Stays, Others
  <2> QED
    BY <1>1, <2>2, <2>3, StaysKeepsPublication
<1> QED
  BY <1>2, <1>4, <1>5, <1>6, <1>7

(* A new child is the head of the list, and no other supervisor's (Launch).  *)
LEMMA LaunchKeepsPublication ==
  ASSUME IInv, Publication, NEW s \in Supervisors, Launch(s)
  PROVE  Publication'
<1> USE DEF Publication
<1>1. CASE Fails(s) /\ UNCHANGED <<proc, escaped>>
  BY <1>1, FailsKeepsPublication DEF Launch
<1>2. CASE \E p \in Processes :
             /\ Free(p)
             /\ proc' = [proc EXCEPT ![p] = Running(Head(sup[s].todo), sup[s].track, {}, Batches)]
             /\ sup' = [sup EXCEPT ![s].pc = "record", ![s].child = {p}]
             /\ UNCHANGED status
  <2>1. PICK p \in Processes :
             /\ Free(p)
             /\ proc' = [proc EXCEPT ![p] = Running(Head(sup[s].todo), sup[s].track, {}, Batches)]
             /\ sup' = [sup EXCEPT ![s].pc = "record", ![s].child = {p}]
    BY <1>2
  <2>2. status' = status /\ result' = result
    BY <1>2 DEF Launch
  <2>3. /\ Others(s)
        /\ sup'[s].track = sup[s].track /\ sup'[s].todo = sup[s].todo
        /\ sup'[s].child = {p} /\ sup[s].pc = "launch"
    <3>1. sup \in [Supervisors -> SupRecord] /\ sup[s] \in SupRecord
      BY DEF IInv, Shape
    <3>2. Others(s) /\ sup'[s] = [sup[s] EXCEPT !.pc = "record", !.child = {p}]
      BY <2>1, <3>1 DEF Others
    <3> QED BY <3>1, <3>2 DEF Launch, SupRecord
  <2>4. /\ \A q \in Processes \ {p} : proc'[q] = proc[q]
        /\ proc'[p].code = "running" /\ proc'[p].kind = Head(sup[s].todo)
        /\ proc'[p].track = sup[s].track
    BY <2>1 DEF IInv, Shape, Running
  <2>5. Progress
    BY <2>1, <2>2, <2>4 DEF Progress
  <2>6. Replicated' /\ (Published => Published')
    BY <2>5, ProgressKeepsReplicated
  <2>7. Phased'
    <3> SUFFICES ASSUME NEW o \in Supervisors, sup'[o].pc \in {"record", "wait"}, NEW q \in sup'[o].child
                 PROVE  proc'[q].kind = Head(sup'[o].todo) /\ proc'[q].track = sup'[o].track
      BY DEF Phased
    <3>1. CASE o = s
      BY <2>3, <2>4, <3>1
    <3>2. CASE o # s
      <4>1. sup'[o] = sup[o]
        BY <2>3, <3>2 DEF Others
      <4>2. q # p /\ q \in Processes
        BY <2>1, <4>1 DEF Free, IInv, Shape, SupRecord
      <4> QED
        BY <2>4, <4>1, <4>2 DEF Phased
    <3> QED
      BY <3>1, <3>2
  <2>8. Ends'
    BY <2>3, <2>6 DEF Ends, EndsWell, Others
  <2>9. Saved' /\ CompletedHasPublished'
    BY <2>2 DEF Saved, CompletedHasPublished
  <2> QED
    BY <2>6, <2>7, <2>8, <2>9
<1> QED
  BY <1>1, <1>2 DEF Launch

(* What is left of a list that ends well.                                    *)
LEMMA TailEndsWell ==
  ASSUME NEW S, NEW todo \in Seq(S), todo # <<>>, EndsWell(todo), Head(todo) = "replicate" => Published
  PROVE  EndsWell(Tail(todo))
<1>1. CASE Tail(todo) = <<>>
  <2>1. Len(todo) = 1
    <3>1. Len(Tail(todo)) = 0
      <4>1. Len(<<>>) = 0
        OBVIOUS
      <4>2. Len(Tail(todo)) = Len(<<>>)
        BY <1>1, Zenon
      <4> QED
        BY <4>1, <4>2, Zenon
    <3>2. Len(Tail(todo)) = Len(todo) - 1 /\ Len(todo) \in Nat
      OBVIOUS
    <3> QED
      BY <3>1, <3>2
  <2>2. todo[1] = "replicate"
    BY <2>1 DEF EndsWell
  <2> QED
    BY <1>1, <2>2 DEF EndsWell
<1>2. CASE Tail(todo) # <<>>
  <2>1. Tail(todo)[Len(Tail(todo))] = todo[Len(todo)]
    BY <1>2
  <2> QED
    BY <1>2, <2>1 DEF EndsWell
<1> QED
  BY <1>1, <1>2

(* A phase leaves the list when its child has ended well (Harvest).          *)
LEMMA HarvestKeepsPublication ==
  ASSUME IInv, Publication, NEW s \in Supervisors, Harvest(s)
  PROVE  Publication'
<1> USE DEF Publication
<1>1. proc' = proc /\ result' = result /\ sup[s].pc = "wait"
  BY DEF Harvest
<1>2. Writes(s, Unfinished)
  <2>1. {"FAILED", "RUNNING"} \subseteq Unfinished /\ {} \in SUBSET Processes
    BY DEF Unfinished, States
  <2> QED
    BY <2>1 DEF Harvest, Writes
<1>3. CASE sup' = [sup EXCEPT ![s] = Off]
  <2>1. Stays(s)
    BY <1>3 DEF IInv, Shape, Off, Stays, Others
  <2> QED
    BY <1>1, <1>2, <2>1, StaysKeepsPublication
<1>4. CASE /\ ~\E p \in sup[s].child : proc[p].code = "bad"
           /\ sup' = [sup EXCEPT ![s].pc = "launch", ![s].child = {}, ![s].todo = Tail(@)]
  <2>1. /\ Others(s)
        /\ sup'[s].track = sup[s].track /\ sup'[s].todo = Tail(sup[s].todo)
        /\ sup'[s].pc = "launch"
    BY <1>4 DEF IInv, Shape, SupRecord, Others
  <2>2. PICK c \in Processes : sup[s].child = {c} /\ proc[c].code # "none"
    BY <1>1 DEF IInv, Parts, Supervised, OwnChild
  <2>3. proc[c].code = "ok"
    BY <1>4, <2>2 DEF Harvest, Alive, IInv, Parts, Coded
  <2>4. proc[c].kind = Head(sup[s].todo) /\ proc[c].track = sup[s].track
    BY <1>1, <2>2 DEF Phased
  <2>5. sup[s].track = "v4" /\ Head(sup[s].todo) = "replicate" => Published
    BY <2>3, <2>4 DEF Replicated, Published
  <2>6. sup[s].todo \in Seq(KindsOf(sup[s].track)) /\ sup[s].todo # <<>>
    BY <1>1 DEF IInv, Parts, Supervised
  <2>7. sup[s].track = "v4" => EndsWell(Tail(sup[s].todo))
    <3>1. sup[s].track = "v4" => EndsWell(sup[s].todo)
      BY <1>1 DEF Ends
    <3> QED
      BY <2>5, <2>6, <3>1, TailEndsWell
  <2>8. Replicated' /\ (Published <=> Published')
    BY <1>1 DEF Replicated, Published
  <2>9. Ends'
    <3>1. \A todo : EndsWell(todo) => EndsWell(todo)'
      BY <2>8 DEF EndsWell
    <3> QED
      BY <2>1, <2>7, <3>1 DEF Ends, Others
  <2>10. Phased'
    BY <1>1, <2>1 DEF Phased, Others
  <2>11. Saved' /\ CompletedHasPublished'
    BY <1>2, <2>8, WritesKeepsStatus
  <2> QED
    BY <2>8, <2>9, <2>10, <2>11
<1> QED
  BY <1>3, <1>4 DEF Harvest

(* The list is empty, so V4 has published (Complete).                        *)
LEMMA CompleteKeepsPublication ==
  ASSUME IInv, Publication, NEW s \in Supervisors, Complete(s)
  PROVE  Publication'
<1> USE DEF Publication
<1>1. CASE Fails(s)
  BY <1>1, FailsKeepsPublication DEF Complete
<1>2. CASE /\ status' = [status EXCEPT ![sup[s].track] = [state |-> "COMPLETED", child |-> {}]]
           /\ sup' = [sup EXCEPT ![s] = Off]
  <2>1. Others(s) /\ sup'[s].pc = "off"
    BY <1>2 DEF IInv, Shape, Off, Others
  <2>2. proc' = proc /\ result' = result
    BY DEF Complete
  <2>3. Replicated' /\ (Published <=> Published')
    BY <2>2 DEF Replicated, Published
  <2>4. Phased' /\ Ends'
    BY <2>1, <2>2, <2>3 DEF Phased, Ends, EndsWell, Others
  <2>5. Saved'
    BY <1>2 DEF Saved, States
  <2>6. sup[s].track = "v4" => Published
    BY DEF Complete, Ends, EndsWell
  <2>7. CompletedHasPublished'
    BY <1>2, <2>3, <2>6 DEF Saved, CompletedHasPublished, Published
  <2> QED
    BY <2>3, <2>4, <2>5, <2>7
<1> QED
  BY <1>1, <1>2 DEF Complete

LEMMA NextKeepsPublication == ASSUME IInv, Publication, [Next]_vars PROVE Publication'
<1>1. CASE UNCHANGED vars
  BY <1>1 DEF vars, Publication, Replicated, Phased, Ends, EndsWell, Published, Saved,
              CompletedHasPublished
<1>2. CASE \E s \in Supervisors : Open(s) \/ SupervisorStep(s) \/ Crash(s)
  BY <1>2, OpenKeepsPublication, ReconcileKeepsPublication, LaunchKeepsPublication,
     HarvestKeepsPublication, CompleteKeepsPublication, CrashKeepsPublication DEF SupervisorStep
<1>3. CASE \E p \in Processes : ProcessStep(p) \/ Die(p)
  BY <1>3, ProcessKeepsPublication
<1> QED
  BY <1>1, <1>2, <1>3 DEF Next

LEMMA InitPublication == Init => Publication
<1> SUFFICES ASSUME Init PROVE Publication
  OBVIOUS
<1>1. Replicated /\ Phased /\ Ends
  BY DEF Init, Off, Gone, Replicated, Phased, Ends
<1>2. Saved
  BY DEF Init, Saved, States
<1>3. CompletedHasPublished
  BY DEF Init, CompletedHasPublished
<1> QED
  BY <1>1, <1>2, <1>3 DEF Publication

(* A run of V4 that is recorded as COMPLETED has published the result of a   *)
(* complete ledger, whichever supervisors and children died on the way.      *)
THEOREM CompletedMeansPublished == Spec => []CompletedHasPublished
<1>1. Init => IInv /\ Publication
  BY InitShape, InitParts, InitPublication DEF IInv
<1>2. IInv /\ Publication /\ [Next]_vars => IInv' /\ Publication'
  BY NextKeepsIInv, NextKeepsPublication
<1>3. Publication => CompletedHasPublished
  BY DEF Publication
<1> QED
  BY <1>1, <1>2, <1>3, PTL DEF Spec

--------------------------------------------------------------------------------
(****************************************************************************)
(* The feature ledger, for any symbols, months, archives, collectors and     *)
(* scripts.  A batch may be extracted before the ledger has reached it and   *)
(* by a collector that is no longer alone; that it is the batch one          *)
(* undisturbed pass writes rests on the trade it was given: the last one of  *)
(* the month before, which was in the ledger when it was read.               *)
(****************************************************************************)
----------------------------------------------------------------------------
(* Numbers and recursions along them.                                        *)

LEMMA LeastOf == ASSUME NEW T \in SUBSET Nat, T # {}
                 PROVE \E x \in T : \A y \in T : x <= y
<1>1. PICK x \in T : \A y \in T : ~ (<<y, x>> \in OpToRel(<, Nat))
  BY WFMin, NatLessThanWellFounded
<1>2. \A y \in T : ~ (y < x)
  BY <1>1 DEF OpToRel
<1> QED BY <1>2

(* The largest index of a part of a ledger.                                 *)
LEMMA MaxIsIn == ASSUME NEW n \in Nat, NEW S \in SUBSET (1..n), S # {}
                 PROVE Max(S) \in S /\ \A y \in S : y <= Max(S)
<1> DEFINE T == {x \in 0..n : \A y \in S : y <= x}
<1>1. n \in T
  OBVIOUS
<1>2. PICK m \in T : \A x \in T : m <= x
  <2>1. T \in SUBSET Nat /\ T # {}
    BY <1>1
  <2> HIDE DEF T
  <2> QED BY <2>1, LeastOf
<1>3. m \in S
  <2> SUFFICES ASSUME m \notin S PROVE FALSE
    OBVIOUS
  <2>1. PICK y \in S : TRUE
    OBVIOUS
  <2>2. m - 1 \in 0..n /\ \A z \in S : z <= m - 1
    BY <2>1
  <2>3. m - 1 \in T
    BY <2>2
  <2> QED BY <1>2, <2>3
<1>4. \A y \in S : m >= y
  BY <1>2
<1> QED BY <1>3, <1>4 DEF Max

(* A recursion along the numbers up to n has a solution.                     *)
IsStep(step, n, S) == step \in [(1 .. n) \X S -> S]

Follows(f, n, S, base, step) ==
  f \in [0 .. n -> S] /\ f[0] = base /\ \A i \in 1 .. n : f[i] = step[<<i, f[i - 1]>>]

LEMMA RecursionExists ==
    ASSUME NEW n \in Nat, NEW S, NEW base \in S, NEW step, IsStep(step, n, S)
    PROVE  \E f : Follows(f, n, S, base, step)
<1> USE DEF IsStep, Follows
<1> DEFINE Solves(m, f) == f[0] = base /\ \A i \in 1 .. m : f[i] = step[<<i, f[i - 1]>>]
           Wrong == {m \in 0 .. n : \A f \in [0 .. m -> S] : ~ Solves(m, f)}
<1>1. CASE Wrong = {}
  <2>1. n \notin Wrong
    BY <1>1
  <2> QED BY <2>1
<1>2. CASE Wrong # {}
  <2>1. PICK m \in Wrong : \A y \in Wrong : m <= y
    <3>1. Wrong \in SUBSET Nat
      OBVIOUS
    <3> HIDE DEF Wrong
    <3> QED BY <1>2, <3>1, LeastOf
  <2>2. m \in 0 .. n /\ \A f \in [0 .. m -> S] : ~ Solves(m, f)
    OBVIOUS
  <2>3. CASE m = 0
    <3> DEFINE f == [i \in 0 .. 0 |-> base]
    <3>1. f \in [0 .. m -> S] /\ Solves(m, f)
      BY <2>3
    <3> QED BY <2>2, <3>1
  <2>4. CASE m # 0
    <3>1. m - 1 \in 0 .. n /\ m \in 1 .. n /\ m - 1 < m
      BY <2>2, <2>4
    <3>2. m - 1 \notin Wrong
      BY <2>1, <3>1
    <3>3. PICK f \in [0 .. m - 1 -> S] : Solves(m - 1, f)
      BY <3>1, <3>2
    <3> DEFINE g == [i \in 0 .. m |-> IF i = m THEN step[<<m, f[m - 1]>>] ELSE f[i]]
    <3>4. f[m - 1] \in S /\ step[<<m, f[m - 1]>>] \in S
      BY <3>1
    <3>5. g \in [0 .. m -> S]
      BY <3>1, <3>4
    <3>6. ASSUME NEW i \in 1 .. m PROVE g[i] = step[<<i, g[i - 1]>>]
      <4>1. CASE i = m
        <5>1. g[m] = step[<<m, f[m - 1]>>] /\ g[m - 1] = f[m - 1]
          BY <3>1
        <5> QED BY <4>1, <5>1
      <4>2. CASE i # m
        <5>1. i \in 1 .. m - 1 /\ i - 1 \in 0 .. m - 1 /\ i - 1 # m /\ i \in 0 .. m /\ i - 1 \in 0 .. m
          BY <3>1, <4>2
        <5>2. g[i] = f[i] /\ g[i - 1] = f[i - 1]
          BY <4>2, <5>1
        <5>3. f[i] = step[<<i, f[i - 1]>>]
          BY <3>3, <5>1
        <5> QED BY <5>2, <5>3
      <4> QED BY <4>1, <4>2
    <3>7. g[0] = base
      BY <3>1, <3>3
    <3>8. Solves(m, g)
      BY <3>6, <3>7
    <3> QED BY <2>2, <3>5, <3>8
  <2> QED BY <2>3, <2>4
<1> QED BY <1>1, <1>2

(* What a pass keeps is taken from its places.                               *)
LEMMA KeptFrom ==
    ASSUME NEW T, NEW s \in Seq(T), NEW places
    PROVE  Kept(s, places) \in Seq({s[p] : p \in places \cap (1 .. Len(s))})
<1> DEFINE Of == {s[p] : p \in places \cap (1 .. Len(s))}
           n == Len(s)
           Form(kept) == [k \in 0 .. n |->
             IF k = 0 THEN <<>> ELSE IF k \in places THEN Append(kept[k - 1], s[k]) ELSE kept[k - 1]]
           step == [e \in (1 .. n) \X Seq(Of) |-> IF e[1] \in places THEN Append(e[2], s[e[1]]) ELSE e[2]]
<1>1. n \in Nat
  OBVIOUS
<1>2. step \in [(1 .. n) \X Seq(Of) -> Seq(Of)]
  OBVIOUS
<1>3. <<>> \in Seq(Of)
  OBVIOUS
<1>4. PICK f : Follows(f, n, Seq(Of), <<>>, step)
  <2>1. IsStep(step, n, Seq(Of))
    <3> HIDE DEF n, step, Of
    <3> QED BY <1>2 DEF IsStep
  <2> HIDE DEF n, step, Of
  <2> QED BY <1>1, <1>3, <2>1, RecursionExists
<1>4a. /\ f \in [0 .. n -> Seq(Of)] /\ f[0] = <<>>
       /\ \A i \in 1 .. n : f[i] = step[<<i, f[i - 1]>>]
  <2> HIDE DEF n, step, Of
  <2> QED BY <1>4 DEF Follows
<1>5. f = Form(f)
  <2>1. ASSUME NEW k \in 0 .. n PROVE f[k] = Form(f)[k]
    <3>1. CASE k = 0
      BY <1>4a, <3>1
    <3>2. CASE k # 0
      <4>1. k \in 1 .. n /\ k - 1 \in 0 .. n
        BY <1>1, <3>2
      <4>2. f[k] = step[<<k, f[k - 1]>>] /\ f[k - 1] \in Seq(Of)
        BY <1>4a, <4>1
      <4>3. f[k] = IF k \in places THEN Append(f[k - 1], s[k]) ELSE f[k - 1]
        BY <4>1, <4>2
      <4> HIDE DEF step
      <4> QED BY <3>2, <4>3
    <3> QED BY <3>1, <3>2
  <2> HIDE DEF step
  <2> QED BY <1>4a, <2>1
<1> HIDE DEF step
<1> DEFINE kept == CHOOSE g : g = Form(g)
<1>6. kept = Form(kept)
  BY <1>5
<1>7. Kept(s, places) = kept[n]
  BY DEF Kept
<1>8. \A k \in 0 .. n : kept[k] = f[k]
  <2> DEFINE Wrong == {k \in 0 .. n : kept[k] # f[k]}
  <2> SUFFICES ASSUME Wrong # {} PROVE FALSE
    OBVIOUS
  <2> HIDE DEF kept
  <2>1. PICK m \in Wrong : \A y \in Wrong : m <= y
    <3>1. Wrong \in SUBSET Nat
      BY <1>1
    <3> HIDE DEF Wrong
    <3> QED BY <3>1, LeastOf
  <2>2. m # 0
    BY <1>5, <1>6
  <2>3. m - 1 \in 0 .. n /\ m \in 0 .. n /\ m - 1 < m
    BY <1>1, <2>2
  <2>4. kept[m - 1] = f[m - 1]
    BY <2>1, <2>3
  <2>5. kept[m] = Form(kept)[m] /\ f[m] = Form(f)[m]
    BY <1>5, <1>6
  <2> QED BY <2>2, <2>3, <2>4, <2>5
<1>9. f[n] \in Seq(Of)
  BY <1>1, <1>4a
<1> HIDE DEF kept
<1> QED BY <1>1, <1>7, <1>8, <1>9

(* Laying sequences end to end, one after the other.                         *)
Joins(f, seqs, n, T) ==
  /\ f \in [0 .. n -> Seq(T)] /\ f[1] = seqs[1]
  /\ \A i \in 2 .. n : f[i] = f[i - 1] \o seqs[i]

LEMMA FlattenIs ==
    ASSUME NEW T, NEW seqs, NEW n \in Nat, n > 0, Len(seqs) = n,
           \A i \in 1 .. n : seqs[i] \in Seq(T)
    PROVE  \E f : Joins(f, seqs, n, T) /\ FlattenSeq(seqs) = f[n]
<1> DEFINE Form(flatten) == [i \in 1 .. n |-> IF i = 1 THEN seqs[i] ELSE flatten[i - 1] \o seqs[i]]
           step == [e \in (1 .. n) \X Seq(T) |-> IF e[1] = 1 THEN seqs[1] ELSE e[2] \o seqs[e[1]]]
<1>1. <<>> \in Seq(T)
  OBVIOUS
<1>2. IsStep(step, n, Seq(T))
  <2>1. ASSUME NEW e \in (1 .. n) \X Seq(T) PROVE step[e] \in Seq(T)
    <3>1. e[1] \in 1 .. n /\ e[2] \in Seq(T) /\ seqs[1] \in Seq(T) /\ seqs[e[1]] \in Seq(T)
      BY <2>1
    <3> QED BY <3>1
  <2> QED BY <2>1 DEF IsStep
<1>3. PICK f : Follows(f, n, Seq(T), <<>>, step)
  <2> HIDE DEF step
  <2> QED BY <1>1, <1>2, RecursionExists
<1>4. f \in [0 .. n -> Seq(T)] /\ \A i \in 1 .. n : f[i] = step[<<i, f[i - 1]>>]
  <2> HIDE DEF step
  <2> QED BY <1>3 DEF Follows
<1>5. ASSUME NEW i \in 1 .. n PROVE f[i] = IF i = 1 THEN seqs[i] ELSE f[i - 1] \o seqs[i]
  <2>1. i - 1 \in 0 .. n /\ f[i] = step[<<i, f[i - 1]>>]
    <3> HIDE DEF step
    <3> QED BY <1>4
  <2>2. f[i - 1] \in Seq(T)
    BY <1>4, <2>1
  <2> QED BY <2>1, <2>2
<1> HIDE DEF step
<1>6. Joins(f, seqs, n, T)
  <2>1. f[1] = seqs[1]
    BY <1>5
  <2>2. \A i \in 2 .. n : i \in 1 .. n /\ i # 1
    OBVIOUS
  <2> QED BY <1>4, <1>5, <2>1, <2>2 DEF Joins
<1> DEFINE g == [i \in 1 .. n |-> f[i]]
<1>7. g = Form(g)
  <2>1. ASSUME NEW i \in 1 .. n PROVE g[i] = Form(g)[i]
    <3>1. CASE i = 1
      BY <1>5, <3>1
    <3>2. CASE i # 1
      <4>1. i - 1 \in 1 .. n
        BY <3>2
      <4> QED BY <1>5, <3>2, <4>1
    <3> QED BY <3>1, <3>2
  <2> QED BY <2>1
<1> DEFINE flatten == CHOOSE h : h = Form(h)
<1>8. flatten = Form(flatten)
  <2> HIDE DEF g
  <2> QED BY <1>7
<1>9. FlattenSeq(seqs) = flatten[n]
  BY DEF FlattenSeq
<1>10. \A k \in 1 .. n : flatten[k] = f[k]
  <2> DEFINE Wrong == {k \in 1 .. n : flatten[k] # f[k]}
  <2> SUFFICES ASSUME Wrong # {} PROVE FALSE
    OBVIOUS
  <2> HIDE DEF flatten
  <2>1. PICK m \in Wrong : \A y \in Wrong : m <= y
    <3>1. Wrong \in SUBSET Nat
      OBVIOUS
    <3> HIDE DEF Wrong
    <3> QED BY <3>1, LeastOf
  <2>2. m \in 1 .. n /\ flatten[m] = Form(flatten)[m]
    BY <1>8
  <2>3. m # 1
    BY <1>5, <2>2
  <2>4. m - 1 \in 1 .. n /\ m - 1 < m
    BY <2>2, <2>3
  <2>5. flatten[m - 1] = f[m - 1]
    BY <2>1, <2>4
  <2> QED BY <1>5, <2>2, <2>3, <2>5
<1> HIDE DEF flatten
<1> QED BY <1>6, <1>9, <1>10

----------------------------------------------------------------------------
(* The plan.                                                                *)

Width == Len(Symbols)

LEMMA WidthType == Width \in Nat /\ Width > 0 /\ Months \in Nat /\ Len(Plan) \in Nat
                   /\ Len(Plan) = Months * Width /\ DOMAIN Plan = 1 .. Len(Plan)
<1>1. Width \in Nat /\ Width > 0 /\ Months \in Nat
  BY PlanAssumption DEF Width
<1>2. Months * Width \in Nat
  BY <1>1
<1>3. Plan = [i \in 1 .. Months * Width |->
           [symbol |-> Symbols[((i - 1) % Width) + 1], period |-> (i - 1) \div Width]]
  BY DEF Plan, Width
<1> QED BY <1>1, <1>2, <1>3

LEMMA DivModOf == ASSUME NEW m \in Nat, NEW d \in Nat, d > 0, NEW q \in Int, NEW r \in Int,
                         q = m \div d, r = m % d
                  PROVE q >= 0 /\ r \in 0 .. d - 1 /\ m = d * q + r
  OBVIOUS

(* Any m, divided by d: a quotient and a remainder.                          *)
LEMMA DivMod == ASSUME NEW m \in Nat, NEW d \in Nat, d > 0
                PROVE \E q \in Nat, r \in 0 .. d - 1 :
                        m \div d = q /\ m % d = r /\ m = d * q + r /\ d * q \in Int
<1> DEFINE q == m \div d
           r == m % d
<1>1. q \in Int /\ r \in Int
  OBVIOUS
<1>2. q >= 0 /\ r \in 0 .. d - 1 /\ m = d * q + r
  <2>1. q = m \div d /\ r = m % d
    OBVIOUS
  <2> HIDE DEF q, r
  <2> QED BY <1>1, <2>1, DivModOf
<1>3. d * q \in Int
  BY <1>1
<1> QED BY <1>1, <1>2, <1>3

LEMMA Quotients == ASSUME NEW d \in Nat, d > 0, NEW q \in Nat, NEW p \in Nat, q > p
                   PROVE d * q >= d * p + d
<1>1. d * q = d * p + d + d * (q - p - 1)
  OBVIOUS
<1>2. d * (q - p - 1) >= 0 /\ d * q \in Nat /\ d * p \in Nat /\ d * (q - p - 1) \in Int
  OBVIOUS
<1> QED BY <1>1, <1>2

LEMMA PlanAt == ASSUME NEW i \in 1 .. Len(Plan)
                PROVE \E q \in Nat, r \in 0 .. Width - 1 :
                        /\ i - 1 = Width * q + r /\ Width * q \in Int
                        /\ Plan[i].symbol = Symbols[r + 1] /\ Plan[i].period = q
<1>1. i - 1 \in Nat /\ Width \in Nat /\ Width > 0 /\ i \in 1 .. Months * Width
  BY WidthType
<1>2. PICK q \in Nat, r \in 0 .. Width - 1 :
        (i - 1) \div Width = q /\ (i - 1) % Width = r /\ i - 1 = Width * q + r /\ Width * q \in Int
  BY <1>1, DivMod
<1>3. Plan[i] = [symbol |-> Symbols[((i - 1) % Width) + 1], period |-> (i - 1) \div Width]
  BY <1>1 DEF Plan, Width
<1>4. Plan[i].symbol = Symbols[r + 1] /\ Plan[i].period = q
  BY <1>2, <1>3
<1> QED BY <1>2, <1>4

LEMMA PeriodsAscend == ASSUME NEW i \in 1 .. Len(Plan), NEW j \in 1 .. Len(Plan), i <= j
                       PROVE Plan[i].period <= Plan[j].period
                             /\ Plan[i].period \in Nat /\ Plan[j].period \in Nat
<1>1. PICK q \in Nat, r \in 0 .. Width - 1 :
        i - 1 = Width * q + r /\ Width * q \in Int /\ Plan[i].period = q
  BY PlanAt
<1>2. PICK p \in Nat, s \in 0 .. Width - 1 :
        j - 1 = Width * p + s /\ Width * p \in Int /\ Plan[j].period = p
  BY PlanAt
<1>3. CASE q > p
  <2>1. Width * q >= Width * p + Width
    BY <1>3, Quotients, WidthType
  <2> QED BY <1>1, <1>2, <2>1, WidthType
<1> QED BY <1>1, <1>2, <1>3

(* The batches of one symbol are a width apart.                              *)
LEMMA OneSymbol ==
    ASSUME NEW i \in 1 .. Len(Plan), NEW j \in 1 .. Len(Plan), j < i,
           Plan[i].symbol = Plan[j].symbol
    PROVE  j <= i - Width /\ Plan[i].period > 0
<1>1. PICK q \in Nat, r \in 0 .. Width - 1 :
        /\ i - 1 = Width * q + r /\ Width * q \in Int
        /\ Plan[i].symbol = Symbols[r + 1] /\ Plan[i].period = q
  BY PlanAt
<1>2. PICK p \in Nat, s \in 0 .. Width - 1 :
        /\ j - 1 = Width * p + s /\ Width * p \in Int
        /\ Plan[j].symbol = Symbols[s + 1] /\ Plan[j].period = p
  BY PlanAt
<1>3. r = s
  <2>1. r + 1 \in DOMAIN Symbols /\ s + 1 \in DOMAIN Symbols
    BY PlanAssumption, WidthType DEF Width
  <2>2. r + 1 = s + 1
    BY <1>1, <1>2, <2>1, PlanAssumption
  <2>3. r \in Int /\ s \in Int
    BY WidthType
  <2> QED BY <2>2, <2>3
<1>4. q > p
  <2>1. CASE q = p
    BY <1>1, <1>2, <1>3, <2>1
  <2>2. CASE p > q
    <3>1. Width * p >= Width * q + Width
      BY <2>2, Quotients, WidthType
    <3> QED BY <1>1, <1>2, <1>3, <3>1, WidthType
  <2> QED BY <2>1, <2>2
<1>5. Width * q >= Width * p + Width
  BY <1>4, Quotients, WidthType
<1> QED BY <1>1, <1>2, <1>3, <1>4, <1>5, WidthType

LEMMA MonthBefore ==
    ASSUME NEW i \in 1 .. Len(Plan), Plan[i].period > 0
    PROVE  /\ i - Width \in 1 .. Len(Plan) /\ i - Width < i
           /\ Plan[i - Width].symbol = Plan[i].symbol
           /\ Plan[i - Width].period = Plan[i].period - 1
<1>1. PICK q \in Nat, r \in 0 .. Width - 1 :
        /\ i - 1 = Width * q + r /\ Width * q \in Int
        /\ Plan[i].symbol = Symbols[r + 1] /\ Plan[i].period = q
  BY PlanAt
<1>2. Width * q >= Width * 0 + Width /\ Width * 0 = 0
  BY <1>1, Quotients, WidthType
<1>3. i - Width \in 1 .. Len(Plan) /\ i - Width < i
  BY <1>1, <1>2, WidthType
<1> DEFINE h == i - Width
<1>4. h \in 1 .. Len(Plan)
  BY <1>3
<1>5. PICK p \in Nat, s \in 0 .. Width - 1 :
        /\ h - 1 = Width * p + s /\ Width * p \in Int
        /\ Plan[h].symbol = Symbols[s + 1] /\ Plan[h].period = p
  <2> HIDE DEF h
  <2> QED BY <1>4, PlanAt
<1>6. Width * (q - 1) = Width * q - Width /\ q - 1 \in Nat /\ Width * (q - 1) \in Int
  BY <1>1, WidthType
<1>7. p = q - 1 /\ s = r
  <2>1. CASE p > q - 1
    <3>1. Width * p >= Width * (q - 1) + Width
      BY <1>6, <2>1, Quotients, WidthType
    <3> QED BY <1>1, <1>5, <1>6, <3>1, WidthType
  <2>2. CASE q - 1 > p
    <3>1. Width * (q - 1) >= Width * p + Width
      BY <1>6, <2>2, Quotients, WidthType
    <3> QED BY <1>1, <1>5, <1>6, <3>1, WidthType
  <2>3. CASE p = q - 1
    <3>1. Width * p = Width * (q - 1)
      BY <2>3
    <3> QED BY <1>1, <1>5, <1>6, <2>3, <3>1, WidthType
  <2> QED BY <1>6, <2>1, <2>2, <2>3
<1> QED BY <1>1, <1>3, <1>5, <1>7

----------------------------------------------------------------------------
(* What one extraction leaves of its archive.                               *)

ScanOf(f, i, prior) ==
  Extract(Plan[i].symbol, Plan[i].period, PeriodStart(Plan[i].period), PeriodEnd(Plan[i].period),
          Loaded(f.month[Plan[i].symbol][Plan[i].period],
                 PeriodStart(Plan[i].period), PeriodEnd(Plan[i].period)), prior)

ScanFields == {"symbol", "period", "lastTrade", "gaps", "windows", "proofs"}

LEMMA ScanKeeps ==
    ASSUME NEW symbol, NEW period, NEW start, NEW end, NEW trades, NEW prior,
           Extract(symbol, period, start, end, trades, prior) # Raised
    PROVE  LET x == Extract(symbol, period, start, end, trades, prior)
           IN /\ x.symbol = symbol /\ x.period = period /\ x.lastTrade = Last(trades)
              /\ x.gaps = Gaps(prior, trades) /\ x.proofs = <<>>
              /\ trades # <<>> /\ Ordered(Scanned(prior, trades))
              /\ \A k \in DOMAIN prior : ~ (prior[k].t >= start)
              /\ ScanFields \subseteq DOMAIN x
  BY DEF Extract, ScanFields

LEMMA ExtractionIs ==
    ASSUME NEW f, NEW i, NEW prior, ExtractBatch(f, i, prior) # Raised
    PROVE  /\ ScanOf(f, i, prior) # Raised
           /\ \/ /\ ScanOf(f, i, prior).gaps = <<>>
                 /\ ExtractBatch(f, i, prior) = ScanOf(f, i, prior)
              \/ /\ Corroborate(ScanOf(f, i, prior), f.day[Plan[i].symbol]) # Raised
                 /\ ExtractBatch(f, i, prior) = Corroborate(ScanOf(f, i, prior), f.day[Plan[i].symbol])
<1> DEFINE x == ScanOf(f, i, prior)
           out == ExtractBatch(f, i, prior)
<1>1. out = IF x = Raised \/ x.gaps = <<>> THEN x ELSE Corroborate(x, f.day[Plan[i].symbol])
  BY DEF ExtractBatch, ScanOf
<1> HIDE DEF x, out
<1>2. out # Raised
  BY DEF out
<1>3. /\ x # Raised
      /\ \/ x.gaps = <<>> /\ out = x
         \/ /\ Corroborate(x, f.day[Plan[i].symbol]) # Raised
            /\ out = Corroborate(x, f.day[Plan[i].symbol])
  BY <1>1, <1>2
<1> QED BY <1>3 DEF x, out

LEMMA CorroborateAdds ==
    ASSUME NEW x, NEW days, Corroborate(x, days) # Raised
    PROVE  \E proofs : Corroborate(x, days) = [x EXCEPT !.proofs = proofs]
  BY DEF Corroborate

LEMMA ExtractionKeeps ==
    ASSUME NEW f, NEW i, NEW prior, ExtractBatch(f, i, prior) # Raised
    PROVE  /\ ExtractBatch(f, i, prior).symbol = Plan[i].symbol
           /\ ExtractBatch(f, i, prior).period = Plan[i].period
           /\ ExtractBatch(f, i, prior).lastTrade =
                Last(Loaded(f.month[Plan[i].symbol][Plan[i].period],
                            PeriodStart(Plan[i].period), PeriodEnd(Plan[i].period)))
           /\ ExtractBatch(f, i, prior).gaps = ScanOf(f, i, prior).gaps
           /\ ExtractBatch(f, i, prior).windows = ScanOf(f, i, prior).windows
<1> DEFINE x == ScanOf(f, i, prior)
           out == ExtractBatch(f, i, prior)
           trades == Loaded(f.month[Plan[i].symbol][Plan[i].period],
                            PeriodStart(Plan[i].period), PeriodEnd(Plan[i].period))
<1>1. x # Raised /\ (out = x \/ \E proofs : out = [x EXCEPT !.proofs = proofs])
  <2> HIDE DEF x, out
  <2>1. \/ out = x
        \/ /\ Corroborate(x, f.day[Plan[i].symbol]) # Raised
           /\ out = Corroborate(x, f.day[Plan[i].symbol])
    BY ExtractionIs DEF x, out
  <2>2. x # Raised
    BY ExtractionIs DEF x
  <2> QED BY <2>1, <2>2, CorroborateAdds
<1>2. /\ x.symbol = Plan[i].symbol /\ x.period = Plan[i].period /\ x.lastTrade = Last(trades)
      /\ ScanFields \subseteq DOMAIN x
  <2>1. x = Extract(Plan[i].symbol, Plan[i].period, PeriodStart(Plan[i].period),
                    PeriodEnd(Plan[i].period), trades, prior)
    BY DEF ScanOf
  <2> HIDE DEF x, trades
  <2> QED BY <1>1, <2>1, ScanKeeps
<1> DEFINE Same == /\ out.symbol = x.symbol /\ out.period = x.period /\ out.lastTrade = x.lastTrade
                   /\ out.gaps = x.gaps /\ out.windows = x.windows
<1>3. Same
  <2> HIDE DEF x, out
  <2>1. ASSUME NEW proofs, out = [x EXCEPT !.proofs = proofs] PROVE Same
    BY <1>2, <2>1 DEF ScanFields
  <2>2. ASSUME out = x PROVE Same
    BY <2>2
  <2> QED BY <1>1, <2>1, <2>2
<1> QED BY <1>2, <1>3

----------------------------------------------------------------------------
(* Trades in their order.                                                   *)

Trades(f, i) == MonthTrades(f, Plan[i].symbol, Plan[i].period)

LEMMA TradeFields == ASSUME NEW x \in Trade PROVE x.id \in Nat /\ x.t \in Nat
  BY DEF Trade

LEMMA OrderedAscends ==
    ASSUME NEW s \in Seq(Trade), Ordered(s), NEW a \in 1 .. Len(s), NEW b \in 1 .. Len(s), a < b
    PROVE  s[a].id < s[b].id /\ s[a].t <= s[b].t /\ s[a].id + (b - a) <= s[b].id
<1> DEFINE n == Len(s)
           Wrong == {c \in 1 .. n : a < c /\ ~ (s[a].t <= s[c].t /\ s[a].id + (c - a) <= s[c].id)}
<1>1. n \in Nat /\ \A c \in 1 .. n : s[c] \in Trade /\ s[c].id \in Nat /\ s[c].t \in Nat
  <2>1. n \in Nat
    OBVIOUS
  <2>2. ASSUME NEW c \in 1 .. n PROVE s[c] \in Trade /\ s[c].id \in Nat /\ s[c].t \in Nat
    <3>1. s[c] \in Trade
      OBVIOUS
    <3> QED BY <3>1, TradeFields
  <2> QED BY <2>1, <2>2
<1>2. Wrong = {}
  <2> SUFFICES ASSUME Wrong # {} PROVE FALSE
    OBVIOUS
  <2>1. PICK m \in Wrong : \A y \in Wrong : m <= y
    <3>1. Wrong \in SUBSET Nat
      OBVIOUS
    <3> HIDE DEF Wrong
    <3> QED BY <3>1, LeastOf
  <2>2. /\ m \in 1 .. n /\ a < m /\ m - 1 \in 1 .. n /\ m - 1 < m /\ a <= m - 1
        /\ ~ (s[a].t <= s[m].t /\ s[a].id + (m - a) <= s[m].id)
    BY <1>1
  <2>3. InOrder(s[m - 1], s[m])
    <3>1. m - 1 \in 1 .. Len(s) - 1 /\ (m - 1) + 1 = m
      BY <2>2
    <3>2. InOrder(s[m - 1], s[(m - 1) + 1])
      BY <3>1 DEF Ordered
    <3> QED BY <3>1, <3>2
  <2>4. s[m].id > s[m - 1].id /\ s[m].t >= s[m - 1].t
    BY <2>3 DEF InOrder
  <2>5. m - 1 = a \/ (s[a].t <= s[m - 1].t /\ s[a].id + (m - 1 - a) <= s[m - 1].id)
    <3>1. m - 1 \notin Wrong
      BY <2>1, <2>2
    <3> QED BY <2>2, <3>1
  <2>6. /\ m \in Int /\ a \in Int /\ s[a].id \in Nat /\ s[a].t \in Nat
        /\ s[m].id \in Nat /\ s[m].t \in Nat
        /\ s[m - 1].id \in Nat /\ s[m - 1].t \in Nat
    <3>1. m \in Int /\ a \in Int /\ a \in 1 .. n
      OBVIOUS
    <3> HIDE DEF Wrong, n
    <3> QED BY <1>1, <2>2, <3>1
  <2> HIDE DEF Wrong, n
  <2>7. s[a].t <= s[m].t
    BY <2>4, <2>5, <2>6
  <2>8. s[a].id + (m - a) <= s[m].id
    <3>1. CASE m - 1 = a
      <4>1. m - a = 1 /\ s[m - 1].id = s[a].id
        BY <2>6, <3>1
      <4>2. PICK low \in Nat, high \in Nat : low = s[a].id /\ high = s[m].id
        BY <2>6
      <4>3. low < high
        BY <2>4, <4>1, <4>2
      <4> QED BY <4>1, <4>2, <4>3
    <3>2. CASE m - 1 # a
      <4>1. s[a].id + (m - 1 - a) <= s[m - 1].id
        BY <2>5, <3>2
      <4>2. PICK x \in Int, y \in Int, z \in Int, d \in Int :
              x = s[a].id /\ y = s[m - 1].id /\ z = s[m].id /\ d = m - a /\ m - 1 - a = d - 1
        BY <2>6
      <4>3. x + (d - 1) <= y /\ z > y
        BY <2>4, <4>1, <4>2
      <4>4. x + d <= z
        BY <4>3
      <4> QED BY <4>2, <4>4
    <3> QED BY <3>1, <3>2
  <2> QED BY <2>2, <2>7, <2>8
<1>3. s[a].t <= s[b].t /\ s[a].id + (b - a) <= s[b].id
  BY <1>2
<1> QED BY <1>1, <1>3

LEMMA PlanPeriods == ASSUME NEW i \in 1 .. Len(Plan)
                     PROVE /\ Plan[i].symbol \in {Symbols[k] : k \in DOMAIN Symbols}
                           /\ Plan[i].period \in 0 .. Months - 1
<1>1. PICK q \in Nat, r \in 0 .. Width - 1 :
        i - 1 = Width * q + r /\ Width * q \in Int /\ Plan[i].symbol = Symbols[r + 1] /\ Plan[i].period = q
  BY PlanAt
<1>2. r + 1 \in DOMAIN Symbols
  BY PlanAssumption, WidthType DEF Width
<1>3. q < Months
  <2>1. CASE q >= Months
    <3>1. q = Months \/ Width * q >= Width * Months + Width
      BY <2>1, Quotients, WidthType
    <3>2. Width * Months = Months * Width /\ Width * Months \in Int
      BY WidthType
    <3> QED BY <1>1, <3>1, <3>2, WidthType
  <2> QED BY <2>1, WidthType
<1> QED BY <1>1, <1>2, <1>3, WidthType

LEMMA MonthType ==
    ASSUME NEW f \in DOMAIN Feeds, NEW symbol \in {Symbols[k] : k \in DOMAIN Symbols},
           NEW period \in 0 .. Months - 1
    PROVE  /\ MonthTrades(f, symbol, period) \in Seq(Trade)
           /\ \A k \in 1 .. Len(MonthTrades(f, symbol, period)) :
                /\ PeriodStart(period) <= MonthTrades(f, symbol, period)[k].t
                /\ MonthTrades(f, symbol, period)[k].t < PeriodEnd(period)
<1> DEFINE file == Feeds[f].month[symbol][period]
           start == PeriodStart(period)
           end == PeriodEnd(period)
           got == MonthTrades(f, symbol, period)
<1>1. <<>> \in Seq(Trade) /\ Len(<<>>) = 0
  OBVIOUS
<1>2. got = Loaded(file, start, end)
  BY DEF MonthTrades
<1>3. file.trades \in Seq(Trade)
  BY FeedAssumption
<1> HIDE DEF file, start, end, got
<1>4. \/ got = <<>>
      \/ /\ got = file.trades
         /\ \A k \in DOMAIN file.trades : start <= file.trades[k].t /\ file.trades[k].t < end
  BY <1>2 DEF Loaded
<1>5. /\ got \in Seq(Trade)
      /\ \A k \in 1 .. Len(got) : start <= got[k].t /\ got[k].t < end
  <2>1. CASE got = <<>>
    BY <1>1, <2>1
  <2>2. CASE got # <<>>
    BY <1>3, <1>4, <2>2
  <2> QED BY <2>1, <2>2
<1> QED BY <1>5 DEF start, end, got

LEMMA TradesType ==
    ASSUME NEW f \in DOMAIN Feeds, NEW i \in 1 .. Len(Plan)
    PROVE  /\ Trades(f, i) \in Seq(Trade)
           /\ \A k \in 1 .. Len(Trades(f, i)) :
                PeriodStart(Plan[i].period) <= Trades(f, i)[k].t /\ Trades(f, i)[k].t < PeriodEnd(Plan[i].period)
BY PlanPeriods, MonthType DEF Trades

----------------------------------------------------------------------------
(* The inductive invariant.                                                 *)

PriorAt(f, i) ==
  IF Plan[i].period = 0 THEN <<>>
  ELSE <<Last(MonthTrades(f, Plan[i].symbol, Plan[i].period - 1))>>

BatchAt(f, i) == ExtractBatch(Feeds[f], i, PriorAt(f, i))

Priors(f) == {<<>>} \cup {<<Last(MonthTrades(f, Plan[j].symbol, Plan[j].period))>> : j \in 1 .. Len(Plan)}

Extracted(f) == {ExtractBatch(Feeds[f], i, p) : i \in 1 .. Len(Plan), p \in Priors(f)}

Places == {"off", "failed", "killed", "done", "run", "take", "append", "insert"}
Busy == {"run", "take", "append", "insert"}

CollectorType(f) ==
  [pc : Places, next : Nat, last : Nat, parallel : BOOLEAN,
   priors : Seq(Priors(f)), batch : Extracted(f) \cup {NoBatch}]

ScriptPlaces == {"off", "next", "prepare", "launch", "wait", "failed", "done", "killed"}

ScriptType == [pc : ScriptPlaces, before : Nat, group : Nat, child : SUBSET Collectors]

CollectionType ==
  /\ rows \in Seq(Extracted(feed))
  /\ collector \in [Collectors -> CollectorType(feed)]
  /\ script \in [Recoverers -> ScriptType]

(* The rows are what the plan and the archives say.                          *)
Replayed(f, done) ==
  /\ Len(done) <= Len(Plan)
  /\ \A i \in 1 .. Len(done) : done[i] = BatchAt(f, i) /\ done[i] # Raised

(* A collector with work in hand is at most one batch ahead of the ledger;   *)
(* it holds the trades of one month's batches, and whatever of these is not  *)
(* yet in the ledger it would extract as an undisturbed pass does.           *)
PriorIsRead(f, length, mine, k) ==
  LET i == mine.next + k - 1
  IN /\ i <= mine.last /\ Plan[i].period = Plan[mine.next].period
     /\ length < i => mine.priors[k] = PriorAt(f, i)

Honest(f, length, mine) ==
  mine.pc \in Busy =>
    /\ 1 <= mine.next /\ mine.next <= length + 1 /\ mine.last <= Len(Plan)
    /\ \A k \in 1 .. Len(mine.priors) : PriorIsRead(f, length, mine, k)
    /\ mine.pc # "run" => mine.priors # <<>>
    /\ mine.pc \in {"append", "insert"} =>
         mine.batch = ExtractBatch(Feeds[f], mine.next, Head(mine.priors)) /\ mine.batch # Raised

CollectionInv ==
  /\ CollectionType
  /\ Replayed(feed, rows)
  /\ \A c \in Collectors : Honest(feed, Len(rows), collector[c])

----------------------------------------------------------------------------
LEMMA RowIs ==
    ASSUME NEW f, NEW done, Replayed(f, done), NEW i \in 1 .. Len(done), Len(done) \in Nat
    PROVE  /\ done[i].symbol = Plan[i].symbol
           /\ done[i].lastTrade = Last(MonthTrades(f, Plan[i].symbol, Plan[i].period))
           /\ i \in 1 .. Len(Plan)
<1>1. done[i] = ExtractBatch(Feeds[f], i, PriorAt(f, i)) /\ done[i] # Raised
  BY DEF Replayed, BatchAt
<1>2. i \in 1 .. Len(Plan)
  BY WidthType DEF Replayed
<1>3. ExtractBatch(Feeds[f], i, PriorAt(f, i)) # Raised
  BY <1>1
<1> QED BY <1>1, <1>2, <1>3, ExtractionKeeps DEF MonthTrades

LEMMA MaxIs == ASSUME NEW S, NEW m \in S, \A n \in S : m >= n, S \subseteq Int
               PROVE Max(S) = m
<1>1. \A y \in S : (\A n \in S : y >= n) => y = m
  BY DEF Max
<1> QED BY <1>1 DEF Max

(* What last_trade(symbol) answers for a batch that is not yet written while *)
(* the ledger has reached its month.                                         *)
LEMMA LastTradeIsPrior ==
    ASSUME NEW f, NEW done, Replayed(f, done), Len(done) \in Nat, DOMAIN done = 1 .. Len(done),
           NEW i \in 1 .. Len(Plan), NEW n \in 1 .. Len(Plan), n <= i, n <= Len(done) + 1,
           Len(done) < i, Plan[i].period = Plan[n].period
    PROVE  LastTrade(done, Plan[i].symbol) = PriorAt(f, i)
<1> DEFINE mine == {j \in DOMAIN done : done[j].symbol = Plan[i].symbol}
<1>1. ASSUME NEW j \in mine
      PROVE  j \in 1 .. Len(Plan) /\ j < i /\ Plan[j].symbol = Plan[i].symbol
  BY <1>1, RowIs, WidthType
<1>2. ASSUME NEW j \in mine
      PROVE  j <= i - Width /\ Plan[i].period > 0
  BY <1>1, OneSymbol
<1>3. CASE Plan[i].period = 0
  <2>1. mine = {}
    BY <1>2, <1>3
  <2> QED BY <1>3, <2>1 DEF LastTrade, PriorAt
<1>4. CASE Plan[i].period # 0
  <2> DEFINE h == i - Width
  <2>1. Plan[i].period \in Nat
    BY PeriodsAscend
  <2>2. /\ h \in 1 .. Len(Plan) /\ h < i
        /\ Plan[h].symbol = Plan[i].symbol /\ Plan[h].period = Plan[i].period - 1
    BY <1>4, <2>1, MonthBefore
  <2>3. h < n
    <3>1. CASE n <= h
      <4> HIDE DEF h
      <4>1. Plan[n].period <= Plan[h].period
        BY <2>2, <3>1, PeriodsAscend
      <4> QED BY <2>1, <2>2, <4>1
    <3> QED BY <2>2, <3>1, WidthType
  <2>4. h \in 1 .. Len(done)
    BY <2>2, <2>3, WidthType
  <2>5. h \in mine /\ done[h].lastTrade = Last(MonthTrades(f, Plan[h].symbol, Plan[h].period))
    <3> HIDE DEF h
    <3> QED BY <2>2, <2>4, RowIs
  <2>6. \A j \in mine : h >= j
    BY <1>1, <1>2, WidthType
  <2>7. Max(mine) = h
    <3>1. mine \subseteq Int
      OBVIOUS
    <3> HIDE DEF h, mine
    <3> QED BY <2>5, <2>6, <3>1, MaxIs
  <2>8. LastTrade(done, Plan[i].symbol) = <<done[h].lastTrade>>
    BY <2>5, <2>7 DEF LastTrade
  <2>9. PriorAt(f, i) = <<Last(MonthTrades(f, Plan[i].symbol, Plan[i].period - 1))>>
    BY <1>4 DEF PriorAt
  <2> HIDE DEF h
  <2> QED BY <2>2, <2>5, <2>8, <2>9
<1> QED BY <1>3, <1>4

LEMMA LastTradeType ==
    ASSUME NEW f, NEW done, Replayed(f, done), Len(done) \in Nat, DOMAIN done = 1 .. Len(done),
           NEW symbol
    PROVE  LastTrade(done, symbol) \in Priors(f)
<1> DEFINE mine == {j \in DOMAIN done : done[j].symbol = symbol}
<1>1. CASE mine = {}
  BY <1>1 DEF LastTrade, Priors
<1>2. CASE mine # {}
  <2>1. Max(mine) \in mine
    <3>1. mine \in SUBSET (1 .. Len(done))
      OBVIOUS
    <3> HIDE DEF mine
    <3> QED BY <1>2, <3>1, MaxIsIn
  <2>2. PICK m \in 1 .. Len(done) : LastTrade(done, symbol) = <<done[m].lastTrade>>
    BY <1>2, <2>1 DEF LastTrade
  <2>3. done[m].lastTrade = Last(MonthTrades(f, Plan[m].symbol, Plan[m].period)) /\ m \in 1 .. Len(Plan)
    BY RowIs
  <2> QED BY <2>2, <2>3 DEF Priors
<1> QED BY <1>1, <1>2

----------------------------------------------------------------------------
(* What a step does to a collector keeps it honest.                         *)

LEMMA HonestLater ==
    ASSUME NEW f, NEW n \in Nat, NEW mine, mine.next \in Nat, mine.priors \in Seq(Priors(f)),
           Honest(f, n, mine)
    PROVE  Honest(f, n + 1, mine)
<1>1. ASSUME NEW k \in 1 .. Len(mine.priors), PriorIsRead(f, n, mine, k)
      PROVE  PriorIsRead(f, n + 1, mine, k)
  BY <1>1 DEF PriorIsRead
<1> QED BY <1>1 DEF Honest, Busy

LEMMA NotBusyIsHonest ==
    ASSUME NEW f, NEW n, NEW mine, mine.pc \notin Busy
    PROVE  Honest(f, n, mine)
  BY DEF Honest

LEMMA PriorsAreSeqs == ASSUME NEW f, NEW priors \in Seq(Priors(f)), priors # <<>>
                       PROVE Len(priors) \in Nat /\ Len(priors) >= 1 /\ Head(priors) = priors[1]
                             /\ Head(priors) \in Priors(f)
  OBVIOUS

LEMMA TailShifts == ASSUME NEW f, NEW priors \in Seq(Priors(f)), priors # <<>>
                    PROVE /\ Tail(priors) \in Seq(Priors(f)) /\ Len(Tail(priors)) = Len(priors) - 1
                          /\ \A k \in 1 .. Len(priors) - 1 : Tail(priors)[k] = priors[k + 1]
  OBVIOUS

LEMMA AdvancedIs ==
    ASSUME NEW f, NEW mine \in CollectorType(f), mine.priors # <<>>
    PROVE  LET then == Advanced(mine)
           IN /\ then.next = mine.next + 1 /\ then.last = mine.last /\ then.priors = Tail(mine.priors)
              /\ then.pc = (IF Len(mine.priors) = 1 THEN "run" ELSE "take")
              /\ then \in CollectorType(f)
              /\ then.pc # "run" => then.priors # <<>>
<1> DEFINE then == Advanced(mine)
           p == mine.priors
           place == IF Len(p) = 1 THEN "run" ELSE "take"
<1>1. p \in Seq(Priors(f)) /\ p # <<>>
  BY DEF CollectorType
<1>2. /\ Tail(p) \in Seq(Priors(f)) /\ Len(Tail(p)) = Len(p) - 1 /\ Len(p) \in Nat /\ Len(p) >= 1
  <2> HIDE DEF p
  <2> QED BY <1>1
<1>3. place = "run" \/ (place = "take" /\ Len(p) # 1)
  OBVIOUS
<1>4. Len(p) # 1 => Tail(p) # <<>>
  <2> HIDE DEF p
  <2>1. PICK rest : rest = Tail(p)
    OBVIOUS
  <2>2. Len(rest) = Len(p) - 1 /\ Len(p) \in Nat
    BY <1>2, <2>1
  <2>3. rest = <<>> => Len(rest) = 0
    OBVIOUS
  <2>4. PICK n : n = Len(p)
    OBVIOUS
  <2>5. rest = <<>> => n = 1
    BY <2>2, <2>3, <2>4
  <2> QED BY <2>1, <2>4, <2>5
<1>5. then = [mine EXCEPT !.next = mine.next + 1, !.priors = Tail(p), !.batch = NoBatch, !.pc = place]
  BY DEF Advanced
<1>6. place \in Places /\ Tail(p) \in Seq(Priors(f)) /\ mine.next + 1 \in Nat
  BY <1>2, <1>3 DEF Places, CollectorType
<1>7. /\ then.next = mine.next + 1 /\ then.last = mine.last /\ then.priors = Tail(p)
      /\ then.pc = place /\ then \in CollectorType(f)
  <2> HIDE DEF then, p, place
  <2> QED BY <1>5, <1>6 DEF CollectorType
<1> QED BY <1>3, <1>4, <1>7

LEMMA AdvancedIsHonest ==
    ASSUME NEW f, NEW n \in Nat, NEW mine \in CollectorType(f), mine.pc \in {"append", "insert"},
           Honest(f, n, mine), mine.next <= n
    PROVE  Honest(f, n, Advanced(mine)) /\ Advanced(mine) \in CollectorType(f)
<1> DEFINE then == Advanced(mine)
<1>0. /\ mine.next \in Nat /\ mine.last \in Nat /\ mine.priors \in Seq(Priors(f))
      /\ mine.priors # <<>> /\ 1 <= mine.next /\ mine.last <= Len(Plan)
      /\ \A k \in 1 .. Len(mine.priors) : PriorIsRead(f, n, mine, k)
  BY DEF Honest, CollectorType, Busy
<1>1. /\ then.next = mine.next + 1 /\ then.last = mine.last /\ then.priors = Tail(mine.priors)
      /\ then.pc = (IF Len(mine.priors) = 1 THEN "run" ELSE "take")
      /\ then \in CollectorType(f)
      /\ then.pc # "run" => then.priors # <<>>
  BY <1>0, AdvancedIs
<1>2. ASSUME NEW k \in 1 .. Len(then.priors) PROVE PriorIsRead(f, n, then, k)
  <2>1. /\ k \in Nat /\ k + 1 \in 1 .. Len(mine.priors) /\ Len(mine.priors) \in Nat
        /\ then.priors[k] = mine.priors[k + 1] /\ 2 \in 1 .. Len(mine.priors)
    BY <1>0, <1>1, TailShifts
  <2>2. mine.next + (k + 1) - 1 = then.next + k - 1 /\ mine.next + 2 - 1 = then.next
    BY <1>0, <1>1, <2>1
  <2>3. PriorIsRead(f, n, mine, k + 1) /\ PriorIsRead(f, n, mine, 2)
    BY <1>0, <2>1
  <2> HIDE DEF then
  <2> QED BY <1>1, <2>1, <2>2, <2>3 DEF PriorIsRead
<1>4. Honest(f, n, then)
  <2> HIDE DEF then
  <2> QED BY <1>0, <1>1, <1>2 DEF Honest
<1> QED BY <1>1, <1>4

----------------------------------------------------------------------------
(* Steps that change one collector, or none, and leave the ledger alone.    *)

LEMMA LedgerShape == ASSUME CollectionInv
                     PROVE  Len(rows) \in Nat /\ DOMAIN rows = 1 .. Len(rows)
  BY DEF CollectionInv, CollectionType

LEMMA CollectorMoves ==
    ASSUME CollectionInv, NEW c \in Collectors, NEW then \in CollectorType(feed),
           Honest(feed, Len(rows), then),
           collector' = [collector EXCEPT ![c] = then], rows' = rows, feed' = feed,
           script' \in [Recoverers -> ScriptType]
    PROVE  CollectionInv'
<1>1. CollectionType'
  BY DEF CollectionInv, CollectionType
<1>2. Replayed(feed, rows)'
  BY DEF CollectionInv
<1>3. ASSUME NEW d \in Collectors PROVE Honest(feed, Len(rows), collector[d])'
  <2>1. collector'[d] = IF d = c THEN then ELSE collector[d]
    BY DEF CollectionInv, CollectionType
  <2>2. Honest(feed, Len(rows), collector'[d])
    BY <2>1 DEF CollectionInv
  <2> QED BY <2>2
<1> QED BY <1>1, <1>2, <1>3 DEF CollectionInv

LEMMA ScriptMoves ==
    ASSUME CollectionInv, UNCHANGED <<feed, rows, collector>>, script' \in [Recoverers -> ScriptType]
    PROVE  CollectionInv'
  BY DEF CollectionInv, CollectionType

LEMMA IdleType == ASSUME NEW f PROVE Idle \in CollectorType(f)
<1>1. <<>> \in Seq(Priors(f))
  OBVIOUS
<1> QED BY <1>1 DEF Idle, CollectorType, Places

LEMMA IdleIs == ASSUME NEW f, NEW n, NEW pc \in {"off", "failed", "killed", "done"}
                PROVE  /\ [Idle EXCEPT !.pc = pc] \in CollectorType(f)
                       /\ Honest(f, n, [Idle EXCEPT !.pc = pc])
<1> DEFINE then == [Idle EXCEPT !.pc = pc]
<1>1. then.pc = pc /\ then \in CollectorType(f)
  BY IdleType DEF CollectorType, Places
<1>2. Honest(f, n, then)
  <2> HIDE DEF then
  <2> QED BY <1>1 DEF Honest, Busy
<1> QED BY <1>1, <1>2

(* A collector that has opened the ledger.                                   *)
Opening(next, last, parallel) ==
  [Idle EXCEPT !.pc = "run", !.next = next, !.last = last, !.parallel = parallel]

LEMMA OpenedIs ==
    ASSUME NEW f, NEW next \in Nat, NEW last \in Nat, NEW parallel \in BOOLEAN
    PROVE  /\ Opening(next, last, parallel).pc = "run" /\ Opening(next, last, parallel).next = next
           /\ Opening(next, last, parallel).last = last /\ Opening(next, last, parallel).priors = <<>>
           /\ Opening(next, last, parallel) \in CollectorType(f)
<1>1. Idle.priors = <<>>
  BY DEF Idle
<1> QED BY <1>1, IdleType DEF CollectorType, Places, Opening

LEMMA StopsClean ==
    ASSUME CollectionInv, NEW c \in Collectors, NEW pc \in {"off", "failed", "killed", "done"},
           collector' = [collector EXCEPT ![c] = [Idle EXCEPT !.pc = pc]],
           UNCHANGED <<feed, rows, script>>
    PROVE  CollectionInv'
  BY IdleIs, CollectorMoves DEF CollectionInv, CollectionType

LEMMA OpenedKeeps ==
    ASSUME CollectionInv, NEW c \in Collectors, NEW limit \in Nat, NEW parallel \in BOOLEAN,
           Opened(c, limit, parallel), rows' = rows, feed' = feed,
           script' \in [Recoverers -> ScriptType]
    PROVE  CollectionInv'
<1>1. CASE Verifies(rows, FALSE)
  <2> DEFINE then == Opening(Len(rows) + 1, LastPending(limit), parallel)
  <2>1. collector' = [collector EXCEPT ![c] = then]
    BY <1>1 DEF Opened, Opening
  <2>2. /\ Len(rows) \in Nat /\ LastPending(limit) \in Nat /\ LastPending(limit) <= Len(Plan)
        /\ <<>> \in Seq(Priors(feed)) /\ Len(<<>>) = 0
    BY LedgerShape, WidthType DEF LastPending
  <2>3. /\ then.pc = "run" /\ then.next = Len(rows) + 1 /\ then.last = LastPending(limit)
        /\ then.priors = <<>> /\ then \in CollectorType(feed)
    <3>1. Len(rows) + 1 \in Nat
      BY <2>2
    <3> QED BY <2>2, <3>1, OpenedIs
  <2> HIDE DEF then
  <2>5. Honest(feed, Len(rows), then)
    BY <2>2, <2>3 DEF Honest
  <2> QED BY <2>1, <2>3, <2>5, CollectorMoves
<1>2. CASE ~Verifies(rows, FALSE)
  <2>1. collector' = [collector EXCEPT ![c] = [Idle EXCEPT !.pc = "failed"]]
    BY <1>2 DEF Opened
  <2> QED BY <2>1, IdleIs, CollectorMoves
<1> QED BY <1>1, <1>2

----------------------------------------------------------------------------
LEMMA SubmitKeeps == ASSUME CollectionInv, NEW c \in Collectors, Submit(c) PROVE CollectionInv'
<1> DEFINE mine == collector[c]
           i == mine.next + Len(mine.priors)
           prior == LastTrade(rows, Plan[i].symbol)
           place == IF i + 1 \in MonthGroup(c) THEN "run" ELSE "take"
           then == [mine EXCEPT !.priors = Append(mine.priors, prior), !.pc = place]
<1>1. /\ mine \in CollectorType(feed) /\ Honest(feed, Len(rows), mine) /\ mine.pc = "run"
      /\ mine.next <= mine.last /\ i \in MonthGroup(c) /\ UNCHANGED <<feed, rows, script>>
      /\ collector' = [collector EXCEPT ![c].priors = Append(mine.priors, prior), ![c].pc = place]
  BY DEF Submit, CollectionInv, CollectionType
<1>2. collector' = [collector EXCEPT ![c] = then]
  <2> HIDE DEF i, prior, place
  <2> QED BY <1>1 DEF CollectionInv, CollectionType, CollectorType
<1>3. /\ mine.next \in Nat /\ mine.last \in Nat /\ mine.priors \in Seq(Priors(feed))
      /\ 1 <= mine.next /\ mine.next <= Len(rows) + 1 /\ mine.last <= Len(Plan)
      /\ Len(mine.priors) \in Nat /\ mine.parallel \in BOOLEAN
      /\ \A k \in 1 .. Len(mine.priors) : PriorIsRead(feed, Len(rows), mine, k)
  <2> HIDE DEF mine
  <2> QED BY <1>1 DEF CollectorType, Honest, Busy
<1>4. i \in mine.next .. mine.last /\ Plan[i].period = Plan[mine.next].period
  <2> HIDE DEF i
  <2> QED BY <1>1, <1>3 DEF MonthGroup, SameMonth
<1>5. i \in 1 .. Len(Plan) /\ mine.next \in 1 .. Len(Plan) /\ mine.next <= i
  <2> HIDE DEF i, mine
  <2> QED BY <1>3, <1>4, WidthType
<1>6. Replayed(feed, rows) /\ Len(rows) \in Nat /\ DOMAIN rows = 1 .. Len(rows)
  BY LedgerShape DEF CollectionInv
<1>7. prior \in Priors(feed)
  BY <1>6, LastTradeType
<1>8. Len(rows) < i => prior = PriorAt(feed, i)
  <2> HIDE DEF i, mine
  <2> QED BY <1>3, <1>4, <1>5, <1>6, LastTradeIsPrior
<1>9. place \in {"run", "take"}
  OBVIOUS
<1> HIDE DEF mine, prior, place
<1>10. /\ then.next = mine.next /\ then.last = mine.last /\ then.pc = place
       /\ then.priors = Append(mine.priors, prior) /\ then \in CollectorType(feed)
  <2>1. Append(mine.priors, prior) \in Seq(Priors(feed))
    BY <1>3, <1>7
  <2> QED BY <1>1, <1>9, <2>1 DEF CollectorType, Places
<1>11. /\ Len(then.priors) = Len(mine.priors) + 1 /\ then.priors # <<>>
       /\ then.priors[Len(mine.priors) + 1] = prior
       /\ \A k \in 1 .. Len(mine.priors) : then.priors[k] = mine.priors[k]
  <2> HIDE DEF then
  <2> QED BY <1>3, <1>7, <1>10
<1> HIDE DEF then
<1>12. ASSUME NEW k \in 1 .. Len(then.priors) PROVE PriorIsRead(feed, Len(rows), then, k)
  <2>1. CASE k \in 1 .. Len(mine.priors)
    <3>1. PriorIsRead(feed, Len(rows), mine, k) /\ then.priors[k] = mine.priors[k]
      BY <1>3, <1>11, <2>1
    <3> QED BY <1>10, <3>1 DEF PriorIsRead
  <2>2. CASE k = Len(mine.priors) + 1
    <3>1. then.next + k - 1 = i /\ then.priors[k] = prior
      BY <1>3, <1>10, <1>11, <2>2
    <3> HIDE DEF i
    <3> QED BY <1>4, <1>5, <1>8, <1>10, <3>1 DEF PriorIsRead
  <2> QED BY <1>3, <1>11, <2>1, <2>2
<1>13. Honest(feed, Len(rows), then)
  BY <1>3, <1>9, <1>10, <1>11, <1>12 DEF Honest
<1>14. script' \in [Recoverers -> ScriptType]
  BY <1>1 DEF CollectionInv, CollectionType
<1> QED BY <1>1, <1>2, <1>10, <1>13, <1>14, CollectorMoves

LEMMA TakeKeeps == ASSUME CollectionInv, NEW c \in Collectors, Take(c) PROVE CollectionInv'
<1> DEFINE mine == collector[c]
           batch == Extraction(c)
           then == [mine EXCEPT !.pc = "append", !.batch = batch]
<1>1. CASE batch = Raised
  <2>1. /\ collector' = [collector EXCEPT ![c] = [Idle EXCEPT !.pc = "failed"]]
        /\ UNCHANGED <<feed, rows, script>>
    BY <1>1 DEF Take, Failed
  <2> QED BY <2>1, StopsClean
<1>2. CASE batch # Raised
  <2>1. /\ mine \in CollectorType(feed) /\ Honest(feed, Len(rows), mine) /\ mine.pc = "take"
        /\ UNCHANGED <<feed, rows, script>>
        /\ collector' = [collector EXCEPT ![c].pc = "append", ![c].batch = batch]
    BY <1>2 DEF Take, CollectionInv, CollectionType
  <2>2. collector' = [collector EXCEPT ![c] = then]
    <3> HIDE DEF batch
    <3> QED BY <2>1 DEF CollectionInv, CollectionType, CollectorType
  <2>3. batch = ExtractBatch(Feeds[feed], mine.next, Head(mine.priors))
    BY DEF Extraction
  <2> HIDE DEF mine
  <2>4. /\ mine.next \in Nat /\ mine.last \in Nat /\ mine.priors \in Seq(Priors(feed))
        /\ 1 <= mine.next /\ mine.next <= Len(rows) + 1 /\ mine.last <= Len(Plan)
        /\ mine.priors # <<>>
        /\ \A k \in 1 .. Len(mine.priors) : PriorIsRead(feed, Len(rows), mine, k)
    BY <2>1 DEF CollectorType, Honest, Busy
  <2>5. Head(mine.priors) \in Priors(feed) /\ Len(mine.priors) >= 1 /\ Len(mine.priors) \in Nat
    BY <2>4, PriorsAreSeqs
  <2>6. mine.next \in 1 .. Len(Plan)
    <3>1. PriorIsRead(feed, Len(rows), mine, 1)
      BY <2>4, <2>5
    <3>2. mine.next + 1 - 1 = mine.next
      BY <2>4
    <3>3. mine.next <= mine.last
      BY <3>1, <3>2 DEF PriorIsRead
    <3> QED BY <2>4, <3>3, WidthType
  <2>7. batch \in Extracted(feed)
    BY <2>3, <2>5, <2>6 DEF Extracted
  <2> HIDE DEF batch
  <2>8. /\ then.next = mine.next /\ then.last = mine.last /\ then.pc = "append"
        /\ then.priors = mine.priors /\ then.batch = batch /\ then \in CollectorType(feed)
    BY <2>1, <2>7 DEF CollectorType, Places
  <2> HIDE DEF then
  <2>9. ASSUME NEW k \in 1 .. Len(then.priors) PROVE PriorIsRead(feed, Len(rows), then, k)
    BY <2>4, <2>8 DEF PriorIsRead
  <2>10. Honest(feed, Len(rows), then)
    BY <1>2, <2>3, <2>4, <2>8, <2>9 DEF Honest
  <2>11. script' \in [Recoverers -> ScriptType]
    BY <2>1 DEF CollectionInv, CollectionType
  <2> QED BY <2>1, <2>2, <2>8, <2>10, <2>11, CollectorMoves
<1> QED BY <1>1, <1>2

LEMMA CheckKeeps == ASSUME CollectionInv, NEW c \in Collectors, Check(c) PROVE CollectionInv'
<1> DEFINE mine == collector[c]
           then == [mine EXCEPT !.pc = "insert"]
<1>1. /\ mine \in CollectorType(feed) /\ Honest(feed, Len(rows), mine) /\ mine.pc = "append"
      /\ UNCHANGED <<feed, rows, script>> /\ script' \in [Recoverers -> ScriptType]
      /\ Len(rows) \in Nat
  BY LedgerShape DEF Check, CollectionInv, CollectionType
<1>2. CASE Failed(c)
  BY <1>1, <1>2, StopsClean DEF Failed
<1>3. CASE collector' = [collector EXCEPT ![c] = Advanced(mine)] /\ mine.next <= Len(rows)
  <2>1. Honest(feed, Len(rows), Advanced(mine)) /\ Advanced(mine) \in CollectorType(feed)
    <3> HIDE DEF mine
    <3> QED BY <1>1, <1>3, AdvancedIsHonest
  <2> HIDE DEF mine
  <2> QED BY <1>1, <1>3, <2>1, CollectorMoves
<1>4. CASE collector' = [collector EXCEPT ![c].pc = "insert"]
  <2>1. collector' = [collector EXCEPT ![c] = then]
    BY <1>4 DEF CollectionInv, CollectionType, CollectorType
  <2> HIDE DEF mine
  <2>2. /\ then.next = mine.next /\ then.last = mine.last /\ then.pc = "insert"
        /\ then.priors = mine.priors /\ then.batch = mine.batch /\ then \in CollectorType(feed)
    BY <1>1 DEF CollectorType, Places
  <2> HIDE DEF then
  <2>3. ASSUME NEW k \in 1 .. Len(then.priors), PriorIsRead(feed, Len(rows), mine, k)
        PROVE  PriorIsRead(feed, Len(rows), then, k)
    BY <2>2, <2>3 DEF PriorIsRead
  <2>4. Honest(feed, Len(rows), then)
    BY <1>1, <2>2, <2>3 DEF Honest, Busy
  <2> QED BY <1>1, <2>1, <2>2, <2>4, CollectorMoves
<1>5. \/ Failed(c)
      \/ collector' = [collector EXCEPT ![c] = Advanced(mine)] /\ mine.next <= Len(rows)
      \/ collector' = [collector EXCEPT ![c].pc = "insert"]
  BY DEF Check
<1> QED BY <1>2, <1>3, <1>4, <1>5

LEMMA InsertKeeps == ASSUME CollectionInv, NEW c \in Collectors, Insert(c) PROVE CollectionInv'
<1> DEFINE mine == collector[c]
<1>1. /\ mine \in CollectorType(feed) /\ Honest(feed, Len(rows), mine) /\ mine.pc = "insert"
      /\ UNCHANGED <<feed, script>> /\ script' \in [Recoverers -> ScriptType]
      /\ Len(rows) \in Nat /\ DOMAIN rows = 1 .. Len(rows) /\ Replayed(feed, rows)
  BY LedgerShape DEF Insert, CollectionInv, CollectionType
<1>2. CASE ~KeyIsFree(mine.next)
  BY <1>1, <1>2, StopsClean DEF Failed, Insert
<1>3. CASE KeyIsFree(mine.next)
  <2>1. /\ rows' = Append(rows, mine.batch)
        /\ collector' = [collector EXCEPT ![c] = Advanced(mine)]
        /\ mine.next > Len(rows)
    BY <1>3 DEF Insert, KeyIsFree
  <2> DEFINE n == Len(rows)
  <2>2. /\ mine.next \in Nat /\ mine.last \in Nat /\ mine.priors \in Seq(Priors(feed))
        /\ mine.priors # <<>> /\ mine.next <= n + 1 /\ mine.last <= Len(Plan)
        /\ \A k \in 1 .. Len(mine.priors) : PriorIsRead(feed, n, mine, k)
        /\ mine.batch = ExtractBatch(Feeds[feed], mine.next, Head(mine.priors))
        /\ mine.batch # Raised
    <3> HIDE DEF mine, n
    <3>1. Honest(feed, n, mine)
      BY <1>1 DEF n
    <3> QED BY <1>1, <3>1 DEF CollectorType, Honest, Busy
  <2> HIDE DEF mine
  <2>3. mine.next = n + 1
    BY <1>1, <2>1, <2>2
  <2>4. Len(mine.priors) >= 1 /\ Len(mine.priors) \in Nat /\ Head(mine.priors) = mine.priors[1]
        /\ Head(mine.priors) \in Priors(feed)
    BY <2>2, PriorsAreSeqs
  <2>5. mine.next <= mine.last /\ mine.priors[1] = PriorAt(feed, mine.next)
    <3>1. PriorIsRead(feed, n, mine, 1)
      BY <2>2, <2>4
    <3>2. mine.next + 1 - 1 = mine.next /\ n < mine.next
      BY <1>1, <2>2, <2>3
    <3> HIDE DEF n
    <3> QED BY <3>1, <3>2 DEF PriorIsRead
  <2>6. n + 1 \in 1 .. Len(Plan)
    BY <1>1, <2>2, <2>3, <2>5, WidthType
  <2>7. mine.batch = BatchAt(feed, n + 1) /\ mine.batch \in Extracted(feed)
    BY <2>2, <2>3, <2>4, <2>5, <2>6 DEF BatchAt, Extracted
  <2>8. /\ rows' \in Seq(Extracted(feed)) /\ Len(rows') = n + 1 /\ rows'[n + 1] = mine.batch
        /\ \A i \in 1 .. n : rows'[i] = rows[i]
    BY <2>1, <2>7 DEF CollectionInv, CollectionType
  <2>9. Replayed(feed, rows')
    <3>1. n + 1 <= Len(Plan)
      BY <2>6, WidthType
    <3>2. ASSUME NEW i \in 1 .. n + 1 PROVE rows'[i] = BatchAt(feed, i) /\ rows'[i] # Raised
      <4>1. CASE i \in 1 .. n
        BY <1>1, <2>8, <4>1 DEF Replayed
      <4>2. CASE i = n + 1
        BY <2>2, <2>7, <2>8, <4>2
      <4> QED BY <1>1, <4>1, <4>2
    <3> HIDE DEF n
    <3> QED BY <2>8, <3>1, <3>2 DEF Replayed
  <2>10. Honest(feed, n + 1, Advanced(mine)) /\ Advanced(mine) \in CollectorType(feed)
    <3>1. Honest(feed, n + 1, mine)
      BY <1>1, <2>2, HonestLater
    <3>2. n + 1 \in Nat /\ mine.next <= n + 1
      BY <1>1, <2>2
    <3> HIDE DEF n
    <3> QED BY <1>1, <3>1, <3>2, AdvancedIsHonest
  <2>11. CollectionType'
    BY <1>1, <2>1, <2>8, <2>10 DEF CollectionInv, CollectionType
  <2>12. ASSUME NEW d \in Collectors PROVE Honest(feed, Len(rows), collector[d])'
    <3>1. /\ collector'[d] = (IF d = c THEN Advanced(mine) ELSE collector[d])
          /\ collector[d] \in CollectorType(feed) /\ Honest(feed, n, collector[d])
      BY <2>1 DEF CollectionInv, CollectionType
    <3>2. collector[d].next \in Nat /\ collector[d].priors \in Seq(Priors(feed))
      BY <3>1 DEF CollectorType
    <3>3. Honest(feed, n + 1, collector[d])
      BY <1>1, <3>1, <3>2, HonestLater
    <3>4. Honest(feed, n + 1, collector'[d])
      BY <2>10, <3>1, <3>3
    <3> HIDE DEF n
    <3> QED BY <1>1, <2>8, <3>4
  <2> QED BY <1>1, <2>9, <2>11, <2>12 DEF CollectionInv
<1> QED BY <1>2, <1>3

----------------------------------------------------------------------------
LEMMA SameMonthSize == ASSUME NEW first \in Nat, NEW last \in Nat
                       PROVE Cardinality(SameMonth(first, last)) \in Nat
<1>1. IsFiniteSet(first .. last)
  BY FS_Interval
<1>2. IsFiniteSet(SameMonth(first, last))
  BY <1>1, FS_Subset DEF SameMonth
<1> QED BY <1>2, FS_CardinalityType

LEMMA ScriptTypeKept ==
    ASSUME NEW all \in [Recoverers -> ScriptType], NEW r \in Recoverers, NEW pc \in ScriptPlaces,
           NEW child \in SUBSET Collectors
    PROVE  /\ [all EXCEPT ![r].pc = pc] \in [Recoverers -> ScriptType]
           /\ [all EXCEPT ![r].pc = pc, ![r].child = child] \in [Recoverers -> ScriptType]
<1> DEFINE one == [all[r] EXCEPT !.pc = pc]
           two == [all[r] EXCEPT !.pc = pc, !.child = child]
<1>1. one \in ScriptType /\ two \in ScriptType
  BY DEF ScriptType
<1>2. /\ [all EXCEPT ![r].pc = pc] = [all EXCEPT ![r] = one]
      /\ [all EXCEPT ![r].pc = pc, ![r].child = child] = [all EXCEPT ![r] = two]
  BY DEF ScriptType
<1> HIDE DEF one, two
<1> QED BY <1>1, <1>2

LEMMA ScriptKeeps ==
    ASSUME CollectionInv, NEW r \in Recoverers,
           ScriptVerify(r) \/ ScriptNext(r) \/ ScriptPrepare(r) \/ ScriptCheck(r) \/ ScriptKill(r)
    PROVE  CollectionInv'
<1>1. /\ script \in [Recoverers -> ScriptType] /\ Len(rows) \in Nat
      /\ Cardinality(RemainingMonth) \in Nat
  <2>1. Len(rows) + 1 \in Nat /\ Len(Plan) \in Nat
    BY LedgerShape, WidthType
  <2> QED BY <2>1, LedgerShape, SameMonthSize DEF CollectionInv, CollectionType, RemainingMonth
<1>2. ASSUME NEW pc \in ScriptPlaces, Script(r, pc) PROVE script' \in [Recoverers -> ScriptType]
  BY <1>1, <1>2, ScriptTypeKept DEF Script
<1>3. ASSUME NEW pc \in ScriptPlaces, script' = [script EXCEPT ![r].pc = pc, ![r].child = {}]
      PROVE  script' \in [Recoverers -> ScriptType]
  <2>1. {} \in SUBSET Collectors
    OBVIOUS
  <2> QED BY <1>1, <1>3, <2>1, ScriptTypeKept
<1>4. script' \in [Recoverers -> ScriptType]
  <2>1. CASE ScriptVerify(r)
    <3>1. PICK pc \in ScriptPlaces : Script(r, pc)
      BY <2>1 DEF ScriptVerify, ScriptPlaces
    <3> QED BY <1>2, <3>1
  <2>2. CASE ScriptNext(r)
    <3>1. CASE ~Verifies(rows, FALSE) \/ RemainingMonth = {}
      <4>1. PICK pc \in ScriptPlaces : Script(r, pc)
        BY <2>2, <3>1 DEF ScriptNext, ScriptPlaces
      <4> QED BY <1>2, <4>1
    <3>2. CASE Verifies(rows, FALSE) /\ RemainingMonth # {}
      <4> DEFINE then == [pc |-> "prepare", before |-> Len(rows),
                          group |-> Cardinality(RemainingMonth), child |-> {}]
      <4>1. script' = [script EXCEPT ![r] = then]
        BY <2>2, <3>2 DEF ScriptNext
      <4>2. then \in ScriptType
        BY <1>1 DEF ScriptType, ScriptPlaces
      <4> HIDE DEF then
      <4> QED BY <1>1, <4>1, <4>2
    <3> QED BY <3>1, <3>2
  <2>3. CASE ScriptPrepare(r)
    <3>1. PICK pc \in ScriptPlaces : Script(r, pc)
      BY <2>3 DEF ScriptPrepare, ScriptPlaces
    <3> QED BY <1>2, <3>1
  <2>4. CASE ScriptCheck(r)
    <3>1. PICK pc \in ScriptPlaces : script' = [script EXCEPT ![r].child = {}, ![r].pc = pc]
      BY <2>4 DEF ScriptCheck, ScriptPlaces
    <3>2. [script EXCEPT ![r].child = {}, ![r].pc = pc] = [script EXCEPT ![r].pc = pc, ![r].child = {}]
      BY <1>1 DEF ScriptType
    <3> QED BY <1>3, <3>1, <3>2
  <2>5. CASE ScriptKill(r)
    <3>1. "killed" \in ScriptPlaces
      BY DEF ScriptPlaces
    <3> QED BY <1>3, <2>5, <3>1 DEF ScriptKill
  <2> QED BY <2>1, <2>2, <2>3, <2>4, <2>5
<1>5. UNCHANGED <<feed, rows, collector>>
  BY DEF ScriptVerify, ScriptNext, ScriptPrepare, ScriptCheck, ScriptKill
<1> QED BY <1>4, <1>5, ScriptMoves

LEMMA ScriptLaunchKeeps == ASSUME CollectionInv, NEW r \in Recoverers, ScriptLaunch(r)
                           PROVE  CollectionInv'
<1>1. PICK c \in Collectors, parallel \in BOOLEAN :
        /\ Opened(c, script[r].group, parallel)
        /\ script' = [script EXCEPT ![r].pc = "wait", ![r].child = {c}]
  BY DEF ScriptLaunch
<1>2. script \in [Recoverers -> ScriptType] /\ script[r].group \in Nat
  BY DEF CollectionInv, CollectionType, ScriptType
<1>3. script' \in [Recoverers -> ScriptType]
  <2>1. "wait" \in ScriptPlaces /\ {c} \in SUBSET Collectors
    BY DEF ScriptPlaces
  <2> QED BY <1>1, <1>2, <2>1, ScriptTypeKept
<1>4. rows' = rows /\ feed' = feed
  BY DEF ScriptLaunch
<1> QED BY <1>1, <1>2, <1>3, <1>4, OpenedKeeps

LEMMA StartKeeps == ASSUME CollectionInv, NEW c \in Collectors, Start(c) PROVE CollectionInv'
<1>1. PICK parallel \in BOOLEAN : Opened(c, Len(Plan), parallel)
  BY DEF Start
<1>2. rows' = rows /\ feed' = feed /\ script' \in [Recoverers -> ScriptType] /\ Len(Plan) \in Nat
  BY WidthType DEF Start, CollectionInv, CollectionType
<1> QED BY <1>1, <1>2, OpenedKeeps

LEMMA CollectionStarts == CollectionInit => CollectionInv
<1> SUFFICES ASSUME CollectionInit PROVE CollectionInv
  OBVIOUS
<1>1. rows = <<>> /\ Len(rows) = 0 /\ rows \in Seq(Extracted(feed))
  BY DEF CollectionInit
<1>2. ASSUME NEW c \in Collectors PROVE collector[c] = Idle /\ Idle \in CollectorType(feed)
  BY IdleType DEF CollectionInit
<1>3. ASSUME NEW c \in Collectors PROVE Honest(feed, Len(rows), collector[c])
  <2>1. collector[c].pc = "off"
    BY <1>2 DEF Idle
  <2> QED BY <2>1 DEF Honest, Busy
<1>4. CollectionType
  <2>1. [pc |-> "off", before |-> 0, group |-> 0, child |-> {}] \in ScriptType
    BY DEF ScriptType, ScriptPlaces
  <2>2. collector \in [Collectors -> CollectorType(feed)]
    BY IdleType DEF CollectionInit
  <2>3. script \in [Recoverers -> ScriptType]
    BY <2>1 DEF CollectionInit
  <2> QED BY <1>1, <2>2, <2>3 DEF CollectionType
<1>5. Replayed(feed, rows)
  BY <1>1, WidthType DEF Replayed
<1> QED BY <1>3, <1>4, <1>5 DEF CollectionInv

LEMMA CollectionStep == CollectionInv /\ [CollectionNext]_collectionVars => CollectionInv'
<1> SUFFICES ASSUME CollectionInv, [CollectionNext]_collectionVars PROVE CollectionInv'
  OBVIOUS
<1>1. CASE UNCHANGED collectionVars
  <2>1. UNCHANGED <<feed, rows, collector>> /\ script' \in [Recoverers -> ScriptType]
    BY <1>1 DEF collectionVars, CollectionInv, CollectionType
  <2> QED BY <2>1, ScriptMoves
<1>2. ASSUME NEW c \in Collectors, Start(c) PROVE CollectionInv'
  BY <1>2, StartKeeps
<1>3. ASSUME NEW c \in Collectors, Submit(c) PROVE CollectionInv'
  BY <1>3, SubmitKeeps
<1>4. ASSUME NEW c \in Collectors, Take(c) PROVE CollectionInv'
  BY <1>4, TakeKeeps
<1>5. ASSUME NEW c \in Collectors, Check(c) PROVE CollectionInv'
  BY <1>5, CheckKeeps
<1>6. ASSUME NEW c \in Collectors, Insert(c) PROVE CollectionInv'
  BY <1>6, InsertKeeps
<1>7. ASSUME NEW c \in Collectors, Finish(c) PROVE CollectionInv'
  <2>1. PICK pc \in {"off", "failed", "killed", "done"} :
          collector' = [collector EXCEPT ![c] = [Idle EXCEPT !.pc = pc]]
    BY <1>7 DEF Finish
  <2>2. UNCHANGED <<feed, rows, script>>
    BY <1>7 DEF Finish
  <2> QED BY <2>1, <2>2, StopsClean
<1>8. ASSUME NEW c \in Collectors, Kill(c) PROVE CollectionInv'
  BY <1>8, StopsClean DEF Kill
<1>9. ASSUME NEW r \in Recoverers, ScriptLaunch(r) PROVE CollectionInv'
  BY <1>9, ScriptLaunchKeeps
<1>10. ASSUME NEW r \in Recoverers,
             ScriptVerify(r) \/ ScriptNext(r) \/ ScriptPrepare(r) \/ ScriptCheck(r) \/ ScriptKill(r)
      PROVE  CollectionInv'
  BY <1>10, ScriptKeeps
<1> QED BY <1>1, <1>2, <1>3, <1>4, <1>5, <1>6, <1>7, <1>8, <1>9, <1>10
        DEF CollectionNext, CollectorStep, ScriptStep

(* Rows are inserted in the order of the plan, each with what its collector  *)
(* extracted behind the row before it, however collectors interleave and die.*)
THEOREM CollectionInvariant == CollectionSpec => []CollectionInv
<1> QED BY CollectionStarts, CollectionStep, PTL DEF CollectionSpec

(* The feature ledger is what one undisturbed pass over the archives writes. *)
THEOREM LedgerReplays == CollectionSpec => []LedgerIsReplay
<1>1. CollectionInv => LedgerIsReplay
  <2>1. ASSUME NEW i PROVE PriorAt(feed, i) = PriorOf(i)
    BY DEF PriorAt, PriorOf
  <2> QED BY <2>1, LedgerShape DEF CollectionInv, Replayed, BatchAt, LedgerIsReplay
<1> QED BY <1>1, CollectionInvariant, PTL

----------------------------------------------------------------------------
(* The calendar.                                                            *)

LEMMA Scales == ASSUME NEW a \in Nat, NEW b \in Nat, NEW c \in Nat, a <= b
                PROVE a * c <= b * c /\ a * c \in Nat /\ b * c \in Nat
<1>1. b * c = a * c + (b - a) * c
  OBVIOUS
<1>2. (b - a) * c >= 0
  OBVIOUS
<1>3. a * c \in Int /\ b * c \in Int /\ (b - a) * c \in Int /\ a * c >= 0
  OBVIOUS
<1> QED BY <1>1, <1>2, <1>3

LastTick == Months * MonthDays * Day

LEMMA PeriodsInside ==
    ASSUME NEW p \in 0 .. Months - 1
    PROVE  /\ PeriodStart(p) \in Nat /\ PeriodEnd(p) \in Nat /\ PeriodStart(p) < PeriodEnd(p)
           /\ PeriodEnd(p) = PeriodStart(p + 1)
           /\ PeriodEnd(p) <= LastTick /\ LastTick \in Nat /\ Months * MonthDays \in Nat
<1>1. p \in Nat /\ p + 1 \in Nat /\ Months \in Nat /\ MonthDays \in Nat /\ Day \in Nat /\ p + 1 <= Months
      /\ MonthDays > 0 /\ Day > 0
  BY PlanAssumption, GridAssumption
<1> DEFINE a == p * MonthDays
           b == (p + 1) * MonthDays
           c == Months * MonthDays
<1>2. a \in Nat /\ b \in Nat /\ c \in Nat /\ b <= c /\ b = a + MonthDays
  <2>1. a \in Nat
    BY <1>1
  <2>2. b <= c /\ b \in Nat /\ c \in Nat
    BY <1>1, Scales
  <2>3. b = a + MonthDays
    BY <1>1
  <2> QED BY <2>1, <2>2, <2>3
<1>3. /\ PeriodStart(p) = a * Day /\ PeriodEnd(p) = a * Day + MonthDays * Day
      /\ PeriodStart(p + 1) = b * Day /\ LastTick = c * Day
  BY DEF PeriodStart, PeriodEnd, LastTick
<1> HIDE DEF a, b, c
<1>4. b * Day = a * Day + MonthDays * Day /\ a * Day \in Nat /\ MonthDays * Day \in Nat /\ MonthDays * Day > 0
  BY <1>1, <1>2
<1>5. b * Day <= c * Day /\ b * Day \in Nat /\ c * Day \in Nat
  BY <1>1, <1>2, Scales
<1> QED BY <1>2, <1>3, <1>4, <1>5 DEF c

LEMMA DayOfIs ==
    ASSUME NEW t \in Nat
    PROVE  /\ DayOf(t) \in Nat
           /\ t < LastTick => DayOf(t) \in 0 .. Months * MonthDays - 1
           /\ \A d \in Nat : d * Day <= t /\ t < (d + 1) * Day => DayOf(t) = d
           /\ \A u \in Nat : t <= u => DayOf(t) <= DayOf(u)
<1>0. Day \in Nat /\ Day > 0 /\ Months * MonthDays \in Nat
  BY GridAssumption, PlanAssumption
<1>1. ASSUME NEW x \in Nat
      PROVE  \E q \in Nat, r \in 0 .. Day - 1 : DayOf(x) = q /\ x = Day * q + r /\ Day * q \in Int
  BY <1>0, DivMod DEF DayOf
<1>2. PICK q \in Nat, r \in 0 .. Day - 1 : DayOf(t) = q /\ t = Day * q + r /\ Day * q \in Int
  BY <1>1
<1>3. ASSUME NEW d \in Nat, d <= q, q # d PROVE d + 1 <= q
  BY <1>3
<1>4. ASSUME NEW d \in Nat, NEW e \in Nat, d < e PROVE Day * e >= Day * d + Day
  BY <1>0, <1>4, Quotients
<1>5. ASSUME t < LastTick PROVE DayOf(t) \in 0 .. Months * MonthDays - 1
  <2> DEFINE c == Months * MonthDays
  <2>1. LastTick = c * Day /\ c * Day = Day * c /\ Day * c \in Int
    BY <1>0 DEF LastTick
  <2> HIDE DEF c
  <2>2. c \in Nat
    BY <1>0 DEF c
  <2>3. CASE q >= c
    <3>1. q = c \/ Day * q >= Day * c + Day
      BY <1>4, <2>2, <2>3
    <3>2. Day * q >= Day * c
      BY <1>0, <1>2, <2>1, <3>1
    <3> QED BY <1>0, <1>2, <1>5, <2>1, <3>2
  <2>4. CASE q < c
    BY <1>2, <2>2, <2>4 DEF c
  <2> QED BY <2>2, <2>3, <2>4
<1>6. ASSUME NEW d \in Nat, d * Day <= t, t < (d + 1) * Day PROVE DayOf(t) = d
  <2>1. d * Day = Day * d /\ (d + 1) * Day = Day * d + Day /\ Day * d \in Int
    BY <1>0
  <2>2. CASE q < d
    <3>1. Day * d >= Day * q + Day
      BY <1>4, <2>2
    <3> QED BY <1>0, <1>2, <1>6, <2>1, <3>1
  <2>3. CASE d < q
    <3>1. Day * q >= Day * d + Day
      BY <1>4, <2>3
    <3> QED BY <1>0, <1>2, <1>6, <2>1, <3>1
  <2> QED BY <1>2, <2>2, <2>3
<1>7. ASSUME NEW u \in Nat, t <= u PROVE DayOf(t) <= DayOf(u)
  <2>1. PICK p \in Nat, s \in 0 .. Day - 1 : DayOf(u) = p /\ u = Day * p + s /\ Day * p \in Int
    BY <1>1
  <2>2. CASE p < q
    <3>1. Day * q >= Day * p + Day
      BY <1>4, <2>2
    <3> QED BY <1>0, <1>2, <1>7, <2>1, <3>1
  <2> QED BY <1>2, <2>1, <2>2
<1> QED BY <1>2, <1>5, <1>6, <1>7

----------------------------------------------------------------------------
(* The trades a row was extracted from.                                     *)

Passed(f, i) == Scanned(PriorAt(f, i), Trades(f, i))

LEMMA RowScan ==
    ASSUME NEW f, NEW done, Replayed(f, done), Len(done) \in Nat, NEW i \in 1 .. Len(done)
    PROVE  /\ i \in 1 .. Len(Plan) /\ BatchAt(f, i) # Raised /\ done[i] = BatchAt(f, i)
           /\ done[i].symbol = Plan[i].symbol /\ done[i].period = Plan[i].period
           /\ done[i].gaps = Gaps(PriorAt(f, i), Trades(f, i))
           /\ done[i].windows = ScanOf(Feeds[f], i, PriorAt(f, i)).windows
           /\ Trades(f, i) # <<>> /\ Ordered(Passed(f, i))
           /\ \A k \in DOMAIN PriorAt(f, i) : ~ (PriorAt(f, i)[k].t >= PeriodStart(Plan[i].period))
           /\ ScanOf(Feeds[f], i, PriorAt(f, i)) # Raised
<1>1. /\ done[i] = BatchAt(f, i) /\ done[i] # Raised /\ i \in 1 .. Len(Plan)
      /\ BatchAt(f, i) = ExtractBatch(Feeds[f], i, PriorAt(f, i))
  BY RowIs DEF Replayed, BatchAt
<1>2. ScanOf(Feeds[f], i, PriorAt(f, i)) # Raised
  BY <1>1, ExtractionIs
<1>3. /\ ScanOf(Feeds[f], i, PriorAt(f, i)).gaps = Gaps(PriorAt(f, i), Trades(f, i))
      /\ Trades(f, i) # <<>> /\ Ordered(Passed(f, i))
      /\ \A k \in DOMAIN PriorAt(f, i) : ~ (PriorAt(f, i)[k].t >= PeriodStart(Plan[i].period))
  <2>1. ScanOf(Feeds[f], i, PriorAt(f, i)) =
          Extract(Plan[i].symbol, Plan[i].period, PeriodStart(Plan[i].period),
                  PeriodEnd(Plan[i].period), Trades(f, i), PriorAt(f, i))
    BY DEF ScanOf, Trades, MonthTrades
  <2> QED BY <1>2, <2>1, ScanKeeps DEF Passed
<1> QED BY <1>1, <1>2, <1>3, ExtractionKeeps

LEMMA LastOf == ASSUME NEW s \in Seq(Trade), s # <<>>
                PROVE Last(s) = s[Len(s)] /\ Last(s) \in Trade /\ Len(s) \in 1 .. Len(s)
  BY DEF Last

(* The prior trade of a row ends the month before.                           *)
LEMMA PriorIs ==
    ASSUME NEW f \in DOMAIN Feeds, NEW done, Replayed(f, done), Len(done) \in Nat,
           NEW i \in 1 .. Len(done)
    PROVE  /\ PriorAt(f, i) \in Seq(Trade)
           /\ \/ Plan[i].period = 0 /\ PriorAt(f, i) = <<>>
              \/ /\ Plan[i].period > 0 /\ i - Width \in 1 .. Len(done)
                 /\ PriorAt(f, i) = <<Last(Trades(f, i - Width))>>
                 /\ Last(Trades(f, i - Width)) \in Trade
<1>1. i \in 1 .. Len(Plan)
  BY RowIs
<1>2. CASE Plan[i].period = 0
  BY <1>2 DEF PriorAt
<1>3. CASE Plan[i].period # 0
  <2> DEFINE h == i - Width
  <2>1. Plan[i].period \in Nat
    BY <1>1, PeriodsAscend
  <2>2. /\ h \in 1 .. Len(Plan) /\ h < i /\ Plan[h].symbol = Plan[i].symbol
        /\ Plan[h].period = Plan[i].period - 1
    BY <1>1, <1>3, <2>1, MonthBefore
  <2>3. h \in 1 .. Len(done)
    BY <2>2, WidthType
  <2> HIDE DEF h
  <2>4. Trades(f, h) # <<>> /\ Trades(f, h) \in Seq(Trade)
    BY <2>2, <2>3, RowScan, TradesType
  <2>5. Last(Trades(f, h)) \in Trade
    BY <2>4, LastOf
  <2>6. PriorAt(f, i) = <<Last(Trades(f, h))>>
    BY <1>3, <2>2 DEF PriorAt, Trades
  <2> QED BY <1>3, <2>1, <2>3, <2>5, <2>6 DEF h
<1> QED BY <1>2, <1>3

LEMMA PassedIs ==
    ASSUME NEW f \in DOMAIN Feeds, NEW done, Replayed(f, done), Len(done) \in Nat,
           NEW i \in 1 .. Len(done)
    PROVE  /\ Passed(f, i) \in Seq(Trade) /\ Ordered(Passed(f, i))
           /\ \A k \in 1 .. Len(Passed(f, i)) : Passed(f, i)[k].t < PeriodEnd(Plan[i].period)
<1>1. /\ PriorAt(f, i) \in Seq(Trade) /\ Trades(f, i) \in Seq(Trade) /\ Ordered(Passed(f, i))
      /\ \A k \in DOMAIN PriorAt(f, i) : ~ (PriorAt(f, i)[k].t >= PeriodStart(Plan[i].period))
      /\ \A k \in 1 .. Len(Trades(f, i)) : Trades(f, i)[k].t < PeriodEnd(Plan[i].period)
      /\ i \in 1 .. Len(Plan)
  BY RowScan, PriorIs, TradesType
<1>2. PeriodStart(Plan[i].period) \in Nat /\ PeriodEnd(Plan[i].period) \in Nat
      /\ PeriodStart(Plan[i].period) < PeriodEnd(Plan[i].period)
  BY <1>1, PlanPeriods, PeriodsInside
<1> DEFINE a == PriorAt(f, i)
           b == Trades(f, i)
           start == PeriodStart(Plan[i].period)
           end == PeriodEnd(Plan[i].period)
<1>3. Passed(f, i) = a \o b
  BY DEF Passed, Scanned
<1> HIDE DEF a, b, start, end
<1>4. a \in Seq(Trade) /\ b \in Seq(Trade)
  BY <1>1 DEF a, b
<1>5. ASSUME NEW k \in 1 .. Len(a) PROVE a[k].t < end
  <2>1. a[k] \in Trade
    BY <1>4
  <2>2. a[k].t \in Nat /\ ~ (a[k].t >= start)
    BY <1>1, <1>4, <2>1, TradeFields DEF a, start
  <2> QED BY <1>2, <2>2 DEF start, end
<1>6. ASSUME NEW k \in 1 .. Len(a \o b) PROVE (a \o b)[k].t < end
  <2>1. CASE k \in 1 .. Len(a)
    BY <1>4, <1>5, <2>1
  <2>2. CASE k \notin 1 .. Len(a)
    <3>1. k - Len(a) \in 1 .. Len(b) /\ (a \o b)[k] = b[k - Len(a)]
      BY <1>4, <2>2
    <3> QED BY <1>1, <3>1 DEF b, end
  <2> QED BY <2>1, <2>2
<1> QED BY <1>1, <1>3, <1>4, <1>6 DEF end

----------------------------------------------------------------------------
(* Gaps and the daily archives that prove them.                             *)

GapAt(gap, all, n) ==
  /\ gap.prev = all[n].id /\ gap.next = all[n + 1].id
  /\ gap.from = all[n].t /\ gap.to = all[n + 1].t

LEMMA GapsFrom ==
    ASSUME NEW prior, NEW trades, NEW all \in Seq(Trade), all = Scanned(prior, trades), all # <<>>,
           NEW k \in DOMAIN Gaps(prior, trades)
    PROVE  \E n \in 1 .. Len(all) - 1 : GapAt(Gaps(prior, trades)[k], all, n)
<1> DEFINE steps == [i \in 1 .. Len(all) - 1 |-> Gap(all[i], all[i + 1], i > Len(prior))]
           T == {steps[n] : n \in 1 .. Len(all) - 1}
           places == {i \in DOMAIN steps : steps[i].missing > 0}
<1>1. Len(all) - 1 \in Nat
  OBVIOUS
<1>2. steps \in Seq(T) /\ Len(steps) = Len(all) - 1
  <2>1. ASSUME NEW g, g = steps PROVE g \in Seq({g[n] : n \in 1 .. Len(all) - 1})
    <3>1. DOMAIN g = 1 .. Len(all) - 1 /\ g = [i \in 1 .. Len(all) - 1 |-> g[i]]
      BY <2>1
    <3> HIDE DEF steps
    <3> QED BY <1>1, <3>1
  <2>2. Len(steps) = Len(all) - 1
    BY <1>1
  <2> QED BY <2>1, <2>2
<1>3. Gaps(prior, trades) = Kept(steps, places)
  BY DEF Gaps
<1>4. ASSUME NEW n \in 1 .. Len(all) - 1
      PROVE  GapAt(steps[n], all, n)
  BY DEF Gap, GapAt
<1> HIDE DEF steps, places
<1>5. Kept(steps, places) \in Seq({steps[p] : p \in places \cap (1 .. Len(steps))})
  <2> HIDE DEF T
  <2> QED BY <1>2, KeptFrom
<1>6. Kept(steps, places)[k] \in {steps[p] : p \in places \cap (1 .. Len(steps))}
  BY <1>3, <1>5
<1>7. PICK p \in 1 .. Len(all) - 1 : Kept(steps, places)[k] = steps[p]
  BY <1>2, <1>6
<1> QED BY <1>3, <1>4, <1>7

(* A gap lies between two successive trades of one pass.                     *)
GapInside(gap) ==
  /\ gap.prev \in Nat /\ gap.next \in Nat /\ gap.from \in Nat /\ gap.to \in Nat
  /\ gap.prev < gap.next /\ gap.from <= gap.to /\ gap.to < LastTick /\ gap.from < LastTick

LEMMA RowGaps ==
    ASSUME NEW f \in DOMAIN Feeds, NEW done, Replayed(f, done), Len(done) \in Nat,
           NEW i \in 1 .. Len(done), NEW k \in DOMAIN done[i].gaps
    PROVE  GapInside(done[i].gaps[k])
<1> DEFINE all == Passed(f, i)
<1>1. /\ all \in Seq(Trade) /\ Ordered(all) /\ i \in 1 .. Len(Plan)
      /\ \A n \in 1 .. Len(all) : all[n].t < PeriodEnd(Plan[i].period)
      /\ PeriodEnd(Plan[i].period) \in Nat /\ PeriodEnd(Plan[i].period) <= LastTick /\ LastTick \in Nat
  <2>1. i \in 1 .. Len(Plan)
    BY RowIs
  <2> QED BY <2>1, PassedIs, PlanPeriods, PeriodsInside
<1>2. /\ PriorAt(f, i) \in Seq(Trade) /\ Trades(f, i) \in Seq(Trade) /\ Trades(f, i) # <<>>
      /\ done[i].gaps = Gaps(PriorAt(f, i), Trades(f, i))
  BY <1>1, RowScan, PriorIs, TradesType
<1>3. all = Scanned(PriorAt(f, i), Trades(f, i)) /\ all # <<>> /\ Len(PriorAt(f, i)) \in Nat
  <2>1. all = PriorAt(f, i) \o Trades(f, i)
    BY DEF Passed, Scanned
  <2> HIDE DEF all
  <2> QED BY <1>2, <2>1 DEF Scanned
<1> HIDE DEF all
<1> DEFINE gap == done[i].gaps[k]
<1>4. PICK n \in 1 .. Len(all) - 1 : GapAt(gap, all, n)
  <2> DEFINE prior == PriorAt(f, i)
             trades == Trades(f, i)
  <2>1. k \in DOMAIN Gaps(prior, trades) /\ gap = Gaps(prior, trades)[k]
    BY <1>2
  <2>2. all = Scanned(prior, trades)
    BY <1>3
  <2> HIDE DEF prior, trades, gap
  <2> QED BY <1>1, <1>3, <2>1, <2>2, GapsFrom
<1>5. n \in 1 .. Len(all) /\ n + 1 \in 1 .. Len(all) /\ n < n + 1
  BY <1>1
<1>6. all[n] \in Trade /\ all[n + 1] \in Trade
  BY <1>1, <1>5
<1>7. /\ all[n].id \in Nat /\ all[n].t \in Nat /\ all[n + 1].id \in Nat /\ all[n + 1].t \in Nat
      /\ all[n].id < all[n + 1].id /\ all[n].t <= all[n + 1].t
  BY <1>1, <1>5, <1>6, TradeFields, OrderedAscends
<1>8. all[n].t < LastTick /\ all[n + 1].t < LastTick
  <2>1. all[n].t < PeriodEnd(Plan[i].period) /\ all[n + 1].t < PeriodEnd(Plan[i].period)
    BY <1>1, <1>5
  <2> QED BY <1>1, <1>7, <2>1
<1> HIDE DEF gap
<1>9. GapInside(gap)
  BY <1>4, <1>7, <1>8 DEF GapInside, GapAt
<1> QED BY <1>9 DEF gap

DayFile(days, d) == LoadedDay(days[d], d)

DayFiles(days, a, b) == [m \in 1 .. b - a + 1 |-> DayFile(days, a + m - 1)]

Manifests(days, a, b) == [m \in 1 .. b - a + 1 |-> DailyManifest(a + m - 1, DayFile(days, a + m - 1))]

Shown(gap, days, a, b) ==
  /\ \A d \in a .. b : DayFile(days, d) # <<>>
  /\ a = b => SameDayGapIsReproduced(gap, DayFile(days, a))
  /\ a # b => CrossDayGapIsReproduced(gap, FlattenSeq(DayFiles(days, a, b)))

(* What corroboration has established of a gap when it lets a batch pass.    *)
LEMMA CorroborationIs ==
    ASSUME NEW x, NEW days, Corroborate(x, days) # Raised, "proofs" \in DOMAIN x,
           NEW k \in DOMAIN x.gaps, NEW a \in Int, NEW b \in Int, a <= b,
           a = DayOf(x.gaps[k].from), b = DayOf(x.gaps[k].to)
    PROVE  /\ Shown(x.gaps[k], days, a, b)
           /\ Corroborate(x, days).proofs[k] = [gap |-> x.gaps[k], days |-> Manifests(days, a, b)]
<1> DEFINE span(gap) == DayOf(gap.from) .. DayOf(gap.to)
           required == UNION {span(x.gaps[i]) : i \in DOMAIN x.gaps}
           archive == [d \in required |-> LoadedDay(days[d], d)]
           joined(gap) == FlattenSeq([m \in 1 .. Cardinality(span(gap)) |->
                                        archive[DayOf(gap.from) + m - 1]])
           reproduced(gap) == IF DayOf(gap.from) = DayOf(gap.to)
                              THEN SameDayGapIsReproduced(gap, archive[DayOf(gap.from)])
                              ELSE CrossDayGapIsReproduced(gap, joined(gap))
           proof(gap) == [gap |-> gap,
                          days |-> [m \in 1 .. Cardinality(span(gap)) |->
                            DailyManifest(DayOf(gap.from) + m - 1, archive[DayOf(gap.from) + m - 1])]]
           proofs == [i \in DOMAIN x.gaps |-> proof(x.gaps[i])]
           g == x.gaps[k]
<1>1. /\ \A d \in required : archive[d] # <<>>
      /\ \A i \in DOMAIN x.gaps : reproduced(x.gaps[i])
      /\ Corroborate(x, days) = [x EXCEPT !.proofs = proofs]
  <2>1. Corroborate(x, days) =
          IF \E d \in required : archive[d] = <<>> THEN Raised
          ELSE IF \E i \in DOMAIN x.gaps : ~reproduced(x.gaps[i]) THEN Raised
          ELSE [x EXCEPT !.proofs = proofs]
    BY DEF Corroborate
  <2> HIDE DEF required, archive, reproduced, proofs
  <2> QED BY <2>1
<1>2. a .. b \subseteq required /\ \A d \in a .. b : archive[d] = DayFile(days, d)
  <2>1. span(x.gaps[k]) = a .. b
    OBVIOUS
  <2>2. a .. b \subseteq required
    BY <2>1
  <2>3. \A d \in required : archive[d] = DayFile(days, d)
    BY DEF DayFile
  <2> HIDE DEF required, archive
  <2> QED BY <2>2, <2>3
<1>3. Cardinality(span(g)) = b - a + 1
  BY FS_Interval
<1>4. ASSUME NEW m \in 1 .. b - a + 1 PROVE archive[a + m - 1] = DayFile(days, a + m - 1)
  <2>1. a + m - 1 \in a .. b
    OBVIOUS
  <2> HIDE DEF archive
  <2> QED BY <1>2, <2>1
<1>5. reproduced(g) /\ proofs[k] = proof(g)
  <2>1. reproduced(x.gaps[k])
    <3> HIDE DEF reproduced
    <3> QED BY <1>1
  <2>2. proofs[k] = proof(x.gaps[k])
    OBVIOUS
  <2> QED BY <2>1, <2>2
<1>6. joined(g) = FlattenSeq(DayFiles(days, a, b))
  <2>1. [m \in 1 .. Cardinality(span(g)) |-> archive[DayOf(g.from) + m - 1]] = DayFiles(days, a, b)
    <3> HIDE DEF archive
    <3> QED BY <1>3, <1>4 DEF DayFiles
  <2> QED BY <2>1
<1>7. proof(g) = [gap |-> g, days |-> Manifests(days, a, b)]
  <2>1. [m \in 1 .. Cardinality(span(g)) |->
            DailyManifest(DayOf(g.from) + m - 1, archive[DayOf(g.from) + m - 1])] = Manifests(days, a, b)
    <3> HIDE DEF archive
    <3> QED BY <1>3, <1>4 DEF Manifests
  <2> QED BY <2>1
<1>8. archive[a] = DayFile(days, a)
  <2>1. a \in a .. b
    OBVIOUS
  <2> HIDE DEF required, archive
  <2> QED BY <1>2, <2>1
<1>9. ASSUME NEW d \in a .. b PROVE DayFile(days, d) # <<>>
  <2> HIDE DEF required, archive
  <2> QED BY <1>1, <1>2
<1>10. a = b => SameDayGapIsReproduced(g, DayFile(days, a))
  <2> HIDE DEF archive, joined
  <2> QED BY <1>5, <1>8
<1>11. a # b => CrossDayGapIsReproduced(g, FlattenSeq(DayFiles(days, a, b)))
  <2> HIDE DEF archive, joined
  <2> QED BY <1>5, <1>6
<1>12. Corroborate(x, days).proofs[k] = proofs[k]
  <2>1. Corroborate(x, days).proofs = proofs
    <3> HIDE DEF proofs
    <3> QED BY <1>1
  <2> QED BY <2>1
<1> QED BY <1>5, <1>7, <1>9, <1>10, <1>11, <1>12 DEF Shown

(* The daily archive of one day, once it was loaded.                         *)
IsDay(file, days, d) ==
  /\ file \in Seq(Trade) /\ file # <<>> /\ Ordered(file) /\ file = days[d].trades
  /\ \A k \in 1 .. Len(file) : DayOf(file[k].t) = d

LEMMA DayFileIs ==
    ASSUME NEW f \in DOMAIN Feeds, NEW symbol \in {Symbols[k] : k \in DOMAIN Symbols},
           NEW d \in 0 .. Months * MonthDays - 1, DayFile(Feeds[f].day[symbol], d) # <<>>
    PROVE  IsDay(DayFile(Feeds[f].day[symbol], d), Feeds[f].day[symbol], d)
<1> DEFINE file == Feeds[f].day[symbol][d]
           got == DayFile(Feeds[f].day[symbol], d)
           start == d * Day
           end == (d + 1) * Day
<1>1. file.trades \in Seq(Trade)
  BY FeedAssumption
<1>2. d \in Nat /\ start \in Nat /\ end \in Nat
  <2>1. d \in Nat /\ d + 1 \in Nat /\ Day \in Nat
    BY GridAssumption, PlanAssumption
  <2> QED BY <2>1, Scales
<1>3. got = LoadedDay(file, d)
  BY DEF DayFile
<1> HIDE DEF file
<1>4. got = file.trades /\ Ordered(file.trades)
      /\ \A k \in DOMAIN file.trades : start <= file.trades[k].t /\ file.trades[k].t < end
  BY <1>3 DEF LoadedDay, Loaded
<1> HIDE DEF start, end, got
<1>5. ASSUME NEW k \in 1 .. Len(got) PROVE DayOf(got[k].t) = d
  <2>1. got[k] \in Trade /\ start <= got[k].t /\ got[k].t < end
    BY <1>1, <1>4
  <2>2. got[k].t \in Nat
    BY <2>1, TradeFields
  <2> QED BY <1>2, <2>1, <2>2, DayOfIs DEF start, end
<1> QED BY <1>1, <1>4, <1>5 DEF IsDay, got, file

Missing(gap) == gap.prev + 1 .. gap.next - 1

Numbers(trades) == {trades[k].id : k \in DOMAIN trades}

LEMMA NotBetween ==
    ASSUME NEW s \in Seq(Trade), Ordered(s), NEW gap, GapInside(gap), NEW n \in 1 .. Len(s),
           s[n].id <= gap.prev, n = Len(s) \/ s[n + 1].id >= gap.next
    PROVE  Missing(gap) \cap Numbers(s) = {}
<1> SUFFICES ASSUME NEW k \in DOMAIN s, s[k].id \in Missing(gap) PROVE FALSE
  BY DEF Numbers
<1>1. k \in 1 .. Len(s) /\ k \in Nat /\ n \in Nat /\ Len(s) \in Nat
  OBVIOUS
<1>2. ASSUME NEW m \in 1 .. Len(s) PROVE s[m].id \in Nat
  <2>1. s[m] \in Trade
    OBVIOUS
  <2> QED BY <2>1, TradeFields
<1>3. gap.prev \in Nat /\ gap.next \in Nat /\ s[k].id > gap.prev /\ s[k].id < gap.next
  BY <1>1, <1>2 DEF GapInside, Missing
<1>4. CASE k <= n
  <2>1. k = n \/ s[k].id < s[n].id
    BY <1>1, <1>4, OrderedAscends
  <2>2. s[k].id <= s[n].id
    BY <1>1, <1>2, <2>1
  <2> QED BY <1>1, <1>2, <1>3, <2>2
<1>5. CASE k > n
  <2>1. n + 1 \in 1 .. Len(s) /\ n + 1 <= k /\ s[n + 1].id >= gap.next
    BY <1>1, <1>5
  <2>2. n + 1 = k \/ s[n + 1].id < s[k].id
    BY <1>1, <2>1, OrderedAscends
  <2>3. s[n + 1].id <= s[k].id
    BY <1>1, <1>2, <2>1, <2>2
  <2> QED BY <1>1, <1>2, <1>3, <2>1, <2>3
<1> QED BY <1>1, <1>4, <1>5

LEMMA SameDayHolds ==
    ASSUME NEW s \in Seq(Trade), Ordered(s), NEW gap, GapInside(gap), SameDayGapIsReproduced(gap, s)
    PROVE  Missing(gap) \cap Numbers(s) = {}
<1>1. PICK i \in 1 .. Len(s) - 1 : Gap(s[i], s[i + 1], gap.inPeriod) = gap
  BY DEF SameDayGapIsReproduced
<1>2. gap.prev = s[i].id /\ gap.next = s[i + 1].id
  BY <1>1 DEF Gap
<1>3. i \in 1 .. Len(s) /\ i + 1 \in 1 .. Len(s)
  OBVIOUS
<1>4. s[i].id <= gap.prev /\ s[i + 1].id >= gap.next
  BY <1>2 DEF GapInside
<1> QED BY <1>3, <1>4, NotBetween

LEMMA Contiguous ==
    ASSUME NEW s, NEW i \in Nat, NEW j \in Nat, i <= j, \A k \in i .. j : s[k].id \in Nat,
           \A k \in i .. j - 1 : s[k + 1].id = s[k].id + 1, NEW m \in i .. j
    PROVE  s[m].id = s[i].id + (m - i)
<1> DEFINE Wrong == {k \in i .. j : s[k].id # s[i].id + (k - i)}
<1>1. CASE Wrong # {}
  <2>1. PICK k \in Wrong : \A y \in Wrong : k <= y
    <3>1. Wrong \in SUBSET Nat
      OBVIOUS
    <3> HIDE DEF Wrong
    <3> QED BY <1>1, <3>1, LeastOf
  <2>2. k \in i .. j /\ s[k].id # s[i].id + (k - i)
    OBVIOUS
  <2>3. k # i
    BY <2>2
  <2>4. k - 1 \in i .. j - 1 /\ k - 1 \in i .. j /\ k - 1 < k
    BY <2>2, <2>3
  <2>5. s[k - 1].id = s[i].id + ((k - 1) - i)
    <3>1. k - 1 \notin Wrong
      BY <2>1, <2>4
    <3> QED BY <2>4, <3>1
  <2>6. s[(k - 1) + 1].id = s[k - 1].id + 1 /\ (k - 1) + 1 = k
    BY <2>4
  <2>7. s[k].id = s[k - 1].id + 1
    BY <2>6
  <2>8. i \in i .. j /\ s[i].id \in Nat /\ k \in Int
    BY <2>2
  <2> QED BY <2>2, <2>5, <2>7, <2>8
<1> QED BY <1>1

(* The first file is how the files laid end to end begin, and the second     *)
(* comes next.                                                               *)
Begins(q, a, x) ==
  /\ Len(q) > Len(a)
  /\ \A l \in 1 .. Len(a) : q[l] = a[l]
  /\ q[Len(a) + 1] = x

LEMMA BeginsFirst ==
    ASSUME NEW T, NEW a \in Seq(T), NEW b \in Seq(T), b # <<>>
    PROVE  Begins(a \o b, a, b[1])
BY DEF Begins

LEMMA BeginsStill ==
    ASSUME NEW T, NEW a \in Seq(T), NEW x, NEW q \in Seq(T), NEW r \in Seq(T), Begins(q, a, x)
    PROVE  Begins(q \o r, a, x)
BY DEF Begins

LEMMA JoinBegins ==
    ASSUME NEW T, NEW files, NEW n \in Nat, n >= 2, NEW f, Joins(f, files, n, T),
           \A m \in 1 .. n : files[m] \in Seq(T), files[2] # <<>>, NEW m \in 2 .. n
    PROVE  f[m] \in Seq(T) /\ Begins(f[m], files[1], files[2][1])
<1> DEFINE Wrong == {k \in 2 .. n : ~ Begins(f[k], files[1], files[2][1])}
<1>1. f[m] \in Seq(T)
  BY DEF Joins
<1>2. files[1] \in Seq(T) /\ files[2] \in Seq(T)
  OBVIOUS
<1>3. f[1] = files[1]
  BY DEF Joins
<1>4. CASE Wrong # {}
  <2>1. PICK k \in Wrong : \A y \in Wrong : k <= y
    <3>1. Wrong \in SUBSET Nat
      OBVIOUS
    <3> HIDE DEF Wrong
    <3> QED BY <1>4, <3>1, LeastOf
  <2>2. k \in 2 .. n /\ ~ Begins(f[k], files[1], files[2][1])
    OBVIOUS
  <2>3. k - 1 \in 0 .. n /\ k \in 1 .. n
    BY <2>2
  <2>4. f[k] = f[k - 1] \o files[k] /\ f[k - 1] \in Seq(T) /\ files[k] \in Seq(T)
    BY <2>3 DEF Joins
  <2>5. CASE k = 2
    <3>1. f[k] = files[1] \o files[2]
      BY <1>3, <2>4, <2>5, k - 1 = 1
    <3> QED BY <2>2, <3>1, <1>2, BeginsFirst
  <2>6. CASE k # 2
    <3>1. k - 1 \in 2 .. n /\ k - 1 < k
      BY <2>2, <2>6
    <3>2. k - 1 \notin Wrong
      BY <2>1, <3>1
    <3>3. Begins(f[k - 1], files[1], files[2][1])
      BY <3>1, <3>2
    <3> QED BY <2>2, <2>4, <3>3, <1>2, BeginsStill
  <2> QED BY <2>5, <2>6
<1> QED BY <1>1, <1>4

(* The trades of the daily archives a .. b.                                  *)
DayTrades(days, a, b) ==
  UNION {{DayFile(days, d)[k] : k \in DOMAIN DayFile(days, d)} : d \in a .. b}

(* A gap over midnight ends its first day and begins its last, so a later    *)
(* trade of the days between can only be one of a run without gaps.          *)
LEMMA CrossDayHolds ==
    ASSUME NEW days, NEW a \in Nat, NEW b \in Nat, a < b,
           \A d \in a .. b : IsDay(DayFile(days, d), days, d),
           NEW gap, GapInside(gap), DayOf(gap.to) = b,
           CrossDayGapIsReproduced(gap, FlattenSeq(DayFiles(days, a, b))),
           Last(DayFile(days, a)).id = gap.prev, Head(DayFile(days, b)).id = gap.next
    PROVE  \/ \A d \in a .. b : Missing(gap) \cap Numbers(DayFile(days, d)) = {}
           \/ a < b - 1 /\ \A x \in Missing(gap) : \E y \in DayTrades(days, a, b) : y.id = x
<1> DEFINE first == DayFile(days, a)
           last == DayFile(days, b)
           files == DayFiles(days, a, b)
           T == DayTrades(days, a, b)
           n == b - a + 1
<1>1. /\ first \in Seq(Trade) /\ Ordered(first) /\ Len(first) \in 1 .. Len(first)
      /\ first[Len(first)].id = gap.prev
  <2>1. IsDay(first, days, a)
    OBVIOUS
  <2>2. first \in Seq(Trade) /\ first # <<>> /\ Ordered(first)
    <3> HIDE DEF first
    <3> QED BY <2>1 DEF IsDay
  <2>3. Last(first).id = gap.prev
    OBVIOUS
  <2> HIDE DEF first
  <2> QED BY <2>2, <2>3, LastOf
<1>2. last \in Seq(Trade) /\ Ordered(last) /\ last # <<>> /\ last[1].id = gap.next
  <2>1. IsDay(last, days, b)
    OBVIOUS
  <2>2. Head(last).id = gap.next
    OBVIOUS
  <2> HIDE DEF last
  <2> QED BY <2>1, <2>2 DEF IsDay
<1>3. gap.prev \in Nat /\ gap.next \in Nat /\ gap.prev < gap.next
  BY DEF GapInside
<1>4. CASE b = a + 1
  <2> HIDE DEF first, last
  <2>1. Missing(gap) \cap Numbers(first) = {}
    BY <1>1, <1>3, NotBetween
  <2>2. Missing(gap) \cap Numbers(last) = {}
    <3> SUFFICES ASSUME NEW k \in DOMAIN last, last[k].id \in Missing(gap) PROVE FALSE
      BY DEF Numbers
    <3>1. k \in 1 .. Len(last) /\ 1 \in 1 .. Len(last) /\ last[k] \in Trade
      BY <1>2
    <3>2. last[1].id <= last[k].id
      <4>1. k = 1 \/ last[1].id < last[k].id
        BY <1>2, <3>1, OrderedAscends
      <4> QED BY <1>2, <1>3, <3>1, <4>1, TradeFields
    <3>3. last[k].id < gap.next /\ last[k].id \in Nat
      BY <1>3, <3>1, TradeFields DEF Missing
    <3> QED BY <1>2, <1>3, <3>2, <3>3
  <2>3. ASSUME NEW d \in a .. b PROVE Missing(gap) \cap Numbers(DayFile(days, d)) = {}
    <3>1. d = a \/ d = b
      BY <1>4
    <3> QED BY <2>1, <2>2, <3>1 DEF first, last
  <2> QED BY <2>3
<1>5. CASE b # a + 1
  <2>1. n \in Nat /\ n >= 3 /\ Len(files) = n /\ a < b - 1
    BY <1>5 DEF DayFiles
  <2>2. ASSUME NEW m \in 1 .. n
        PROVE  files[m] = DayFile(days, a + m - 1) /\ files[m] \in Seq(T) /\ files[m] # <<>>
    <3>1. files[m] = DayFile(days, a + m - 1) /\ a + m - 1 \in a .. b
      BY DEF DayFiles
    <3> DEFINE file == DayFile(days, a + m - 1)
    <3>2. IsDay(file, days, a + m - 1)
      BY <3>1
    <3>3. \A k \in DOMAIN file : file[k] \in T
      BY <3>1 DEF DayTrades
    <3>4. file \in Seq(Trade) /\ file # <<>>
      <4> HIDE DEF file
      <4> QED BY <3>2 DEF IsDay
    <3> HIDE DEF file, T, files
    <3>5. file \in Seq(T)
      BY <3>3, <3>4
    <3> QED BY <3>1, <3>4, <3>5 DEF file
  <2>3. files[1] = first
    <3>1. files[1] = DayFile(days, a + 1 - 1) /\ a + 1 - 1 = a
      BY <2>1, <2>2
    <3> QED BY <3>1
  <2>4. files[2] # <<>> /\ files[2][1].t \in Nat /\ DayOf(files[2][1].t) = a + 1
    <3>1. 2 \in 1 .. n /\ a + 2 - 1 = a + 1 /\ a + 1 \in a .. b
      BY <2>1
    <3>2. files[2] = DayFile(days, a + 1) /\ IsDay(DayFile(days, a + 1), days, a + 1)
      BY <2>2, <3>1
    <3>3. files[2] # <<>> /\ files[2] \in Seq(Trade) /\ \A k \in 1 .. Len(files[2]) : DayOf(files[2][k].t) = a + 1
      <4> HIDE DEF files
      <4> QED BY <3>2 DEF IsDay
    <3> HIDE DEF files
    <3>4. 1 \in 1 .. Len(files[2]) /\ files[2][1] \in Trade
      BY <3>3
    <3> QED BY <3>3, <3>4, TradeFields
  <2> HIDE DEF files
  <2>5. PICK f : Joins(f, files, n, T) /\ FlattenSeq(files) = f[n]
    <3>1. n > 0 /\ \A m \in 1 .. n : files[m] \in Seq(T)
      BY <2>1, <2>2
    <3> HIDE DEF T, n
    <3> QED BY <2>1, <3>1, FlattenIs
  <2> DEFINE all == f[n]
  <2>6. all \in Seq(T) /\ Begins(all, first, files[2][1])
    <3>1. n >= 2 /\ n \in 2 .. n
      BY <2>1
    <3>2. f[n] \in Seq(T) /\ Begins(f[n], files[1], files[2][1])
      <4> HIDE DEF T, n
      <4> QED BY <2>1, <2>2, <2>4, <2>5, <3>1, JoinBegins
    <3> QED BY <2>3, <3>2
  <2>7. CrossDayGapIsReproduced(gap, all)
    BY <2>5 DEF files
  <2> HIDE DEF all, n, first
  <2>8. PICK i \in DOMAIN all, j \in DOMAIN all :
          /\ i < j
          /\ \A k \in 1 .. i - 1 : all[k].id < gap.prev
          /\ all[i].id = gap.prev
          /\ all[j].id = gap.next /\ all[j].t = gap.to
          /\ j = i + 1 \/ \A k \in i .. j - 1 : all[k + 1].id = all[k].id + 1
    BY <2>7 DEF CrossDayGapIsReproduced
  <2>9. i \in 1 .. Len(all) /\ j \in 1 .. Len(all) /\ Len(all) \in Nat /\ i \in Nat /\ j \in Nat
    <3> HIDE DEF T
    <3> QED BY <2>6, <2>8
  <2>10. CASE j = i + 1
    <3>1. i <= Len(first)
      <4>1. CASE i > Len(first)
        <5>1. Len(first) \in 1 .. i - 1 /\ all[Len(first)] = first[Len(first)]
          BY <1>1, <2>6, <2>9, <4>1 DEF Begins
        <5>2. all[Len(first)].id < gap.prev
          BY <2>8, <5>1
        <5> QED BY <1>1, <1>3, <5>1, <5>2
      <4> QED BY <1>1, <2>9, <4>1
    <3>2. i = Len(first)
      <4>1. CASE i < Len(first)
        <5>1. i \in 1 .. Len(first) /\ all[i] = first[i]
          BY <1>1, <2>6, <2>9, <4>1 DEF Begins
        <5>2. first[i].id < first[Len(first)].id
          BY <1>1, <4>1, <5>1, OrderedAscends
        <5> QED BY <1>1, <1>3, <2>8, <5>1, <5>2
      <4> QED BY <1>1, <2>9, <3>1, <4>1
    <3>3. all[j] = files[2][1]
      BY <2>6, <2>10, <3>2 DEF Begins
    <3>4. DayOf(gap.to) = a + 1
      BY <2>4, <2>8, <3>3
    <3> QED BY <1>5, <3>4
  <2>11. CASE \A k \in i .. j - 1 : all[k + 1].id = all[k].id + 1
    <3>1. ASSUME NEW k \in i .. j PROVE all[k] \in T /\ all[k].id \in Nat
      <4>1. all[k] \in T
        <5> HIDE DEF T
        <5> QED BY <2>6, <2>9
      <4>2. PICK d \in a .. b : \E m \in DOMAIN DayFile(days, d) : all[k] = DayFile(days, d)[m]
        BY <4>1 DEF DayTrades
      <4>3. DayFile(days, d) \in Seq(Trade)
        BY DEF IsDay
      <4>4. all[k] \in Trade
        BY <4>2, <4>3
      <4> QED BY <4>1, <4>4, TradeFields
    <3>2. ASSUME NEW m \in i .. j PROVE all[m].id = all[i].id + (m - i)
      <4>1. i <= j /\ \A k \in i .. j : all[k].id \in Nat
        BY <2>8, <2>9, <3>1
      <4> HIDE DEF T
      <4> QED BY <2>9, <2>11, <4>1, Contiguous
    <3>3. ASSUME NEW x \in Missing(gap) PROVE \E y \in T : y.id = x
      <4> DEFINE m == i + (x - gap.prev)
      <4>1. x \in Nat /\ gap.prev < x /\ x < gap.next
        BY <1>3 DEF Missing
      <4>2. gap.next = gap.prev + (j - i)
        <5>1. j \in i .. j
          BY <2>8, <2>9
        <5> QED BY <2>8, <3>2, <5>1
      <4>3. m \in i .. j
        <5> PICK y, z : y = gap.prev /\ z = gap.next
          OBVIOUS
        <5>1. y \in Nat /\ x \in Nat /\ y < x /\ x < z /\ z = y + (j - i) /\ i \in Nat /\ j \in Nat
          BY <1>3, <2>9, <4>1, <4>2
        <5>2. i + (x - y) \in i .. j
          BY <5>1
        <5> QED BY <5>2
      <4>4. all[m].id = gap.prev + (m - i) /\ all[m] \in T
        BY <2>8, <3>1, <3>2, <4>3
      <4>5. all[m].id = x
        BY <1>3, <2>9, <4>1, <4>4
      <4> HIDE DEF m, T
      <4> QED BY <4>4, <4>5
    <3> QED BY <2>1, <3>3
  <2> QED BY <2>8, <2>10, <2>11
<1> QED BY <1>4, <1>5

(* The proofs of a batch name its gaps and reach over each of them.          *)
ProofsReach(x) ==
  /\ [k \in DOMAIN x.proofs |-> x.proofs[k].gap] = x.gaps
  /\ \A k \in DOMAIN x.proofs : ProofReaches(x.proofs[k])

GapProofsHold ==
  /\ feed \in DOMAIN Feeds
  /\ \A i \in 1 .. Len(rows) : ProofsReach(rows[i])
  /\ \A c \in Collectors : collector[c].pc = "insert" => ProofsReach(collector[c].batch)

LEMMA GapProofsStill ==
    ASSUME CollectionInv, GapProofsHold, feed' = feed, rows' = rows,
           \A c \in Collectors : collector'[c] = collector[c] \/ collector'[c].pc # "insert"
    PROVE  GapProofsHold'
BY DEF GapProofsHold

LEMMA MovedCollector ==
    ASSUME CollectionInv, NEW c \in Collectors, NEW then,
           collector' = [collector EXCEPT ![c] = then]
    PROVE  \A d \in Collectors : collector'[d] = IF d = c THEN then ELSE collector[d]
BY DEF CollectionInv, CollectionType

LEMMA MovesPast ==
    ASSUME CollectionInv, GapProofsHold, NEW c \in Collectors, NEW then,
           collector' = [collector EXCEPT ![c] = then], then.pc # "insert",
           feed' = feed, rows' = rows
    PROVE  GapProofsHold'
<1>1. \A d \in Collectors : collector'[d] = IF d = c THEN then ELSE collector[d]
  BY MovedCollector
<1>2. \A d \in Collectors : collector'[d] = collector[d] \/ collector'[d].pc # "insert"
  BY <1>1
<1> QED BY <1>2, GapProofsStill

LEMMA NeverInserting ==
    ASSUME CollectionInv, NEW c \in Collectors
    PROVE  /\ \A pc \in {"off", "failed", "killed", "done"} : [Idle EXCEPT !.pc = pc].pc # "insert"
           /\ \A next, last, parallel : Opening(next, last, parallel).pc # "insert"
           /\ Advanced(collector[c]).pc # "insert"
<1>1. \A pc \in {"off", "failed", "killed", "done"} : [Idle EXCEPT !.pc = pc].pc # "insert"
  BY DEF Idle
<1>2. \A next, last, parallel : Opening(next, last, parallel).pc # "insert"
  BY DEF Opening, Idle
<1>3. Advanced(collector[c]).pc # "insert"
  <2>1. collector[c] \in CollectorType(feed)
    BY DEF CollectionInv, CollectionType
  <2> QED BY <2>1 DEF Advanced, CollectorType
<1> QED BY <1>1, <1>2, <1>3

LEMMA OpenedNeverInserts ==
    ASSUME CollectionInv, NEW c \in Collectors, NEW limit, NEW parallel, Opened(c, limit, parallel)
    PROVE  \A d \in Collectors : collector'[d] = collector[d] \/ collector'[d].pc # "insert"
<1>1. PICK then : collector' = [collector EXCEPT ![c] = then] /\ then.pc # "insert"
  <2>1. CASE Verifies(rows, FALSE)
    <3>1. collector' = [collector EXCEPT ![c] = Opening(Len(rows) + 1, LastPending(limit), parallel)]
      BY <2>1 DEF Opened, Opening
    <3> QED BY <3>1, NeverInserting
  <2>2. CASE ~Verifies(rows, FALSE)
    <3>1. collector' = [collector EXCEPT ![c] = [Idle EXCEPT !.pc = "failed"]]
      BY <2>2 DEF Opened
    <3> QED BY <3>1, NeverInserting
  <2> QED BY <2>1, <2>2
<1> QED BY <1>1, MovedCollector

LEMMA CheckKeepsProofs ==
    ASSUME CollectionInv, GapProofsHold, NEW c \in Collectors, Check(c)
    PROVE  GapProofsHold'
<1> DEFINE mine == collector[c]
<1>1. mine \in CollectorType(feed) /\ UNCHANGED <<feed, rows>>
  BY DEF Check, CollectionInv, CollectionType
<1>2. \/ Failed(c)
      \/ collector' = [collector EXCEPT ![c] = Advanced(mine)]
      \/ collector' = [collector EXCEPT ![c].pc = "insert"] /\ Valid(rows, mine.next, mine.batch)
  BY DEF Check
<1>3. CASE Failed(c)
  <2>1. collector' = [collector EXCEPT ![c] = [Idle EXCEPT !.pc = "failed"]]
    BY <1>3 DEF Failed
  <2> QED BY <1>1, <2>1, MovedCollector, NeverInserting, GapProofsStill
<1>4. CASE collector' = [collector EXCEPT ![c] = Advanced(mine)]
  BY <1>1, <1>4, MovedCollector, NeverInserting, GapProofsStill
<1>5. CASE collector' = [collector EXCEPT ![c].pc = "insert"] /\ Valid(rows, mine.next, mine.batch)
  <2> DEFINE then == [mine EXCEPT !.pc = "insert"]
  <2>1. collector' = [collector EXCEPT ![c] = then]
    BY <1>5 DEF CollectionInv, CollectionType, CollectorType
  <2>2. then.batch = mine.batch
    BY <1>1 DEF CollectorType
  <2>3. ProofsReach(mine.batch)
    BY <1>5 DEF Valid, ProofsReach
  <2> HIDE DEF mine, then
  <2>4. \A d \in Collectors : collector'[d] = IF d = c THEN then ELSE collector[d]
    BY <2>1, MovedCollector
  <2> QED BY <1>1, <2>2, <2>3, <2>4 DEF GapProofsHold
<1> QED BY <1>2, <1>3, <1>4, <1>5

LEMMA InsertKeepsProofs ==
    ASSUME CollectionInv, GapProofsHold, NEW c \in Collectors, Insert(c)
    PROVE  GapProofsHold'
<1> DEFINE mine == collector[c]
<1>1. feed' = feed /\ mine.pc = "insert"
  BY DEF Insert
<1>2. CASE ~KeyIsFree(mine.next)
  <2>1. collector' = [collector EXCEPT ![c] = [Idle EXCEPT !.pc = "failed"]] /\ rows' = rows
    BY <1>2 DEF Insert, Failed
  <2> QED BY <1>1, <2>1, MovedCollector, NeverInserting, GapProofsStill
<1>3. CASE KeyIsFree(mine.next)
  <2>1. rows' = Append(rows, mine.batch) /\ collector' = [collector EXCEPT ![c] = Advanced(mine)]
    BY <1>3 DEF Insert
  <2>2. ProofsReach(mine.batch)
    BY <1>1 DEF GapProofsHold
  <2>3. \A d \in Collectors : collector'[d] = IF d = c THEN Advanced(mine) ELSE collector[d]
    BY <2>1, MovedCollector
  <2>4. Advanced(mine).pc # "insert"
    BY NeverInserting
  <2> HIDE DEF mine
  <2>5. /\ Len(rows') = Len(rows) + 1 /\ rows'[Len(rows) + 1] = mine.batch
        /\ \A i \in 1 .. Len(rows) : rows'[i] = rows[i]
    BY <2>1 DEF CollectionInv, CollectionType
  <2>6. ASSUME NEW i \in 1 .. Len(rows') PROVE ProofsReach(rows'[i])
    <3>1. i \in 1 .. Len(rows) \/ i = Len(rows) + 1
      BY <2>5, LedgerShape
    <3> QED BY <2>2, <2>5, <3>1 DEF GapProofsHold
  <2> QED BY <1>1, <2>3, <2>4, <2>6 DEF GapProofsHold
<1> QED BY <1>2, <1>3

LEMMA GapProofsStep == CollectionInv /\ GapProofsHold /\ [CollectionNext]_collectionVars => GapProofsHold'
<1> SUFFICES ASSUME CollectionInv, GapProofsHold, [CollectionNext]_collectionVars PROVE GapProofsHold'
  OBVIOUS
<1>1. CASE UNCHANGED collectionVars
  BY <1>1 DEF collectionVars, GapProofsHold
<1>2. ASSUME NEW c \in Collectors, Start(c) PROVE GapProofsHold'
  <2>1. PICK parallel : Opened(c, Len(Plan), parallel)
    BY <1>2 DEF Start
  <2> QED BY <1>2, <2>1, OpenedNeverInserts, GapProofsStill DEF Start
<1>3. ASSUME NEW c \in Collectors, Submit(c) PROVE GapProofsHold'
  <2> DEFINE mine == collector[c]
             i == mine.next + Len(mine.priors)
             place == IF i + 1 \in MonthGroup(c) THEN "run" ELSE "take"
             priors == Append(mine.priors, LastTrade(rows, Plan[i].symbol))
             then == [mine EXCEPT !.priors = priors, !.pc = place]
  <2>1. collector' = [collector EXCEPT ![c].priors = priors, ![c].pc = place] /\ UNCHANGED <<feed, rows>>
    BY <1>3 DEF Submit
  <2>2. mine \in CollectorType(feed) /\ collector \in [Collectors -> CollectorType(feed)]
    BY DEF CollectionInv, CollectionType
  <2>3. place # "insert"
    OBVIOUS
  <2> HIDE DEF place, priors
  <2>4. collector' = [collector EXCEPT ![c] = then] /\ then.pc # "insert"
    BY <2>1, <2>2, <2>3 DEF CollectorType
  <2>5. PICK moved : collector' = [collector EXCEPT ![c] = moved] /\ moved.pc # "insert"
    BY <2>4
  <2> QED BY <2>1, <2>5, MovesPast
<1>4. ASSUME NEW c \in Collectors, Take(c) PROVE GapProofsHold'
  <2>1. CASE Extraction(c) = Raised
    <3>1. collector' = [collector EXCEPT ![c] = [Idle EXCEPT !.pc = "failed"]] /\ UNCHANGED <<feed, rows>>
      BY <1>4, <2>1 DEF Take, Failed
    <3> QED BY <3>1, MovedCollector, NeverInserting, GapProofsStill
  <2>2. CASE Extraction(c) # Raised
    <3> DEFINE mine == collector[c]
               batch == Extraction(c)
               then == [mine EXCEPT !.pc = "append", !.batch = batch]
    <3>1. collector' = [collector EXCEPT ![c].pc = "append", ![c].batch = batch] /\ UNCHANGED <<feed, rows>>
      BY <1>4, <2>2 DEF Take
    <3>2. mine \in CollectorType(feed) /\ collector \in [Collectors -> CollectorType(feed)]
      BY DEF CollectionInv, CollectionType
    <3> HIDE DEF batch
    <3>3. collector' = [collector EXCEPT ![c] = then] /\ then.pc # "insert"
      BY <3>1, <3>2 DEF CollectorType
    <3>4. PICK moved : collector' = [collector EXCEPT ![c] = moved] /\ moved.pc # "insert"
      BY <3>3
    <3> QED BY <3>1, <3>4, MovesPast
  <2> QED BY <2>1, <2>2
<1>5. ASSUME NEW c \in Collectors, Check(c) PROVE GapProofsHold'
  BY <1>5, CheckKeepsProofs
<1>6. ASSUME NEW c \in Collectors, Insert(c) PROVE GapProofsHold'
  BY <1>6, InsertKeepsProofs
<1>7. ASSUME NEW c \in Collectors, Finish(c) \/ Kill(c) PROVE GapProofsHold'
  <2>1. PICK pc \in {"off", "failed", "killed", "done"} :
          collector' = [collector EXCEPT ![c] = [Idle EXCEPT !.pc = pc]]
    BY <1>7 DEF Finish, Kill
  <2>2. UNCHANGED <<feed, rows>>
    BY <1>7 DEF Finish, Kill
  <2> QED BY <2>1, <2>2, MovedCollector, NeverInserting, GapProofsStill
<1>8. ASSUME NEW r \in Recoverers, ScriptLaunch(r) PROVE GapProofsHold'
  <2>1. PICK c \in Collectors, parallel \in BOOLEAN : Opened(c, script[r].group, parallel)
    BY <1>8 DEF ScriptLaunch
  <2> QED BY <1>8, <2>1, OpenedNeverInserts, GapProofsStill DEF ScriptLaunch
<1>9. ASSUME NEW r \in Recoverers,
             ScriptVerify(r) \/ ScriptNext(r) \/ ScriptPrepare(r) \/ ScriptCheck(r) \/ ScriptKill(r)
      PROVE  GapProofsHold'
  <2>1. UNCHANGED <<feed, rows, collector>>
    BY <1>9 DEF ScriptVerify, ScriptNext, ScriptPrepare, ScriptCheck, ScriptKill
  <2> QED BY <2>1 DEF GapProofsHold
<1> QED BY <1>1, <1>2, <1>3, <1>4, <1>5, <1>6, <1>7, <1>8, <1>9
        DEF CollectionNext, CollectorStep, ScriptStep

(* The proofs of whatever a collector holds or has inserted name its gaps,   *)
(* and reach over each of them.                                              *)
THEOREM GapProofsInvariant == CollectionSpec => []GapProofsHold
<1>1. CollectionInit => GapProofsHold
  <2> SUFFICES ASSUME CollectionInit PROVE GapProofsHold
    OBVIOUS
  <2>1. rows = <<>> /\ Len(rows) = 0 /\ feed \in DOMAIN Feeds
    BY DEF CollectionInit
  <2>2. ASSUME NEW c \in Collectors PROVE collector[c].pc = "off"
    BY DEF CollectionInit, Idle
  <2> QED BY <2>1, <2>2 DEF GapProofsHold
<1> QED BY <1>1, GapProofsStep, CollectionInvariant, PTL DEF CollectionSpec

LEMMA ManifestEnds ==
    ASSUME NEW days, NEW a \in Int, NEW b \in Int, a <= b
    PROVE  /\ Head(Manifests(days, a, b)) = DailyManifest(a, DayFile(days, a))
           /\ Last(Manifests(days, a, b)) = DailyManifest(b, DayFile(days, b))
<1> DEFINE n == b - a + 1
<1>1. n \in Nat /\ n >= 1 /\ a + 1 - 1 = a /\ a + n - 1 = b /\ 1 \in 1 .. n /\ n \in 1 .. n
  OBVIOUS
<1>2. Manifests(days, a, b) = [m \in 1 .. n |-> DailyManifest(a + m - 1, DayFile(days, a + m - 1))]
  BY DEF Manifests
<1> HIDE DEF n
<1>3. ASSUME NEW s, s = Manifests(days, a, b) PROVE Head(s) = s[1] /\ Last(s) = s[n]
  <2>1. DOMAIN s = 1 .. n /\ s = [m \in 1 .. n |-> s[m]]
    BY <1>2, <1>3
  <2>2. Len(s) = n
    BY <1>1, <2>1
  <2>3. Head(s) = s[1]
    <3>1. s \in Seq({s[m] : m \in 1 .. n})
      BY <1>1, <2>1
    <3> QED BY <1>1, <2>2, <3>1
  <2> QED BY <2>2, <2>3 DEF Last
<1>4. Manifests(days, a, b)[1] = DailyManifest(a, DayFile(days, a))
  BY <1>1, <1>2
<1>5. Manifests(days, a, b)[n] = DailyManifest(b, DayFile(days, b))
  BY <1>1, <1>2
<1> QED BY <1>3, <1>4, <1>5

(* What the daily archives say of a gap the ledger holds.                    *)
Reproduced(gap, days) ==
  \/ \A d \in DayOf(gap.from) .. DayOf(gap.to) : Missing(gap) \cap Numbers(days[d].trades) = {}
  \/ /\ DayOf(gap.from) < DayOf(gap.to) - 1
     /\ \A x \in Missing(gap) : \E d \in DayOf(gap.from) .. DayOf(gap.to) : x \in Numbers(days[d].trades)

LEMMA RowGapIsReproduced ==
    ASSUME NEW f \in DOMAIN Feeds, NEW done, Replayed(f, done), Len(done) \in Nat,
           NEW i \in 1 .. Len(done), ProofsReach(done[i]), NEW k \in DOMAIN done[i].gaps
    PROVE  Reproduced(done[i].gaps[k], Feeds[f].day[Plan[i].symbol])
<1> DEFINE gap == done[i].gaps[k]
           days == Feeds[f].day[Plan[i].symbol]
           x == ScanOf(Feeds[f], i, PriorAt(f, i))
           a == DayOf(gap.from)
           b == DayOf(gap.to)
<1>1. GapInside(gap)
  BY RowGaps
<1>2. i \in 1 .. Len(Plan) /\ done[i] = ExtractBatch(Feeds[f], i, PriorAt(f, i)) /\ done[i] # Raised
      /\ done[i].gaps = x.gaps
  <2>1. i \in 1 .. Len(Plan) /\ BatchAt(f, i) # Raised /\ done[i] = BatchAt(f, i)
    BY RowScan
  <2>2. BatchAt(f, i) = ExtractBatch(Feeds[f], i, PriorAt(f, i))
    BY DEF BatchAt
  <2> HIDE DEF x
  <2>3. done[i].gaps = x.gaps
    BY <2>1, <2>2, ExtractionKeeps DEF x
  <2> QED BY <2>1, <2>2, <2>3
<1>3. Corroborate(x, days) # Raised /\ done[i] = Corroborate(x, days)
  <2> HIDE DEF x, days
  <2>1. \/ x.gaps = <<>>
        \/ Corroborate(x, days) # Raised /\ done[i] = Corroborate(x, days)
    BY <1>2, ExtractionIs DEF x, days
  <2>2. x.gaps # <<>>
    BY <1>2
  <2> QED BY <2>1, <2>2
<1>4. "proofs" \in DOMAIN x
  <2>1. x # Raised
    BY <1>2, ExtractionIs
  <2>2. x = Extract(Plan[i].symbol, Plan[i].period, PeriodStart(Plan[i].period),
                    PeriodEnd(Plan[i].period), Trades(f, i), PriorAt(f, i))
    BY DEF ScanOf, Trades, MonthTrades
  <2> HIDE DEF x
  <2> QED BY <2>1, <2>2, ScanKeeps DEF ScanFields
<1>5. /\ a \in 0 .. Months * MonthDays - 1 /\ b \in 0 .. Months * MonthDays - 1 /\ a <= b
      /\ a \in Nat /\ b \in Nat /\ Months * MonthDays \in Nat
  <2>1. /\ gap.from \in Nat /\ gap.to \in Nat /\ gap.from <= gap.to
        /\ gap.to < LastTick /\ gap.from < LastTick
    BY <1>1 DEF GapInside
  <2>2. Months * MonthDays \in Nat
    BY PlanAssumption
  <2> HIDE DEF gap
  <2> QED BY <2>1, <2>2, DayOfIs
<1>6. gap = x.gaps[k] /\ k \in DOMAIN x.gaps
  BY <1>2
<1> HIDE DEF x, days, a, b
<1>7. /\ Shown(gap, days, a, b)
      /\ done[i].proofs[k] = [gap |-> gap, days |-> Manifests(days, a, b)]
  <2>1. a = DayOf(x.gaps[k].from) /\ b = DayOf(x.gaps[k].to)
    BY <1>6 DEF a, b
  <2> QED BY <1>3, <1>4, <1>5, <1>6, <2>1, CorroborationIs
<1>8. ProofReaches([gap |-> gap, days |-> Manifests(days, a, b)])
  <2>1. k \in DOMAIN done[i].proofs
    BY DEF ProofsReach
  <2> QED BY <1>7, <2>1 DEF ProofsReach
<1>9. ASSUME NEW d \in a .. b PROVE IsDay(DayFile(days, d), days, d)
  <2>1. d \in 0 .. Months * MonthDays - 1
    BY <1>5
  <2>2. DayFile(days, d) # <<>>
    BY <1>7 DEF Shown
  <2>3. Plan[i].symbol \in {Symbols[m] : m \in DOMAIN Symbols}
    BY <1>2, PlanPeriods
  <2> QED BY <2>1, <2>2, <2>3, DayFileIs DEF days
<1>10. \A d \in a .. b : DayFile(days, d) = days[d].trades
  BY <1>9 DEF IsDay
<1>11. CASE a = b
  <2>1. IsDay(DayFile(days, a), days, a) /\ a \in a .. b
    BY <1>5, <1>9, <1>11
  <2>2. SameDayGapIsReproduced(gap, DayFile(days, a))
    BY <1>7, <1>11 DEF Shown
  <2> HIDE DEF gap
  <2>3. Missing(gap) \cap Numbers(DayFile(days, a)) = {}
    BY <1>1, <2>1, <2>2, SameDayHolds DEF IsDay
  <2>4. ASSUME NEW d \in a .. b PROVE Missing(gap) \cap Numbers(days[d].trades) = {}
    <3>1. d = a
      BY <1>5, <1>11
    <3> QED BY <1>10, <2>1, <2>3, <3>1
  <2> QED BY <2>4 DEF Reproduced, a, b, gap, days
<1>12. CASE a # b
  <2>1. a < b
    BY <1>5, <1>12
  <2>2. CrossDayGapIsReproduced(gap, FlattenSeq(DayFiles(days, a, b)))
    BY <1>7, <1>12 DEF Shown
  <2>3. Last(DayFile(days, a)).id = gap.prev /\ Head(DayFile(days, b)).id = gap.next
    <3>1. /\ Head(Manifests(days, a, b)).lastId = gap.prev
          /\ Last(Manifests(days, a, b)).firstId = gap.next
      <4>1. \/ a = b
            \/ /\ Head(Manifests(days, a, b)).lastId = gap.prev
               /\ Last(Manifests(days, a, b)).firstId = gap.next
        <5> HIDE DEF gap
        <5> QED BY <1>8 DEF ProofReaches, a, b
      <4> QED BY <1>12, <4>1
    <3>2. /\ Head(Manifests(days, a, b)) = DailyManifest(a, DayFile(days, a))
          /\ Last(Manifests(days, a, b)) = DailyManifest(b, DayFile(days, b))
      BY <1>5, ManifestEnds
    <3>3. /\ DailyManifest(a, DayFile(days, a)).lastId = Last(DayFile(days, a)).id
          /\ DailyManifest(b, DayFile(days, b)).firstId = Head(DayFile(days, b)).id
      BY DEF DailyManifest
    <3> HIDE DEF gap
    <3> QED BY <3>1, <3>2, <3>3
  <2>4. b = DayOf(gap.to)
    BY DEF b
  <2> HIDE DEF gap
  <2>5. \/ \A d \in a .. b : Missing(gap) \cap Numbers(DayFile(days, d)) = {}
        \/ a < b - 1 /\ \A y \in Missing(gap) : \E z \in DayTrades(days, a, b) : z.id = y
    <3>1. a \in Nat /\ b \in Nat /\ \A d \in a .. b : IsDay(DayFile(days, d), days, d)
      BY <1>5, <1>9
    <3>2. GapInside(gap) /\ DayOf(gap.to) = b
      BY <1>1, <2>4
    <3> QED BY <2>1, <2>2, <2>3, <3>1, <3>2, CrossDayHolds
  <2>6. CASE \A d \in a .. b : Missing(gap) \cap Numbers(DayFile(days, d)) = {}
    <3>1. \A d \in a .. b : Missing(gap) \cap Numbers(days[d].trades) = {}
      BY <1>10, <2>6
    <3> QED BY <3>1 DEF Reproduced, a, b, gap, days
  <2>7. CASE a < b - 1 /\ \A y \in Missing(gap) : \E z \in DayTrades(days, a, b) : z.id = y
    <3>1. ASSUME NEW y \in Missing(gap) PROVE \E d \in a .. b : y \in Numbers(days[d].trades)
      <4>1. PICK z \in DayTrades(days, a, b) : z.id = y
        BY <2>7
      <4>2. PICK d \in a .. b : \E m \in DOMAIN DayFile(days, d) : z = DayFile(days, d)[m]
        BY <4>1 DEF DayTrades
      <4>3. y \in Numbers(DayFile(days, d))
        BY <4>1, <4>2 DEF Numbers
      <4> QED BY <1>10, <4>3
    <3>2. a < b - 1 /\ \A y \in Missing(gap) : \E d \in a .. b : y \in Numbers(days[d].trades)
      BY <2>7, <3>1
    <3> QED BY <3>2 DEF Reproduced, a, b, gap, days
  <2> QED BY <2>5, <2>6, <2>7
<1> QED BY <1>11, <1>12

LEMMA GapsFromProofs == CollectionInv /\ GapProofsHold => GapsAreReproduced
<1> SUFFICES ASSUME CollectionInv, GapProofsHold, NEW i \in DOMAIN rows, NEW k \in DOMAIN rows[i].gaps
             PROVE  LET gap == rows[i].gaps[k]
                        missing == gap.prev + 1 .. gap.next - 1
                        daily == DailyNumbers(rows[i].symbol, DayOf(gap.from) .. DayOf(gap.to))
                    IN \/ missing \cap daily = {}
                       \/ DayOf(gap.from) < DayOf(gap.to) - 1 /\ missing \subseteq daily
  BY DEF GapsAreReproduced
<1> DEFINE gap == rows[i].gaps[k]
           days == Feeds[feed].day[rows[i].symbol]
           span == DayOf(gap.from) .. DayOf(gap.to)
<1>1. i \in 1 .. Len(rows) /\ Len(rows) \in Nat /\ Replayed(feed, rows) /\ feed \in DOMAIN Feeds
      /\ ProofsReach(rows[i])
  BY LedgerShape DEF CollectionInv, GapProofsHold
<1>2. rows[i].symbol = Plan[i].symbol
  BY <1>1, RowScan
<1>3. Reproduced(gap, days)
  BY <1>1, <1>2, RowGapIsReproduced
<1>4. DailyNumbers(rows[i].symbol, span) = UNION {Numbers(days[d].trades) : d \in span}
  BY DEF DailyNumbers, Numbers
<1> HIDE DEF gap, days
<1>5. CASE \A d \in span : Missing(gap) \cap Numbers(days[d].trades) = {}
  <2> HIDE DEF span
  <2>1. Missing(gap) \cap UNION {Numbers(days[d].trades) : d \in span} = {}
    BY <1>5
  <2> QED BY <1>4, <2>1 DEF Missing, gap, span
<1>6. CASE /\ DayOf(gap.from) < DayOf(gap.to) - 1
           /\ \A y \in Missing(gap) : \E d \in span : y \in Numbers(days[d].trades)
  <2>1. DayOf(gap.from) < DayOf(gap.to) - 1
    BY <1>6
  <2> HIDE DEF span
  <2>2. Missing(gap) \subseteq UNION {Numbers(days[d].trades) : d \in span}
    BY <1>6
  <2> QED BY <1>4, <2>1, <2>2 DEF Missing, gap, span
<1> QED BY <1>3, <1>5, <1>6 DEF Reproduced

(* A trade the ledger treats as missing is missing from the daily archives   *)
(* too, or these show the whole run of it between two midnights.             *)
THEOREM GapsReproduced == CollectionSpec => []GapsAreReproduced
<1> QED BY GapsFromProofs, CollectionInvariant, GapProofsInvariant, PTL

----------------------------------------------------------------------------
(* What a window is computed from.                                          *)

(* How many trades are not later than a time: those up to some place.        *)
Until(all, time, r) ==
  /\ r \in 0 .. Len(all) /\ UpTo(all, time) = r
  /\ \A k \in 1 .. Len(all) : all[k].t <= time <=> k <= r

LEMMA UpToIs ==
    ASSUME NEW all \in Seq(Trade), Ordered(all), NEW time \in Nat
    PROVE  \E r : Until(all, time, r)
<1> DEFINE n == Len(all)
           S == {i \in DOMAIN all : all[i].t <= time}
<1>1. n \in Nat /\ S \in SUBSET (1 .. n) /\ UpTo(all, time) = Cardinality(S)
  BY DEF UpTo
<1>2. \A k \in 1 .. n : k \in S <=> all[k].t <= time
  OBVIOUS
<1> HIDE DEF S
<1>3. CASE S = {}
  <2>1. UpTo(all, time) = 0
    BY <1>1, <1>3, FS_EmptySet
  <2> QED BY <1>1, <1>2, <1>3, <2>1 DEF Until
<1>4. CASE S # {}
  <2>1. PICK m \in S : \A y \in S : y <= m
    <3> HIDE DEF n
    <3>1. Max(S) \in S /\ \A y \in S : y <= Max(S)
      BY <1>1, <1>4, MaxIsIn
    <3> QED BY <3>1
  <2>2. m \in 1 .. n /\ m \in Nat
    BY <1>1
  <2>3. ASSUME NEW k \in 1 .. n, k <= m PROVE k \in S
    <3>1. k = m \/ all[k].t <= all[m].t
      BY <2>2, <2>3, OrderedAscends
    <3>2. all[k] \in Trade /\ all[m] \in Trade
      BY <2>2
    <3>3. all[k].t \in Nat /\ all[m].t \in Nat
      BY <3>2, TradeFields
    <3>4. all[m].t <= time
      BY <1>2, <2>2
    <3> QED BY <1>2, <2>1, <3>1, <3>3, <3>4
  <2>4. S = 1 .. m
    <3>1. \A y \in S : y \in 1 .. m
      BY <1>1, <2>1, <2>2
    <3>2. \A y \in 1 .. m : y \in S
      BY <1>1, <2>2, <2>3
    <3> QED BY <3>1, <3>2
  <2>5. Cardinality(1 .. m) = m
    <3>1. Cardinality(1 .. m) = m - 1 + 1
      BY <2>2, FS_Interval
    <3> QED BY <2>2, <3>1
  <2>6. \A k \in 1 .. n : all[k].t <= time <=> k <= m
    BY <1>2, <2>2, <2>4
  <2> QED BY <1>1, <2>2, <2>4, <2>5, <2>6 DEF Until
<1> QED BY <1>3, <1>4

Least(S) == CHOOSE n \in S : \A m \in S : n <= m
Greatest(S) == CHOOSE n \in S : \A m \in S : m <= n

LEMMA MinIs == ASSUME NEW S, NEW m \in S, \A n \in S : m <= n, S \subseteq Int
               PROVE  Least(S) = m
<1>1. \A x \in S : (\A n \in S : x <= n) => x = m
  OBVIOUS
<1> QED BY <1>1 DEF Least

LEMMA GreatestIs == ASSUME NEW S, NEW m \in S, \A n \in S : n <= m, S \subseteq Int
                    PROVE  Greatest(S) = m
<1>1. \A x \in S : (\A n \in S : n <= x) => x = m
  OBVIOUS
<1> QED BY <1>1 DEF Greatest

(* A pass over trades knows everything of what is published around a window: *)
(* what is older than its first trade is older than the window's reference,  *)
(* and nothing else is as early as the window's end.                         *)
Knows(all, published, end) ==
  /\ \A k \in 1 .. Len(all) : all[k] \in published
  /\ \A x \in published : \/ \E k \in 1 .. Len(all) : x = all[k]
                          \/ x.id <= all[1].id /\ x.t <= all[1].t
                          \/ x.t > end

PastOf(published, start) == {x \in published : x.t <= start}
TargetOf(published, start, end) == {x \in published : start < x.t /\ x.t <= end}
IdsOf(trades) == {x.id : x \in trades}
Between(all, r, e) == {all[k] : k \in r + 1 .. e}

LEMMA TradeAt ==
    ASSUME NEW all \in Seq(Trade), Ordered(all)
    PROVE  /\ Len(all) \in Nat
           /\ \A k \in 1 .. Len(all) : all[k] \in Trade /\ all[k].id \in Nat /\ all[k].t \in Nat
           /\ \A k, l \in 1 .. Len(all) : k <= l => all[k].id <= all[l].id /\ all[k].t <= all[l].t
           /\ \A k, l \in 1 .. Len(all) : k < l => all[k].id < all[l].id
<1>1. Len(all) \in Nat
  OBVIOUS
<1>2. ASSUME NEW k \in 1 .. Len(all) PROVE all[k] \in Trade /\ all[k].id \in Nat /\ all[k].t \in Nat
  <2>1. all[k] \in Trade
    OBVIOUS
  <2> QED BY <2>1, TradeFields
<1>3. ASSUME NEW k \in 1 .. Len(all), NEW l \in 1 .. Len(all), k < l
      PROVE  all[k].id < all[l].id /\ all[k].t <= all[l].t
  BY <1>3, OrderedAscends
<1>4. ASSUME NEW k \in 1 .. Len(all), NEW l \in 1 .. Len(all), k <= l
      PROVE  all[k].id <= all[l].id /\ all[k].t <= all[l].t
  <2>1. k = l \/ k < l
    BY <1>4
  <2> QED BY <1>2, <1>3, <2>1
<1> QED BY <1>1, <1>2, <1>3, <1>4

LEMMA ReferenceIs ==
    ASSUME NEW all \in Seq(Trade), Ordered(all), NEW published \in SUBSET Trade,
           NEW start \in Nat, NEW end \in Nat, start <= end, Knows(all, published, end),
           NEW r, Until(all, start, r), r # 0
    PROVE  all[r].id = Greatest(IdsOf(PastOf(published, start)))
<1> DEFINE past == PastOf(published, start)
<1>1. r \in 1 .. Len(all) /\ 1 \in 1 .. Len(all) /\ 1 <= r
  BY DEF Until
<1>2. all[r] \in past
  BY <1>1 DEF Until, Knows, PastOf
<1>3. ASSUME NEW x \in past PROVE x.id \in Nat /\ x.id <= all[r].id
  <2>1. x \in published /\ x \in Trade /\ x.t <= start
    BY DEF PastOf
  <2>2. x.id \in Nat /\ x.t \in Nat
    BY <2>1, TradeFields
  <2>3. CASE \E k \in 1 .. Len(all) : x = all[k]
    <3>1. PICK k \in 1 .. Len(all) : x = all[k]
      BY <2>3
    <3>2. k <= r
      BY <2>1, <3>1 DEF Until
    <3> QED BY <1>1, <2>2, <3>1, <3>2, TradeAt
  <2>4. CASE x.id <= all[1].id
    BY <1>1, <2>2, <2>4, TradeAt
  <2>5. CASE x.t > end
    BY <2>1, <2>2, <2>5
  <2> QED BY <2>1, <2>2, <2>3, <2>4, <2>5 DEF Knows
<1>4. IdsOf(past) \subseteq Int /\ all[r].id \in IdsOf(past) /\ \A n \in IdsOf(past) : n <= all[r].id
  BY <1>2, <1>3 DEF IdsOf
<1> HIDE DEF past
<1>5. all[r].id = Greatest(IdsOf(past))
  BY <1>4, GreatestIs
<1> QED BY <1>5 DEF past

Encloses(all, start, end, r, e) == Until(all, start, r) /\ Until(all, end, e) /\ r # 0 /\ r # e

LEMMA TargetIs ==
    ASSUME NEW all \in Seq(Trade), Ordered(all), NEW published \in SUBSET Trade,
           NEW start \in Nat, NEW end \in Nat, start <= end, Knows(all, published, end),
           NEW r, NEW e, Encloses(all, start, end, r, e)
    PROVE  /\ r \in 1 .. Len(all) /\ e \in 1 .. Len(all) /\ r < e
           /\ TargetOf(published, start, end) = Between(all, r, e)
<1>0. Until(all, start, r) /\ Until(all, end, e) /\ r # 0 /\ r # e
  BY DEF Encloses
<1>1. r \in 1 .. Len(all) /\ 1 \in 1 .. Len(all) /\ 1 <= r /\ e \in 0 .. Len(all) /\ Len(all) \in Nat
  BY <1>0, TradeAt DEF Until
<1>2. r < e
  <2>1. all[r].t <= start /\ all[r].t \in Nat
    BY <1>0, <1>1, TradeAt DEF Until
  <2>2. r <= e
    BY <1>0, <1>1, <2>1 DEF Until
  <2> QED BY <1>0, <1>1, <2>2
<1>3. ASSUME NEW x \in TargetOf(published, start, end) PROVE \E k \in r + 1 .. e : x = all[k]
  <2>1. x \in published /\ x \in Trade /\ start < x.t /\ x.t <= end
    BY DEF TargetOf
  <2>2. x.t \in Nat
    BY <2>1, TradeFields
  <2>3. CASE \E k \in 1 .. Len(all) : x = all[k]
    <3>1. PICK k \in 1 .. Len(all) : x = all[k]
      BY <2>3
    <3>2. k <= e /\ ~ (k <= r)
      BY <1>0, <2>1, <2>2, <3>1 DEF Until
    <3> QED BY <1>1, <3>1, <3>2
  <2>4. CASE x.t <= all[1].t
    <3>1. all[1].t <= start /\ all[1].t \in Nat
      BY <1>0, <1>1, TradeAt DEF Until
    <3> QED BY <2>1, <2>2, <2>4, <3>1
  <2>5. CASE x.t > end
    BY <2>1, <2>2, <2>5
  <2> QED BY <2>1, <2>2, <2>3, <2>4, <2>5 DEF Knows
<1>4. ASSUME NEW k \in r + 1 .. e PROVE all[k] \in TargetOf(published, start, end)
  <2>1. k \in 1 .. Len(all) /\ k <= e /\ ~ (k <= r)
    BY <1>1
  <2>2. all[k].t <= end /\ ~ (all[k].t <= start) /\ all[k].t \in Nat /\ all[k] \in published
    BY <1>0, <2>1, TradeAt DEF Until, Knows
  <2> QED BY <2>2 DEF TargetOf
<1> QED BY <1>1, <1>2, <1>3, <1>4 DEF Between

LEMMA TargetEnds ==
    ASSUME NEW all \in Seq(Trade), Ordered(all), NEW r \in 1 .. Len(all), NEW e \in 1 .. Len(all),
           r < e, NEW target, target = Between(all, r, e)
    PROVE  /\ all[r + 1].id = Least(IdsOf(target))
           /\ all[e].id = Greatest(IdsOf(target))
           /\ Cardinality(target) = e - r
<1>1. Len(all) \in Nat /\ r + 1 \in r + 1 .. e /\ e \in r + 1 .. e
  BY TradeAt
<1>2. ASSUME NEW k \in r + 1 .. e
      PROVE  k \in 1 .. Len(all) /\ all[k].id \in Nat /\ all[r + 1].id <= all[k].id /\ all[k].id <= all[e].id
  <2>1. k \in 1 .. Len(all) /\ r + 1 \in 1 .. Len(all) /\ r + 1 <= k /\ k <= e
    BY <1>1
  <2> QED BY <2>1, TradeAt
<1>3. IdsOf(target) = {all[k].id : k \in r + 1 .. e}
  BY DEF IdsOf, Between
<1>4. /\ IdsOf(target) \subseteq Int /\ all[r + 1].id \in IdsOf(target) /\ all[e].id \in IdsOf(target)
      /\ \A n \in IdsOf(target) : all[r + 1].id <= n /\ n <= all[e].id
  BY <1>1, <1>2, <1>3
<1>5. Cardinality(target) = e - r
  <2> DEFINE f == [k \in r + 1 .. e |-> all[k]]
  <2>1. Cardinality(r + 1 .. e) = e - r /\ IsFiniteSet(r + 1 .. e)
    <3>1. Cardinality(r + 1 .. e) = e - (r + 1) + 1 /\ IsFiniteSet(r + 1 .. e)
      BY <1>1, FS_Interval
    <3> QED BY <1>1, <3>1
  <2>2. \A k, l \in r + 1 .. e : f[k] = f[l] => k = l
    <3> SUFFICES ASSUME NEW k \in r + 1 .. e, NEW l \in r + 1 .. e, all[k] = all[l], k < l PROVE FALSE
      BY <1>1
    <3>1. all[k].id < all[l].id
      BY <1>2, TradeAt
    <3> QED BY <1>2, <3>1
  <2>3. f \in Bijection(r + 1 .. e, target)
    <3>1. f \in [r + 1 .. e -> target] /\ \A y \in target : \E k \in r + 1 .. e : f[k] = y
      BY DEF Between
    <3> HIDE DEF f
    <3> QED BY <2>2, <3>1 DEF Bijection, Injection, Surjection, IsInjective
  <2> HIDE DEF f
  <2>4. Cardinality(r + 1 .. e) = Cardinality(target)
    BY <2>1, <2>3, FS_Bijection DEF ExistsBijection
  <2> QED BY <2>1, <2>4
<1> QED BY <1>4, <1>5, MinIs, GreatestIs

LEMMA Apart == ASSUME NEW y \in Nat, NEW z \in Nat, NEW a \in Nat, NEW b \in Nat, z - y - (b - a) = 0
               PROVE  z = y + (b - a)
  OBVIOUS

LEMMA AscendsBy ==
    ASSUME NEW s \in Seq(Trade), Ordered(s), NEW a \in 1 .. Len(s), NEW b \in 1 .. Len(s), a <= b,
           NEW x \in Nat, NEW y \in Nat, x = s[a].id, y = s[b].id
    PROVE  x + (b - a) <= y
<1>1. CASE a = b
  BY <1>1
<1>2. CASE a < b
  BY <1>2, OrderedAscends
<1> QED BY <1>1, <1>2

Dense(all, r, e) == all[e].id = all[r].id + (e - r)
Spans(all, r, e, n) == n \in all[r].id .. all[e].id

LEMMA AtItsPlace ==
    ASSUME NEW all \in Seq(Trade), Ordered(all), NEW r \in 1 .. Len(all), NEW e \in 1 .. Len(all),
           Dense(all, r, e), NEW n, Spans(all, r, e, n)
    PROVE  \E k \in 1 .. Len(all) : all[k].id = n
<1> PICK y \in Nat, z \in Nat : y = all[r].id /\ z = all[e].id
  BY TradeAt
<1>0. z = y + (e - r) /\ n \in Nat /\ y <= n /\ n <= z
  BY DEF Dense, Spans
<1>1. Len(all) \in Nat /\ r \in Nat /\ e \in Nat /\ 1 <= r /\ e <= Len(all)
  OBVIOUS
<1>2. PICK d \in Nat : d = n - y
  BY <1>0
<1>3. d <= e - r /\ n = y + d
  <2>1. n = y + d
    BY <1>0, <1>2
  <2>2. y + d <= y + (e - r)
    BY <1>0, <1>1, <2>1
  <2> QED BY <1>1, <2>1, <2>2
<1>4. PICK k \in Nat : k = r + d
  BY <1>1
<1>5. k \in 1 .. Len(all) /\ r <= k /\ k <= e /\ k - r = d
  BY <1>1, <1>3, <1>4
<1>6. PICK x \in Nat : x = all[k].id
  BY <1>5, TradeAt
<1>7. y + (k - r) <= x
  BY <1>5, <1>6, AscendsBy
<1>8. x + (e - k) <= z
  BY <1>5, <1>6, AscendsBy
<1>9. n <= x
  BY <1>3, <1>5, <1>7
<1>10. x <= n
  BY <1>0, <1>1, <1>3, <1>4, <1>8
<1> QED BY <1>0, <1>5, <1>6, <1>9, <1>10

(* With as many numbers as trades from the reference to the last trade no    *)
(* number between them is left out.                                          *)
LEMMA CleanIsWhole ==
    ASSUME NEW all \in Seq(Trade), Ordered(all), NEW r \in 1 .. Len(all), NEW e \in 1 .. Len(all),
           r < e, all[e].id - all[r].id - (e - r) = 0, NEW n \in all[r].id .. all[e].id
    PROVE  \E k \in 1 .. Len(all) : all[k].id = n
<1>1. r \in Nat /\ e \in Nat /\ all[r].id \in Nat /\ all[e].id \in Nat
  BY TradeAt
<1>2. PICK y \in Nat, z \in Nat : y = all[r].id /\ z = all[e].id
  BY <1>1
<1>3. z - y - (e - r) = 0 /\ n \in y .. z
  BY <1>2
<1>4. z = y + (e - r)
  BY <1>1, <1>3, Apart
<1>5. Dense(all, r, e) /\ Spans(all, r, e, n)
  BY <1>2, <1>4 DEF Dense, Spans
<1> QED BY <1>5, AtItsPlace

(* Laying sequences end to end neither loses nor adds an element.            *)
LEMMA JoinRange ==
    ASSUME NEW T, NEW seqs, NEW n \in Nat, n > 0, Len(seqs) = n,
           \A i \in 1 .. n : seqs[i] \in Seq(T)
    PROVE  \A x : x \in Range(FlattenSeq(seqs)) <=> \E i \in 1 .. n : x \in Range(seqs[i])
<1>1. PICK f : Joins(f, seqs, n, T) /\ FlattenSeq(seqs) = f[n]
  BY FlattenIs
<1> DEFINE Same(m) == \A x : x \in Range(f[m]) <=> \E i \in 1 .. m : x \in Range(seqs[i])
           Wrong == {m \in 1 .. n : ~ Same(m)}
<1>2. ASSUME NEW m \in 2 .. n
      PROVE  /\ f[m - 1] \in Seq(T) /\ seqs[m] \in Seq(T) /\ f[m] = f[m - 1] \o seqs[m]
             /\ \A x : x \in Range(f[m]) <=> x \in Range(f[m - 1]) \/ x \in Range(seqs[m])
  <2>1. m - 1 \in 0 .. n /\ m \in 1 .. n
    OBVIOUS
  <2>2. f[m - 1] \in Seq(T) /\ seqs[m] \in Seq(T) /\ f[m] = f[m - 1] \o seqs[m]
    BY <1>1, <2>1 DEF Joins
  <2>3. ASSUME NEW a \in Seq(T), NEW b \in Seq(T), NEW x
        PROVE  x \in Range(a \o b) <=> x \in Range(a) \/ x \in Range(b)
    <3>1. ASSUME x \in Range(a \o b) PROVE x \in Range(a) \/ x \in Range(b)
      <4>1. PICK k \in 1 .. Len(a) + Len(b) : x = (a \o b)[k]
        BY <3>1 DEF Range
      <4>2. CASE k <= Len(a)
        BY <4>1, <4>2 DEF Range
      <4>3. CASE k > Len(a)
        <5>1. k - Len(a) \in 1 .. Len(b) /\ (a \o b)[k] = b[k - Len(a)]
          BY <4>3
        <5> QED BY <4>1, <5>1 DEF Range
      <4> QED BY <4>2, <4>3
    <3>2. ASSUME x \in Range(a) PROVE x \in Range(a \o b)
      <4>1. PICK k \in 1 .. Len(a) : x = a[k]
        BY <3>2 DEF Range
      <4>2. k \in DOMAIN (a \o b) /\ (a \o b)[k] = a[k]
        OBVIOUS
      <4> QED BY <4>1, <4>2 DEF Range
    <3>3. ASSUME x \in Range(b) PROVE x \in Range(a \o b)
      <4>1. PICK k \in 1 .. Len(b) : x = b[k]
        BY <3>3 DEF Range
      <4>2. Len(a) + k \in DOMAIN (a \o b) /\ (a \o b)[Len(a) + k] = b[k]
        OBVIOUS
      <4> QED BY <4>1, <4>2 DEF Range
    <3> QED BY <3>1, <3>2, <3>3
  <2> QED BY <2>2, <2>3
<1>3. f[1] = seqs[1]
  BY <1>1 DEF Joins
<1>4. CASE Wrong # {}
  <2>1. PICK m \in Wrong : \A y \in Wrong : m <= y
    <3>1. Wrong \in SUBSET Nat
      OBVIOUS
    <3> HIDE DEF Wrong
    <3> QED BY <1>4, <3>1, LeastOf
  <2>2. m \in 1 .. n /\ ~ Same(m)
    OBVIOUS
  <2>3. m # 1
    <3>1. ASSUME m = 1 PROVE Same(m)
      <4>1. \A i \in 1 .. m : i = 1
        BY <3>1
      <4>2. 1 \in 1 .. m
        BY <3>1
      <4> QED BY <1>3, <3>1, <4>1, <4>2
    <3> HIDE DEF Same
    <3> QED BY <2>2, <3>1
  <2>4. m \in 2 .. n /\ m - 1 \in 1 .. n /\ m - 1 < m
    BY <2>2, <2>3
  <2>5. Same(m - 1)
    <3>1. m - 1 \notin Wrong
      <4> HIDE DEF Wrong
      <4> QED BY <2>1, <2>4
    <3> HIDE DEF Same
    <3> QED BY <2>4, <3>1
  <2>6. ASSUME NEW x PROVE x \in Range(f[m]) <=> \E i \in 1 .. m : x \in Range(seqs[i])
    <3>1. x \in Range(f[m]) <=> x \in Range(f[m - 1]) \/ x \in Range(seqs[m])
      BY <1>2, <2>4
    <3>2. \A i : i \in 1 .. m <=> i \in 1 .. m - 1 \/ i = m
      BY <2>4
    <3>3. x \in Range(f[m - 1]) <=> \E i \in 1 .. m - 1 : x \in Range(seqs[i])
      BY <2>5
    <3> HIDE DEF Wrong
    <3> QED BY <3>1, <3>2, <3>3
  <2> QED BY <2>2, <2>6
<1>5. CASE Wrong = {}
  <2>1. n \in 1 .. n
    OBVIOUS
  <2>2. Same(n)
    <3> HIDE DEF Same
    <3> QED BY <1>5, <2>1
  <2> QED BY <1>1, <2>2
<1> QED BY <1>4, <1>5

(* A month's trades come after those of every month before it, up to the one *)
(* its scan started from.                                                    *)
LEMMA EarlierMonths ==
    ASSUME NEW f \in DOMAIN Feeds, NEW done, Replayed(f, done), Len(done) \in Nat,
           NEW i \in 1 .. Len(done), NEW q \in Nat, q < Plan[i].period,
           NEW k \in 1 .. Len(MonthTrades(f, Plan[i].symbol, q))
    PROVE  /\ MonthTrades(f, Plan[i].symbol, q)[k].id <= Passed(f, i)[1].id
           /\ MonthTrades(f, Plan[i].symbol, q)[k].t <= Passed(f, i)[1].t
<1> DEFINE Late(j, p) == \A l \in 1 .. Len(MonthTrades(f, Plan[j].symbol, p)) :
                           /\ MonthTrades(f, Plan[j].symbol, p)[l].id <= Passed(f, j)[1].id
                           /\ MonthTrades(f, Plan[j].symbol, p)[l].t <= Passed(f, j)[1].t
           Right(j) == \A p \in Nat : p < Plan[j].period => Late(j, p)
           Wrong == {j \in 1 .. Len(done) : ~ Right(j)}
<1>1. CASE Wrong # {}
  <2>1. PICK j \in Wrong : \A y \in Wrong : j <= y
    <3>1. Wrong \in SUBSET Nat
      OBVIOUS
    <3> HIDE DEF Wrong
    <3> QED BY <1>1, <3>1, LeastOf
  <2>2. j \in 1 .. Len(done) /\ ~ Right(j)
    OBVIOUS
  <2> HIDE DEF Wrong
  <2>3. ASSUME NEW p \in Nat, p < Plan[j].period PROVE Late(j, p)
    <3> DEFINE h == j - Width
               last == Last(Trades(f, h))
    <3>1. /\ j \in 1 .. Len(Plan) /\ Plan[j].period \in Nat /\ Plan[j].period > 0
      BY <2>2, <2>3, RowIs, PeriodsAscend
    <3>2. /\ h \in 1 .. Len(Plan) /\ h < j /\ Plan[h].symbol = Plan[j].symbol
          /\ Plan[h].period = Plan[j].period - 1
      BY <3>1, MonthBefore
    <3>3. h \in 1 .. Len(done) /\ PriorAt(f, j) = <<last>> /\ last \in Trade
      BY <2>2, <3>1, PriorIs
    <3>4. h \notin Wrong
      BY <2>1, <2>2, <3>2, <3>3
    <3>5. Right(h)
      <4> HIDE DEF Right
      <4> QED BY <3>3, <3>4 DEF Wrong
    <3> HIDE DEF h
    <3>6. /\ Trades(f, j) \in Seq(Trade) /\ Trades(f, h) \in Seq(Trade) /\ Trades(f, h) # <<>>
          /\ PriorAt(f, h) \in Seq(Trade) /\ Ordered(Passed(f, h)) /\ Passed(f, h) \in Seq(Trade)
      BY <2>2, <3>1, <3>2, <3>3, RowScan, PriorIs, PassedIs, TradesType
    <3>7. Passed(f, j)[1] = last
      <4>1. Passed(f, j) = <<last>> \o Trades(f, j)
        BY <3>3 DEF Passed, Scanned
      <4> HIDE DEF last
      <4> QED BY <3>3, <3>6, <4>1
    <3> DEFINE all == Passed(f, h)
    <3>8. last = all[Len(all)] /\ Len(all) \in 1 .. Len(all) /\ Len(all) \in Nat
      <4>1. all = PriorAt(f, h) \o Trades(f, h)
        BY DEF Passed, Scanned
      <4>2. last = Trades(f, h)[Len(Trades(f, h))]
        BY <3>6 DEF Last
      <4>3. ASSUME NEW a \in Seq(Trade), NEW b \in Seq(Trade), b # <<>>
            PROVE  /\ (a \o b)[Len(a \o b)] = b[Len(b)] /\ Len(a \o b) \in 1 .. Len(a \o b)
                   /\ Len(a \o b) \in Nat
        BY <4>3
      <4> HIDE DEF all, last
      <4> QED BY <3>6, <4>1, <4>2, <4>3
    <3>9. CASE p = Plan[h].period
      <4>1. MonthTrades(f, Plan[j].symbol, p) = Trades(f, h)
        BY <3>2, <3>9 DEF Trades
      <4>2. ASSUME NEW l \in 1 .. Len(Trades(f, h))
            PROVE  Trades(f, h)[l].id <= last.id /\ Trades(f, h)[l].t <= last.t
        <5>1. all = PriorAt(f, h) \o Trades(f, h)
          BY DEF Passed, Scanned
        <5>2. ASSUME NEW a \in Seq(Trade), NEW b \in Seq(Trade), NEW m \in 1 .. Len(b)
              PROVE  Len(a) + m \in 1 .. Len(a \o b) /\ (a \o b)[Len(a) + m] = b[m]
          OBVIOUS
        <5>3. \E m \in 1 .. Len(all) : all[m] = Trades(f, h)[l]
          <6> HIDE DEF all
          <6> QED BY <3>6, <5>1, <5>2
        <5> HIDE DEF all, last
        <5>4. PICK m \in 1 .. Len(all) : all[m] = Trades(f, h)[l]
          BY <5>3
        <5>5. m <= Len(all)
          BY <3>8
        <5> QED BY <3>6, <3>8, <5>4, <5>5, TradeAt DEF all
      <4> HIDE DEF last
      <4> QED BY <3>7, <4>1, <4>2
    <3>10. CASE p # Plan[h].period
      <4>1. p < Plan[h].period
        BY <2>3, <3>1, <3>2, <3>10
      <4>2. Late(h, p)
        BY <3>5, <4>1
      <4>3. 1 \in 1 .. Len(all) /\ 1 <= Len(all)
        BY <3>8
      <4> HIDE DEF last
      <4>4. all[1].id <= last.id /\ all[1].t <= last.t /\ last.id \in Nat /\ last.t \in Nat
            /\ all[1].id \in Nat /\ all[1].t \in Nat
        BY <3>6, <3>8, <4>3, TradeAt
      <4> DEFINE month == MonthTrades(f, Plan[h].symbol, p)
      <4>5. Plan[h].symbol \in {Symbols[x] : x \in DOMAIN Symbols} /\ p \in 0 .. Months - 1
        BY <3>2, <4>1, PlanPeriods, WidthType
      <4>6. month \in Seq(Trade)
        BY <4>5, MonthType
      <4>7. ASSUME NEW l \in 1 .. Len(month) PROVE month[l].id <= last.id /\ month[l].t <= last.t
        <5>1. month[l].id <= all[1].id /\ month[l].t <= all[1].t
          BY <4>2
        <5> HIDE DEF month, all
        <5>2. month[l] \in Trade
          BY <4>6
        <5>3. month[l].id \in Nat /\ month[l].t \in Nat
          BY <5>2, TradeFields
        <5>4. PICK x, y, v, w : x = all[1].id /\ y = all[1].t /\ v = month[l].id /\ w = month[l].t
          OBVIOUS
        <5>5. PICK id, t : id = last.id /\ t = last.t
          OBVIOUS
        <5>6. /\ x \in Nat /\ y \in Nat /\ v \in Nat /\ w \in Nat /\ id \in Nat /\ t \in Nat
              /\ v <= x /\ x <= id /\ w <= y /\ y <= t
          BY <4>4, <5>1, <5>3, <5>4, <5>5
        <5>7. v <= id /\ w <= t
          BY <5>6
        <5> QED BY <5>4, <5>5, <5>7
      <4> HIDE DEF all
      <4> QED BY <3>2, <3>7, <4>7
    <3> QED BY <3>9, <3>10
  <2> QED BY <2>2, <2>3
<1>2. CASE Wrong = {}
  <2>1. Right(i)
    <3> HIDE DEF Right
    <3> QED BY <1>2
  <2>2. Late(i, q)
    BY <2>1
  <2> QED BY <2>2
<1> QED BY <1>1, <1>2

----------------------------------------------------------------------------
(* The windows of one scan.                                                 *)

Referenced(all, grid) == Kept(grid, {k \in DOMAIN grid : ~MissingReference(all, grid[k])})
Traded(all, referenced) == Kept(referenced, {k \in DOMAIN referenced : ~EmptyTarget(all, referenced[k])})

IsBoundary(g, start, end) ==
  \E b \in start .. end - 1 : g = <<b, b % Quarter>> /\ b % Quarter \in Phases

LEMMA BoundaryIs ==
    ASSUME NEW start \in Nat, NEW end \in Nat, start < end
    PROVE  /\ Boundaries(start, end) \in Seq(Int \X Int)
           /\ \A k \in DOMAIN Boundaries(start, end) : IsBoundary(Boundaries(start, end)[k], start, end)
<1> DEFINE ticks == [k \in 1 .. end - start |-> start + k - 1]
           places == {k \in DOMAIN ticks : ticks[k] % Quarter \in Phases}
           grid == Kept(ticks, places)
<1>1. ticks \in Seq(Int) /\ Len(ticks) = end - start
  OBVIOUS
<1>2. \A k \in places \cap (1 .. Len(ticks)) : ticks[k] \in start .. end - 1 /\ ticks[k] % Quarter \in Phases
  OBVIOUS
<1>3. Boundaries(start, end) = [k \in DOMAIN grid |-> <<grid[k], grid[k] % Quarter>>]
  BY DEF Boundaries
<1>4. grid \in Seq({ticks[p] : p \in places \cap (1 .. Len(ticks))})
  <2> HIDE DEF ticks, places
  <2> QED BY <1>1, KeptFrom
<1> HIDE DEF ticks, places
<1>5. ASSUME NEW k \in DOMAIN grid PROVE grid[k] \in start .. end - 1 /\ grid[k] % Quarter \in Phases
  <2>1. grid[k] \in {ticks[p] : p \in places \cap (1 .. Len(ticks))}
    <3> HIDE DEF grid
    <3> QED BY <1>4
  <2> HIDE DEF grid
  <2> QED BY <1>2, <2>1
<1>6. Len(grid) \in Nat /\ DOMAIN grid = 1 .. Len(grid)
  <2> HIDE DEF grid
  <2> QED BY <1>4
<1> HIDE DEF grid
<1>7. Boundaries(start, end) \in Seq(Int \X Int)
  <2>1. ASSUME NEW k \in 1 .. Len(grid) PROVE <<grid[k], grid[k] % Quarter>> \in Int \X Int
    <3>1. grid[k] \in start .. end - 1 /\ grid[k] % Quarter \in Phases
      BY <1>5, <1>6
    <3>2. Phases \subseteq Int
      <4>1. Quarter \in Nat /\ Phases \subseteq 0 .. Quarter - 1
        BY GridAssumption
      <4> QED BY <4>1
    <3>3. grid[k] \in Int /\ grid[k] % Quarter \in Int
      <4> PICK y : y = grid[k] % Quarter
        OBVIOUS
      <4>1. y \in Int
        BY <3>1, <3>2
      <4>2. grid[k] \in Int
        BY <3>1
      <4> QED BY <4>1, <4>2
    <3> QED BY <3>3
  <2> QED BY <1>3, <1>6, <2>1
<1>8. ASSUME NEW k \in DOMAIN Boundaries(start, end) PROVE IsBoundary(Boundaries(start, end)[k], start, end)
  <2>1. k \in DOMAIN grid /\ Boundaries(start, end)[k] = <<grid[k], grid[k] % Quarter>>
    BY <1>3
  <2> QED BY <1>5, <2>1 DEF IsBoundary
<1> QED BY <1>7, <1>8

LEMMA TradedIs ==
    ASSUME NEW T, NEW all, NEW grid \in Seq(T), NEW k \in DOMAIN Traded(all, Referenced(all, grid))
    PROVE  \E p \in DOMAIN grid : /\ Traded(all, Referenced(all, grid))[k] = grid[p]
                                  /\ ~MissingReference(all, grid[p]) /\ ~EmptyTarget(all, grid[p])
<1> DEFINE known == {p \in DOMAIN grid : ~MissingReference(all, grid[p])}
           A == {grid[p] : p \in known \cap (1 .. Len(grid))}
           ref == Referenced(all, grid)
           full == {p \in DOMAIN ref : ~EmptyTarget(all, ref[p])}
           B == {ref[p] : p \in full \cap (1 .. Len(ref))}
           out == Traded(all, ref)
<1>1. ref \in Seq(A)
  <2>1. ref = Kept(grid, known)
    BY DEF Referenced
  <2> HIDE DEF ref, known
  <2> QED BY <2>1, KeptFrom
<1>2. out \in Seq(B)
  <2>1. out = Kept(ref, full)
    BY DEF Traded
  <2> HIDE DEF out, full, ref, A
  <2> QED BY <1>1, <2>1, KeptFrom
<1>3. out[k] \in B
  <2>1. k \in DOMAIN out
    OBVIOUS
  <2> HIDE DEF out, B
  <2> QED BY <1>2, <2>1
<1>4. PICK q \in full : out[k] = ref[q]
  <2> HIDE DEF out, full, ref
  <2> QED BY <1>3
<1>5. q \in DOMAIN ref /\ ~EmptyTarget(all, ref[q])
  <2> HIDE DEF ref
  <2> QED BY <1>4
<1>6. ref[q] \in A
  <2> HIDE DEF ref, A
  <2> QED BY <1>1, <1>5
<1>7. PICK p \in known : ref[q] = grid[p]
  <2> HIDE DEF ref, known
  <2> QED BY <1>6
<1>8. p \in DOMAIN grid /\ ~MissingReference(all, grid[p])
  BY <1>7
<1> HIDE DEF ref, out, known, full, A, B
<1>9. out[k] = grid[p] /\ ~EmptyTarget(all, grid[p])
  BY <1>4, <1>5, <1>7
<1> QED BY <1>8, <1>9 DEF ref, out

(* A boundary with trades on both sides, and its window.                     *)
WindowOf(w, all, b) ==
  /\ b % Quarter \in Phases
  /\ w = WindowAt(all, <<b, b % Quarter>>)
  /\ UpTo(all, b) # 0 /\ UpTo(all, b) # UpTo(all, b + Window)

LEMMA ScanWindows ==
    ASSUME NEW symbol, NEW period, NEW start \in Nat, NEW end \in Nat, start < end, NEW trades, NEW prior,
           NEW x, x = Extract(symbol, period, start, end, trades, prior), x # Raised,
           NEW all, all = Scanned(prior, trades), NEW k \in DOMAIN x.windows
    PROVE  \E b \in start .. end - 1 : WindowOf(x.windows[k], all, b)
<1> DEFINE grid == Boundaries(start, end)
           traded == Traded(all, Referenced(all, grid))
<1>1. x.windows = [i \in DOMAIN traded |-> WindowAt(all, traded[i])]
  BY DEF Extract, Traded, Referenced
<1>2. grid \in Seq(Int \X Int) /\ \A p \in DOMAIN grid : IsBoundary(grid[p], start, end)
  BY BoundaryIs
<1> HIDE DEF traded
<1>3. k \in DOMAIN traded /\ x.windows[k] = WindowAt(all, traded[k])
  BY <1>1
<1> HIDE DEF grid
<1>4. PICK p \in DOMAIN grid : /\ traded[k] = grid[p]
                               /\ ~MissingReference(all, grid[p]) /\ ~EmptyTarget(all, grid[p])
  BY <1>2, <1>3, TradedIs DEF traded
<1>5. PICK b \in start .. end - 1 : grid[p] = <<b, b % Quarter>> /\ b % Quarter \in Phases
  BY <1>2 DEF IsBoundary
<1>6. UpTo(all, b) # 0 /\ UpTo(all, b) # UpTo(all, b + Window)
  <2>1. grid[p][1] = b
    BY <1>5
  <2> QED BY <1>4, <2>1 DEF MissingReference, EmptyTarget
<1>7. x.windows[k] = WindowAt(all, <<b, b % Quarter>>)
  BY <1>3, <1>4, <1>5
<1> QED BY <1>5, <1>6, <1>7 DEF WindowOf

LEMMA WindowIs ==
    ASSUME NEW all, NEW b, NEW phase, NEW r, NEW e, UpTo(all, b) = r, UpTo(all, b + Window) = e
    PROVE  LET w == WindowAt(all, <<b, phase>>)
           IN /\ w.start = b /\ w.end = b + Window
              /\ w.reference = all[r].id /\ w.first = all[r + 1].id /\ w.last = all[e].id
              /\ w.count = e - r /\ w.missing = all[e].id - all[r].id - (e - r)
BY DEF WindowAt

(* A window ends before the month does.                                      *)
LEMMA WindowEndsInside ==
    ASSUME NEW period \in 0 .. Months - 1, NEW b \in Nat, b < PeriodEnd(period), b % Quarter \in Phases
    PROVE  b + Window < PeriodEnd(period)
<1>1. /\ Quarter \in Nat /\ Quarter > 0 /\ Window \in Nat /\ Day \in Nat /\ Day % Quarter = 0
      /\ (b % Quarter) + Window < Quarter
  BY GridAssumption
<1>2. PICK q \in Nat, r \in 0 .. Quarter - 1 : b % Quarter = r /\ b = Quarter * q + r /\ Quarter * q \in Int
  BY <1>1, DivMod
<1>3. PICK d \in Nat : Day = Quarter * d
  <2>1. PICK d \in Nat, s \in 0 .. Quarter - 1 : Day % Quarter = s /\ Day = Quarter * d + s /\ Quarter * d \in Int
    BY <1>1, DivMod
  <2>2. Day = Quarter * d
    BY <1>1, <2>1
  <2> QED BY <2>2
<1> DEFINE days == (period + 1) * MonthDays
           c == days * d
<1>4. days \in Nat /\ PeriodEnd(period) = days * Day /\ PeriodEnd(period) \in Nat
  <2>1. period \in Nat /\ MonthDays \in Nat /\ Months \in Nat
    BY PlanAssumption
  <2>2. days \in Nat /\ days = period * MonthDays + MonthDays /\ period * MonthDays \in Nat
    BY <2>1, Scales
  <2> DEFINE a == period * MonthDays
  <2>3. PeriodEnd(period) = a * Day + MonthDays * Day
    BY DEF PeriodEnd, PeriodStart
  <2>4. a \in Nat /\ days = a + MonthDays
    BY <2>2
  <2> HIDE DEF a, days
  <2>5. days * Day = a * Day + MonthDays * Day
    BY <1>1, <2>1, <2>4
  <2>6. PeriodEnd(period) \in Nat
    BY PeriodsInside
  <2> QED BY <2>2, <2>3, <2>5, <2>6
<1> HIDE DEF days
<1>5. c \in Nat /\ PeriodEnd(period) = Quarter * c /\ Quarter * c \in Int
  <2>1. c \in Nat
    BY <1>4, Scales
  <2>2. days * (Quarter * d) = Quarter * (days * d)
    BY <1>1, <1>4
  <2> QED BY <1>1, <1>3, <1>4, <2>1, <2>2
<1> HIDE DEF c
<1>6. CASE q >= c
  <2>1. q = c \/ Quarter * q >= Quarter * c + Quarter
    BY <1>1, <1>5, <1>6, Quotients
  <2> QED BY <1>1, <1>2, <1>5, <2>1
<1>7. CASE q < c
  <2>1. Quarter * c >= Quarter * q + Quarter
    BY <1>1, <1>5, <1>7, Quotients
  <2> QED BY <1>1, <1>2, <1>5, <2>1
<1> QED BY <1>2, <1>5, <1>6, <1>7

(* A row's scan knows all that is published around its windows.              *)
LEMMA PassedKnows ==
    ASSUME NEW f \in DOMAIN Feeds, NEW done, Replayed(f, done), Len(done) \in Nat,
           NEW i \in 1 .. Len(done), NEW published,
           \A x : x \in published <=> \E p \in 1 .. Months : x \in Range(MonthTrades(f, Plan[i].symbol, p - 1)),
           NEW end \in Nat, end < PeriodEnd(Plan[i].period)
    PROVE  published \subseteq Trade /\ Knows(Passed(f, i), published, end)
<1> DEFINE all == Passed(f, i)
           symbol == Plan[i].symbol
           period == Plan[i].period
           month(p) == MonthTrades(f, symbol, p)
<1>1. /\ symbol \in {Symbols[k] : k \in DOMAIN Symbols} /\ period \in 0 .. Months - 1
      /\ period \in Nat /\ Months \in Nat
  <2>1. i \in 1 .. Len(Plan)
    BY RowIs
  <2> QED BY <2>1, PlanPeriods, WidthType
<1>2. /\ all = PriorAt(f, i) \o month(period) /\ PriorAt(f, i) \in Seq(Trade)
      /\ all \in Seq(Trade)
  BY PriorIs, PassedIs DEF Passed, Scanned, Trades
<1>3. ASSUME NEW p \in 0 .. Months - 1
      PROVE  /\ month(p) \in Seq(Trade)
             /\ \A k \in 1 .. Len(month(p)) : PeriodStart(p) <= month(p)[k].t
  BY <1>1, MonthType
<1>4. published \subseteq Trade
  <2> SUFFICES ASSUME NEW x \in published PROVE x \in Trade
    OBVIOUS
  <2>1. PICK p \in 1 .. Months : x \in Range(month(p - 1))
    OBVIOUS
  <2>2. p - 1 \in 0 .. Months - 1
    BY <1>1
  <2> HIDE DEF month
  <2>3. month(p - 1) \in Seq(Trade)
    BY <1>3, <2>2
  <2> QED BY <2>1, <2>3 DEF Range
<1>5. ASSUME NEW k \in 1 .. Len(all) PROVE all[k] \in published
  <2>1. \E p \in 0 .. Months - 1 : all[k] \in Range(month(p))
    <3>1. CASE k > Len(PriorAt(f, i))
      <4>1. ASSUME NEW a \in Seq(Trade), NEW b \in Seq(Trade), NEW l \in 1 .. Len(a \o b), l > Len(a)
            PROVE  (a \o b)[l] \in Range(b)
        <5>1. l - Len(a) \in DOMAIN b /\ (a \o b)[l] = b[l - Len(a)]
          BY <4>1
        <5> QED BY <5>1 DEF Range
      <4>2. month(period) \in Seq(Trade)
        BY <1>1, <1>3
      <4> HIDE DEF month, all
      <4>3. all[k] \in Range(month(period))
        BY <1>2, <3>1, <4>1, <4>2
      <4> QED BY <1>1, <4>3
    <3>2. CASE k <= Len(PriorAt(f, i))
      <4> DEFINE h == i - Width
      <4>1. PriorAt(f, i) # <<>>
        <5> HIDE DEF all, month
        <5> QED BY <3>2
      <4>2. /\ period > 0 /\ h \in 1 .. Len(done) /\ PriorAt(f, i) = <<Last(Trades(f, h))>>
        BY <4>1, PriorIs
      <4>3. i \in 1 .. Len(Plan)
        BY RowIs
      <4>4. Plan[h].symbol = symbol /\ Plan[h].period = period - 1 /\ h \in 1 .. Len(Plan)
        BY <4>2, <4>3, MonthBefore
      <4>5. Trades(f, h) \in Seq(Trade) /\ Trades(f, h) # <<>> /\ Trades(f, h) = month(period - 1)
        <5>1. Trades(f, h) # <<>>
          BY <4>2, RowScan
        <5>2. Trades(f, h) \in Seq(Trade)
          BY <4>4, TradesType
        <5>3. Trades(f, h) = month(period - 1)
          BY <4>4 DEF Trades
        <5> QED BY <5>1, <5>2, <5>3
      <4> HIDE DEF h, month, all
      <4>6. all[k] = Last(Trades(f, h))
        <5> PICK x : x = Last(Trades(f, h))
          OBVIOUS
        <5>1. PriorAt(f, i) = <<x>> /\ Len(<<x>>) = 1
          BY <4>2
        <5>2. month(period) \in Seq(Trade) /\ x \in Trade
          BY <1>1, <1>3, <4>5, LastOf
        <5>3. k = 1
          BY <3>2, <5>1
        <5>4. (<<x>> \o month(period))[1] = x
          BY <5>2
        <5> QED BY <1>2, <5>1, <5>3, <5>4
      <4>7. Last(Trades(f, h)) \in Range(Trades(f, h))
        BY <4>5, LastOf DEF Range
      <4> QED BY <1>1, <4>2, <4>5, <4>6, <4>7
    <3> HIDE DEF all, month
    <3>3. Len(PriorAt(f, i)) \in Nat /\ k \in Nat
      BY <1>2
    <3> QED BY <3>1, <3>2, <3>3
  <2>2. PICK p \in 0 .. Months - 1 : all[k] \in Range(month(p))
    BY <2>1
  <2>3. p + 1 \in 1 .. Months /\ (p + 1) - 1 = p
    BY <1>1
  <2> HIDE DEF all
  <2> QED BY <2>2, <2>3
<1>6. ASSUME NEW x \in published
      PROVE  \/ \E k \in 1 .. Len(all) : x = all[k]
             \/ x.id <= all[1].id /\ x.t <= all[1].t
             \/ x.t > end
  <2>1. PICK p \in 1 .. Months : x \in Range(month(p - 1))
    OBVIOUS
  <2>2. p - 1 \in 0 .. Months - 1 /\ p - 1 \in Nat
    BY <1>1
  <2>3. PICK k \in 1 .. Len(month(p - 1)) : x = month(p - 1)[k]
    <3> HIDE DEF month
    <3>1. month(p - 1) \in Seq(Trade)
      BY <1>3, <2>2
    <3> QED BY <2>1, <3>1 DEF Range
  <2>4. CASE p - 1 < period
    <3>1. /\ month(p - 1)[k].id <= all[1].id
          /\ month(p - 1)[k].t <= all[1].t
      BY <2>2, <2>4, EarlierMonths
    <3> QED BY <2>3, <3>1
  <2>5. CASE p - 1 = period
    <3>1. ASSUME NEW a \in Seq(Trade), NEW b \in Seq(Trade), NEW l \in 1 .. Len(b)
          PROVE  Len(a) + l \in 1 .. Len(a \o b) /\ (a \o b)[Len(a) + l] = b[l]
      OBVIOUS
    <3>2. month(p - 1) \in Seq(Trade)
      BY <1>3, <2>2
    <3>3. month(p - 1) = month(period)
      BY <2>5
    <3> HIDE DEF month, all
    <3> PICK a, b : a = PriorAt(f, i) /\ b = month(p - 1)
      OBVIOUS
    <3>4. a \in Seq(Trade) /\ b \in Seq(Trade) /\ all = a \o b /\ k \in 1 .. Len(b) /\ x = b[k]
      BY <1>2, <2>3, <3>2, <3>3
    <3>5. Len(a) + k \in 1 .. Len(all) /\ all[Len(a) + k] = x
      BY <3>1, <3>4
    <3> QED BY <3>5
  <2>6. CASE p - 1 > period
    <3>1. PeriodStart(p - 1) >= PeriodEnd(period) /\ PeriodStart(p - 1) \in Int /\ PeriodEnd(period) \in Int
      <4> DEFINE q == p - 1
      <4>1. PeriodEnd(period) = PeriodStart(period + 1) /\ PeriodEnd(period) \in Nat
        BY <1>1, PeriodsInside
      <4>2. q \in Nat /\ period + 1 \in Nat /\ period + 1 <= q /\ MonthDays \in Nat /\ Day \in Nat
        BY <1>1, <2>2, <2>6, PlanAssumption, GridAssumption
      <4> HIDE DEF q
      <4>3. (period + 1) * MonthDays <= q * MonthDays /\ (period + 1) * MonthDays \in Nat /\ q * MonthDays \in Nat
        BY <4>2, Scales
      <4>4. ASSUME NEW u \in Nat, NEW v \in Nat, u <= v PROVE u * Day <= v * Day /\ v * Day \in Nat
        BY <4>2, <4>4, Scales
      <4>5. ((period + 1) * MonthDays) * Day <= (q * MonthDays) * Day /\ (q * MonthDays) * Day \in Nat
        BY <4>3, <4>4
      <4>6. PeriodStart(period + 1) <= PeriodStart(q) /\ PeriodStart(q) \in Nat
        BY <4>5 DEF PeriodStart
      <4> QED BY <4>1, <4>6 DEF q
    <3>2. PeriodStart(p - 1) <= month(p - 1)[k].t
      BY <1>3, <2>2
    <3>3. x.t \in Nat
      <4>1. x \in Trade
        BY <1>4
      <4> QED BY <4>1, TradeFields
    <3> HIDE DEF month
    <3>4. PeriodStart(p - 1) <= x.t
      BY <2>3, <3>2
    <3>5. x.t > end
      BY <3>1, <3>3, <3>4
    <3> QED BY <3>5
  <2>7. p \in Nat
    OBVIOUS
  <2> QED BY <1>1, <2>2, <2>4, <2>5, <2>6, <2>7
<1> QED BY <1>4, <1>5, <1>6 DEF Knows

(* What the property says of one window.                                     *)
Causal(w, published) ==
  /\ w.reference = Greatest(IdsOf(PastOf(published, w.start)))
  /\ w.first = Least(IdsOf(TargetOf(published, w.start, w.end)))
  /\ w.last = Greatest(IdsOf(TargetOf(published, w.start, w.end)))
  /\ w.count = Cardinality(TargetOf(published, w.start, w.end))
  /\ IsClean(w) => w.reference .. w.last \subseteq IdsOf(published)

LEMMA WindowIsCausal ==
    ASSUME NEW all \in Seq(Trade), Ordered(all), NEW published \in SUBSET Trade,
           NEW b \in Nat, NEW phase, UpTo(all, b) # 0, UpTo(all, b) # UpTo(all, b + Window),
           Knows(all, published, b + Window)
    PROVE  Causal(WindowAt(all, <<b, phase>>), published)
<1> DEFINE w == WindowAt(all, <<b, phase>>)
           target == TargetOf(published, b, b + Window)
<1>1. Window \in Nat /\ b + Window \in Nat /\ b <= b + Window
  BY GridAssumption
<1>2. PICK r : Until(all, b, r)
  BY UpToIs
<1>3. PICK e : Until(all, b + Window, e)
  BY <1>1, UpToIs
<1>4. UpTo(all, b) = r /\ UpTo(all, b + Window) = e /\ r # 0 /\ r # e
  BY <1>2, <1>3 DEF Until
<1>5. /\ w.start = b /\ w.end = b + Window
      /\ w.reference = all[r].id /\ w.first = all[r + 1].id /\ w.last = all[e].id
      /\ w.count = e - r /\ w.missing = all[e].id - all[r].id - (e - r)
  BY <1>4, WindowIs
<1> HIDE DEF w
<1>6. w.reference = Greatest(IdsOf(PastOf(published, b)))
  BY <1>1, <1>2, <1>4, <1>5, ReferenceIs
<1>7. r \in 1 .. Len(all) /\ e \in 1 .. Len(all) /\ r < e /\ target = Between(all, r, e)
  <2>0. PICK end : end = b + Window
    OBVIOUS
  <2>1. end \in Nat /\ b <= end /\ Knows(all, published, end) /\ Until(all, end, e)
    BY <1>1, <1>3, <2>0
  <2>2. /\ r \in 1 .. Len(all) /\ e \in 1 .. Len(all) /\ r < e
        /\ TargetOf(published, b, end) = Between(all, r, e)
    <3>1. Encloses(all, b, end, r, e)
      BY <1>2, <1>4, <2>1 DEF Encloses
    <3>2. b \in Nat /\ all \in Seq(Trade) /\ Ordered(all) /\ published \in SUBSET Trade
      OBVIOUS
    <3>3. r < e
      BY <2>1, <3>1, <3>2, TargetIs
    <3>4. TargetOf(published, b, end) = Between(all, r, e)
      BY <2>1, <3>1, <3>2, TargetIs
    <3>5. r \in 1 .. Len(all)
      BY <2>1, <3>1, <3>2, TargetIs
    <3>6. e \in 1 .. Len(all)
      BY <2>1, <3>1, <3>2, TargetIs
    <3> QED BY <3>3, <3>4, <3>5, <3>6
  <2> QED BY <2>0, <2>2
<1> HIDE DEF target
<1>8. /\ all[r + 1].id = Least(IdsOf(target))
      /\ all[e].id = Greatest(IdsOf(target))
      /\ Cardinality(target) = e - r
  <2> PICK goal : goal = target
    OBVIOUS
  <2>1. goal = Between(all, r, e)
    BY <1>7
  <2> QED BY <1>7, <2>1, TargetEnds
<1>9. ASSUME IsClean(w), NEW n \in w.reference .. w.last PROVE n \in IdsOf(published)
  <2>1. all[e].id - all[r].id - (e - r) = 0 /\ n \in all[r].id .. all[e].id
    BY <1>5, <1>9 DEF IsClean
  <2>2. PICK k \in 1 .. Len(all) : all[k].id = n
    BY <1>7, <2>1, CleanIsWhole
  <2>3. all[k] \in published
    BY DEF Knows
  <2> QED BY <2>2, <2>3 DEF IdsOf
<1>10. target = TargetOf(published, w.start, w.end) /\ PastOf(published, b) = PastOf(published, w.start)
  BY <1>5 DEF target
<1>11. Causal(w, published)
  BY <1>5, <1>6, <1>8, <1>9, <1>10 DEF Causal
<1> QED BY <1>11 DEF w

LEMMA RowWindowIsCausal ==
    ASSUME NEW f \in DOMAIN Feeds, NEW done, Replayed(f, done), Len(done) \in Nat,
           NEW i \in 1 .. Len(done), NEW published,
           \A x : x \in published <=> \E p \in 1 .. Months : x \in Range(MonthTrades(f, Plan[i].symbol, p - 1)),
           NEW k \in DOMAIN done[i].windows
    PROVE  Causal(done[i].windows[k], published)
<1> DEFINE start == PeriodStart(Plan[i].period)
           end == PeriodEnd(Plan[i].period)
           x == ScanOf(Feeds[f], i, PriorAt(f, i))
           all == Passed(f, i)
<1>1. /\ Plan[i].period \in 0 .. Months - 1 /\ start \in Nat /\ end \in Nat /\ start < end
  <2>1. i \in 1 .. Len(Plan)
    BY RowIs
  <2> QED BY <2>1, PlanPeriods, PeriodsInside
<1>2. /\ x # Raised /\ done[i].windows = x.windows
      /\ x = Extract(Plan[i].symbol, Plan[i].period, start, end, Trades(f, i), PriorAt(f, i))
  BY RowScan DEF ScanOf, Trades, MonthTrades
<1>3. all = Scanned(PriorAt(f, i), Trades(f, i)) /\ all \in Seq(Trade) /\ Ordered(all)
  BY PassedIs DEF Passed
<1> HIDE DEF x, start, end, all
<1>4. PICK b \in start .. end - 1 : WindowOf(x.windows[k], all, b)
  <2>1. k \in DOMAIN x.windows
    BY <1>2
  <2>2. PICK prior, trades : prior = PriorAt(f, i) /\ trades = Trades(f, i)
    OBVIOUS
  <2>3. all = Scanned(prior, trades)
    BY <1>3, <2>2
  <2>4. x = Extract(Plan[i].symbol, Plan[i].period, start, end, trades, prior)
    BY <1>2, <2>2
  <2> QED BY <1>1, <1>2, <2>1, <2>3, <2>4, ScanWindows
<1>5. b \in Nat /\ b < end /\ b + Window < end /\ b + Window \in Nat
  <2>1. b \in Nat /\ b < end /\ Window \in Nat
    BY <1>1, <1>4, GridAssumption
  <2> QED BY <1>1, <1>4, <2>1, WindowEndsInside DEF end, WindowOf
<1>6. published \subseteq Trade /\ Knows(all, published, b + Window)
  BY <1>5, PassedKnows DEF all, end
<1>7. Causal(x.windows[k], published)
  BY <1>3, <1>4, <1>5, <1>6, WindowIsCausal DEF WindowOf
<1> QED BY <1>2, <1>7

LEMMA PublishedIs ==
    ASSUME NEW symbol \in {Symbols[k] : k \in DOMAIN Symbols}, feed \in DOMAIN Feeds, NEW x
    PROVE  x \in Range(SymbolTrades(symbol))
             <=> \E p \in 1 .. Months : x \in Range(MonthTrades(feed, symbol, p - 1))
<1> DEFINE seqs == [p \in 1 .. Months |-> MonthTrades(feed, symbol, p - 1)]
<1>1. Months \in Nat /\ Months > 0
  BY PlanAssumption
<1>2. Len(seqs) = Months
  BY <1>1
<1>3. ASSUME NEW p \in 1 .. Months
      PROVE  seqs[p] = MonthTrades(feed, symbol, p - 1) /\ seqs[p] \in Seq(Trade)
  <2>1. p - 1 \in 0 .. Months - 1
    BY <1>1
  <2> QED BY <2>1, MonthType
<1>4. SymbolTrades(symbol) = FlattenSeq(seqs)
  BY DEF SymbolTrades
<1> HIDE DEF seqs
<1>5. x \in Range(FlattenSeq(seqs)) <=> \E p \in 1 .. Months : x \in Range(seqs[p])
  BY <1>1, <1>2, <1>3, JoinRange
<1> QED BY <1>3, <1>4, <1>5

LEMMA LedgerIsCausal == CollectionInv /\ GapProofsHold => WindowsAreCausal
<1> SUFFICES ASSUME CollectionInv, GapProofsHold, NEW i \in DOMAIN rows, NEW k \in DOMAIN rows[i].windows
             PROVE  Causal(rows[i].windows[k], Range(SymbolTrades(rows[i].symbol)))
  BY DEF WindowsAreCausal, Causal, PastOf, TargetOf, IdsOf, Least, Greatest
<1>1. i \in 1 .. Len(rows) /\ Len(rows) \in Nat /\ Replayed(feed, rows) /\ feed \in DOMAIN Feeds
  BY LedgerShape DEF CollectionInv, GapProofsHold
<1>2. rows[i].symbol = Plan[i].symbol /\ i \in 1 .. Len(Plan)
  BY <1>1, RowScan
<1>3. Plan[i].symbol \in {Symbols[m] : m \in DOMAIN Symbols}
  BY <1>2, PlanPeriods
<1> DEFINE published == Range(SymbolTrades(Plan[i].symbol))
<1>4. \A x : x \in published
             <=> \E p \in 1 .. Months : x \in Range(MonthTrades(feed, Plan[i].symbol, p - 1))
  BY <1>1, <1>3, PublishedIs
<1> HIDE DEF published
<1>5. Causal(rows[i].windows[k], published)
  BY <1>1, <1>4, RowWindowIsCausal
<1> QED BY <1>2, <1>5 DEF published

(* Every window of the ledger looks back to the last published trade at or   *)
(* before its boundary and never past its own end, over any number of months.*)
THEOREM WindowsCausal == CollectionSpec => []WindowsAreCausal
<1> QED BY LedgerIsCausal, CollectionInvariant, GapProofsInvariant, PTL

================================================================================
