---------------------------- MODULE ResearchRecovery ----------------------------
(****************************************************************************)
(* The supervisors of the long research runs                                 *)
(* (scripts/Invoke-ResearchRecovery.ps1) and the processes they start.  A    *)
(* track (the forward observation, or a lineage of the quarter-hour study)   *)
(* has a lock file the operating system drops with its holder, a status file *)
(* that names the child, and a ledger.  A supervisor may die at any step;    *)
(* its child lives on.  What a collector does inside a batch is              *)
(* FeatureCollection's; here it commits batches one by one.  Commands that   *)
(* are typed by hand are not modelled.                                       *)
(****************************************************************************)
EXTENDS Naturals, Sequences, FiniteSets

CONSTANTS Supervisors,  \* supervisor processes
          Processes,    \* identities of child processes: number and start time
          Tracks,       \* the tracks that are supervised
          Batches,      \* batches of a complete ledger
          Group,        \* batches the recovery script lets one collector add
          MaxRuns       \* bound: supervisors started over a behaviour

Lineages == {"v4", "v5"}

ASSUME TrackAssumption == Tracks \subseteq Lineages \cup {"forward"}
ASSUME BatchAssumption == Batches \in Nat \ {0} /\ Group \in Nat \ {0} /\ MaxRuns \in Nat

VARIABLES
  sup,      \* the supervisors
  proc,     \* the child processes and theirs
  status,   \* the status file of every track
  ledger,   \* committed batches of every track's ledger
  result,   \* {} or the lineage whose replication was published, at which length
  runs,     \* supervisors started so far
  escaped   \* history: children that lived on when the last record of them went

vars == <<sup, proc, status, ledger, result, runs, escaped>>

Off == [pc |-> "off", track |-> "none", resume |-> FALSE, todo |-> <<>>, child |-> {}, v4 |-> 0]
Gone == [code |-> "none", kind |-> "none", track |-> "none", parent |-> {}, left |-> 0]

Init ==
  /\ sup = [s \in Supervisors |-> Off]
  /\ proc = [p \in Processes |-> Gone]
  /\ status = [t \in Tracks |-> [state |-> "none", child |-> {}]]
  /\ ledger \in [Tracks -> 0 .. Batches - 1]
  /\ result = {}
  /\ runs = 0
  /\ escaped = {}

Alive(p) == proc[p].code = "running"

(* A mutant: a lock file that is opened for sharing.                         *)
HoldsNothing(s, t) == FALSE

Holds(s, t) == sup[s].pc # "off" /\ sup[s].track = t

(* The kinds of process of the two studies.                                  *)
Forward == {"backup", "sync", "check", "eligibility", "drill"}
QuarterHour == {"collect", "recover", "verify", "replicate"}

(* A mutant: a scan whose pattern matches nothing at all.                    *)
SeenNothing(t) == {}

(* The processes the scan of the process table finds.  Its pattern is -m,    *)
(* white space and the bare name of a module.  A supervisor puts every       *)
(* argument of a phase in quotes, so that no child of a supervisor matches,  *)
(* of any track; the recovery script quotes nothing, so that its collectors  *)
(* match, those of the other lineage too.                                    *)
Seen(t) == {p \in Processes : t # "forward" /\ Alive(p) /\ proc[p].parent # {}}

(* The phases of a run.  Without -Resume a run of v5 ends after its          *)
(* preflight.                                                                *)
Study(prepare) == <<IF prepare THEN "recover" ELSE "collect", "verify", "replicate">>

PhasesOf(t, prepare, resume) ==
  CASE t = "forward" -> <<"backup", "sync", "check", "eligibility", "backup", "drill">>
    [] t = "v4"      -> Study(prepare)
    [] t = "v5"      -> <<"preflight">> \o (IF resume THEN Study(prepare) ELSE <<>>)

(* A process number is used again once nothing names the process that had    *)
(* it; two processes of one number differ in their start times.              *)
Free(p) ==
  /\ ~Alive(p)
  /\ \A s \in Supervisors : p \notin sup[s].child
  /\ \A t \in Tracks : p \notin status[t].child
  /\ \A q \in Processes : Alive(q) => p \notin proc[q].parent
  /\ proc[p].code # "ok" => \A q \in proc[p].parent : ~Alive(q)

--------------------------------------------------------------------------------
(* A mutant: the child is cleared before FAILED is saved.                    *)
FailsForgetting(s) ==
  /\ status' = [status EXCEPT ![sup[s].track] = [state |-> "FAILED", child |-> {}]]
  /\ sup' = [sup EXCEPT ![s] = Off]

(* The supervisor.  Its catch block saves FAILED, with the child it knows.   *)
Fails(s) ==
  /\ status' = [status EXCEPT ![sup[s].track] = [state |-> "FAILED", child |-> sup[s].child]]
  /\ sup' = [sup EXCEPT ![s] = Off]

Open(s) ==
  /\ sup[s].pc = "off" /\ runs < MaxRuns
  /\ \E t \in Tracks, prepare, resume \in BOOLEAN :
       /\ \A o \in Supervisors : ~Holds(o, t)
       /\ resume => t = "v5"
       /\ sup' = [sup EXCEPT ![s] = [pc |-> "reconcile", track |-> t, resume |-> resume, v4 |-> 0,
                                     child |-> {}, todo |-> PhasesOf(t, prepare, resume)]]
  /\ runs' = runs + 1
  /\ UNCHANGED <<proc, status, ledger, result, escaped>>

(* A recorded child that lives, or that cannot be inspected, stops the run,  *)
(* whose FAILED then takes the place of the record that named the child; one *)
(* that is gone, or a run that recorded none, is written off.                *)
Orphaned(record) == record.child # {} \/ record.state \in {"STARTING", "RUNNING"}

Reconcile(s) ==
  LET t == sup[s].track
      recorded == status[t].child
  IN /\ sup[s].pc = "reconcile"
     /\ \/ /\ \E p \in recorded : Alive(p)
           /\ Fails(s)
           /\ escaped' = escaped \cup {p \in recorded : Alive(p)}
        \/ /\ \A p \in recorded : ~Alive(p)
           /\ sup' = [sup EXCEPT ![s].pc = "scan"]
           /\ status' = [status EXCEPT ![t] = IF Orphaned(@)
                           THEN [state |-> "INTERRUPTED", child |-> {}] ELSE @]
           /\ UNCHANGED escaped
     /\ UNCHANGED <<proc, ledger, result, runs>>

Scan(s) ==
  LET t == sup[s].track
  IN /\ sup[s].pc = "scan"
     /\ IF Seen(t) # {}
        THEN Fails(s)
        ELSE /\ sup' = [sup EXCEPT ![s].pc = "begin"]
             /\ status' = [status EXCEPT ![t] = [state |-> "STARTING", child |-> {}]]
     /\ UNCHANGED <<proc, ledger, result, runs, escaped>>

(* A dirty worktree stops any run, a result that is there one of the study.  *)
Begin(s) ==
  LET t == sup[s].track
  IN /\ sup[s].pc = "begin"
     /\ \/ Fails(s)
        \/ /\ t \in Lineages => result = {}
           /\ sup' = [sup EXCEPT ![s].pc = "launch",
                                 ![s].v4 = IF "v4" \in Tracks THEN ledger["v4"] ELSE 0]
           /\ UNCHANGED status
     /\ UNCHANGED <<proc, ledger, result, runs, escaped>>

Running(kind, t, parent, left) ==
  [code |-> "running", kind |-> kind, track |-> t, parent |-> parent, left |-> left]

Launch(s) ==
  /\ sup[s].pc = "launch" /\ sup[s].todo # <<>>
  /\ IF Head(sup[s].todo) = "replicate" /\ result # {}
     THEN Fails(s) /\ UNCHANGED <<proc, escaped>>
     ELSE /\ \E p \in Processes :
               /\ Free(p)
               /\ proc' = [proc EXCEPT ![p] = Running(Head(sup[s].todo), sup[s].track, {}, Batches)]
               /\ sup' = [sup EXCEPT ![s].pc = "record", ![s].child = {p}]
               /\ escaped' = escaped \ {p}
          /\ UNCHANGED status
  /\ UNCHANGED <<ledger, result, runs>>

(* The child is written down after it was started.                           *)
Record(s) ==
  /\ sup[s].pc = "record"
  /\ \/ /\ sup' = [sup EXCEPT ![s].pc = "wait"]
        /\ status' = [status EXCEPT ![sup[s].track] = [state |-> "RUNNING", child |-> sup[s].child]]
     \/ Fails(s)
  /\ UNCHANGED <<proc, ledger, result, runs, escaped>>

(* A mutant: the exit code is not looked at.                                 *)
HarvestAnyway(s) ==
  /\ sup[s].pc = "wait"
  /\ \A p \in sup[s].child : ~Alive(p)
  /\ status' = [status EXCEPT ![sup[s].track] = [state |-> "RUNNING", child |-> {}]]
  /\ sup' = [sup EXCEPT ![s].pc = "launch", ![s].child = {}, ![s].todo = Tail(@)]
  /\ UNCHANGED <<proc, ledger, result, runs, escaped>>

(* The child has ended: its exit code decides.                               *)
Harvest(s) ==
  /\ sup[s].pc = "wait"
  /\ \A p \in sup[s].child : ~Alive(p)
  /\ IF \E p \in sup[s].child : proc[p].code = "bad"
     THEN /\ status' = [status EXCEPT ![sup[s].track] = [state |-> "FAILED", child |-> {}]]
          /\ sup' = [sup EXCEPT ![s] = Off]
     ELSE /\ status' = [status EXCEPT ![sup[s].track] = [state |-> "RUNNING", child |-> {}]]
          /\ sup' = [sup EXCEPT ![s].pc = "launch", ![s].child = {}, ![s].todo = Tail(@)]
  /\ UNCHANGED <<proc, ledger, result, runs, escaped>>

(* The end of the list.  A resumed run of v5 compares V4 with what it was.   *)
V4Changed(s) == sup[s].resume /\ "v4" \in Tracks /\ ledger["v4"] # sup[s].v4

Complete(s) ==
  /\ sup[s].pc = "launch" /\ sup[s].todo = <<>>
  /\ IF V4Changed(s) THEN Fails(s)
     ELSE /\ status' = [status EXCEPT ![sup[s].track] = [state |-> "COMPLETED", child |-> {}]]
          /\ sup' = [sup EXCEPT ![s] = Off]
  /\ UNCHANGED <<proc, ledger, result, runs, escaped>>

(* The supervisor dies: the lock goes, the status file and the child stay.   *)
(* Between the start of a child and the save the file does not name it.      *)
Crash(s) ==
  /\ sup[s].pc # "off"
  /\ sup' = [sup EXCEPT ![s] = Off]
  /\ escaped' = escaped \cup {p \in sup[s].child : sup[s].pc = "record" /\ Alive(p)}
  /\ UNCHANGED <<proc, status, ledger, result, runs>>

SupervisorStep(s) ==
  \/ Reconcile(s) \/ Scan(s) \/ Begin(s) \/ Launch(s) \/ Record(s) \/ Harvest(s) \/ Complete(s)

--------------------------------------------------------------------------------
(* The children.                                                             *)

Exits(p, code) == proc' = [proc EXCEPT ![p].code = code]

(* A collector, or the forward synchronisation: one more batch, or done.     *)
Writers == {"collect", "sync"}

Write(p) ==
  LET t == proc[p].track
  IN /\ Alive(p) /\ proc[p].kind \in Writers
     /\ IF ledger[t] < Batches /\ proc[p].left > 0
        THEN ledger' = [ledger EXCEPT ![t] = @ + 1] /\ proc' = [proc EXCEPT ![p].left = @ - 1]
        ELSE Exits(p, "ok") /\ UNCHANGED ledger
     /\ UNCHANGED <<sup, status, result, runs, escaped>>

(* The recovery script runs one collector after the other over what is left. *)
Collecting(p) == {q \in Processes : proc[q].parent = {p} /\ proc[q].code # "none"}

Recover(p) ==
  /\ Alive(p) /\ proc[p].kind = "recover"
  /\ \A q \in Collecting(p) : ~Alive(q)
  /\ \/ /\ \E q \in Collecting(p) : proc[q].code = "bad"
        /\ Exits(p, "bad") /\ UNCHANGED escaped
     \/ /\ \A q \in Collecting(p) : proc[q].code # "bad"
        /\ ledger[proc[p].track] = Batches
        /\ Exits(p, "ok") /\ UNCHANGED escaped
     \/ /\ \A q \in Collecting(p) : proc[q].code # "bad"
        /\ ledger[proc[p].track] < Batches
        /\ \E q \in Processes :
             /\ Free(q)
             /\ proc' = [proc EXCEPT ![q] = Running("collect", proc[p].track, {p}, Group)]
             /\ escaped' = escaped \ {q}
  /\ UNCHANGED <<sup, status, ledger, result, runs>>

(* The replication verifies a complete ledger and links its result, which    *)
(* fails when the name is taken.                                             *)
Replicate(p) ==
  LET t == proc[p].track
  IN /\ Alive(p) /\ proc[p].kind = "replicate"
     /\ IF ledger[t] = Batches /\ result = {}
        THEN result' = {<<t, ledger[t]>>} /\ Exits(p, "ok")
        ELSE Exits(p, "bad") /\ UNCHANGED result
     /\ UNCHANGED <<sup, status, ledger, runs, escaped>>

(* The phases that change no ledger.                                         *)
Read(p) ==
  /\ Alive(p) /\ proc[p].kind \in {"preflight", "verify", "backup", "check", "eligibility", "drill"}
  /\ Exits(p, "ok")
  /\ UNCHANGED <<sup, status, ledger, result, runs, escaped>>

(* Any of them may fail or be killed, whatever it had started lives on.      *)
Die(p) ==
  /\ Alive(p)
  /\ Exits(p, "bad")
  /\ UNCHANGED <<sup, status, ledger, result, runs, escaped>>

ProcessStep(p) == Write(p) \/ Recover(p) \/ Replicate(p) \/ Read(p)

Next ==
  \/ \E s \in Supervisors : Open(s) \/ SupervisorStep(s) \/ Crash(s)
  \/ \E p \in Processes : ProcessStep(p) \/ Die(p)

Spec == Init /\ [][Next]_vars

--------------------------------------------------------------------------------
Kinds == {"preflight"} \cup Forward \cup QuarterHour

SupRecord == [pc : {"off", "reconcile", "scan", "begin", "launch", "record", "wait"},
              track : Tracks \cup {"none"}, todo : Seq(Kinds),
              resume : BOOLEAN, child : SUBSET Processes, v4 : 0 .. Batches]

ProcRecord == [code : {"none", "running", "ok", "bad"}, kind : Kinds \cup {"none"},
               track : Tracks \cup {"none"}, parent : SUBSET Processes, left : Nat]

TypeOK ==
  /\ sup \in [Supervisors -> SupRecord]
  /\ proc \in [Processes -> ProcRecord]
  /\ status \in [Tracks -> [state : {"none", "STARTING", "RUNNING", "INTERRUPTED",
                                     "FAILED", "COMPLETED"},
                            child : SUBSET Processes]]
  /\ ledger \in [Tracks -> 0 .. Batches]
  /\ result \subseteq Lineages \X {Batches}
  /\ runs \in Nat
  /\ escaped \subseteq Processes

(* "Each track owns an exclusive OS lock and refuses an existing live child   *)
(* or an independently running command for the same research track"          *)
(* (scripts/README.md), so that a ledger has one writer.  The lock and the   *)
(* status file do not give that, and the scan does not see what they lose.   *)
OneWriterPerLedger ==
  \A p, q \in Processes :
    /\ Alive(p) /\ proc[p].kind \in Writers
    /\ Alive(q) /\ proc[q].kind \in Writers
    /\ proc[p].track = proc[q].track
    => p = q

(* A child that escaped, or the collector of a recovery script that did.     *)
Escapee(p) == p \in escaped \/ proc[p].parent \cap escaped # {}

(* What does hold, whoever dies when: two writers of a ledger are never both *)
(* accounted for.  The lock, the status file and, for the collectors of a    *)
(* recovery script that died, the scan together keep a second writer away    *)
(* from every child that has not escaped (Invoke-ResearchRecovery).          *)
SecondWriterEscaped ==
  \A p, q \in Processes :
    /\ Alive(p) /\ proc[p].kind \in Writers
    /\ Alive(q) /\ proc[q].kind \in Writers
    /\ proc[p].track = proc[q].track
    => p = q \/ Escapee(p) \/ Escapee(q)

(* The same of a supervisor past its scan, for every kind of process: what   *)
(* works on its track is its own or an escapee.                              *)
Descends(p, s) ==
  \/ p \in sup[s].child
  \/ proc[p].parent # {} /\ proc[p].parent \subseteq sup[s].child

StrangerEscaped ==
  \A s \in Supervisors : \A p \in Processes :
    /\ sup[s].pc \in {"begin", "launch", "record", "wait"}
    /\ Alive(p) /\ proc[p].track = sup[s].track
    => Descends(p, s) \/ Escapee(p)

(* A phase that lives is remembered: its supervisor waits for it, or the     *)
(* status file of its track names it.  It escapes in two ways only, by the   *)
(* death of a supervisor between start and save and by a refusal that saves  *)
(* FAILED over its name (Invoke-Phase, the catch block).                     *)
Remembered ==
  \A p \in Processes :
    Alive(p) /\ proc[p].parent = {}
    => \/ \E s \in Supervisors : p \in sup[s].child
       \/ p \in status[proc[p].track].child
       \/ p \in escaped

(* A run of V4 that says COMPLETED has published the result of its ledger.   *)
CompletedHasPublished ==
  "v4" \in Tracks /\ status["v4"].state = "COMPLETED" => result = {<<"v4", Batches>>}
================================================================================
