--------------------------- MODULE TrialRegistry ---------------------------
(***************************************************************************)
(* trial_registry.py: a JSONL hash chain, its sidecar anchor and the lock  *)
(* file that serializes cooperating processes.  Processes may be killed    *)
(* between any two system calls, and someone without the lock may roll the *)
(* registry file back.                                                     *)
(*                                                                         *)
(* A record's previous_hash is modelled by what it identifies: the entries *)
(* before it.  A daily return series, a fingerprint and a failure class    *)
(* are abstracted to the trial's status.                                   *)
(***************************************************************************)
EXTENDS Naturals, Sequences, SequencesExt

CONSTANTS
    Processes,
    Nobody,
    NoOutcome,
    MaxRecords,    \* bound: records in the registry
    MaxCrashes,    \* bound: processes killed inside an operation
    MaxRollbacks   \* bound: rollbacks by an outsider

ASSUME RegistryBounds ==
    /\ MaxRecords \in Nat
    /\ Nobody \notin Processes

VARIABLES
    file,       \* the complete lines of the registry
    torn,       \* an incomplete line follows them
    anchor,     \* the sidecar seal
    lock,       \* who holds the lock file
    mem,        \* each process's operation in progress
    crashes,
    rollbacks

vars == <<file, torn, anchor, lock, mem, crashes, rollbacks>>

TrialKinds == {"SUCCESS", "FAILURE"}
TerminalKinds == {"SELECTION", "REJECTION"}
\* ref: trial_id of a trial, selected_trial_id, or trial_count of a rejection.
\* FRAGMENT: the end of a line whose beginning was rolled away.
Entry == [kind : TrialKinds \cup TerminalKinds \cup {"FRAGMENT"}, ref : Nat]
Record == [entry : Entry, before : Seq(Entry)]
Anchor == [state : {"absent", "torn", "sealed"}, head : Seq(Entry)]
NoAnchor == [state |-> "absent", head |-> <<>>]
PCs == {"idle", "locked", "sized", "writing", "written", "anchoring", "done"}
Idle == [pc |-> "idle", want |-> [kind |-> "FAILURE", ref |-> 0], snap |-> <<>>]

TypeOK ==
    /\ file \in Seq(Record)
    /\ torn \in BOOLEAN
    /\ anchor \in Anchor
    /\ lock \in Processes \cup {Nobody}
    /\ mem \in [Processes -> [pc : PCs, want : Entry, snap : Seq(Entry)]]
    /\ crashes \in Nat
    /\ rollbacks \in Nat

----------------------------------------------------------------------------
Entries(records) == [i \in DOMAIN records |-> records[i].entry]
IsTerminal(e) == e.kind \in TerminalKinds
Frozen(entries) == entries # <<>> /\ IsTerminal(Last(entries))

\* The body of the loop of _read_unlocked, for line i.
LineVerifies(f, i) ==
    LET e == f[i].entry
    IN  /\ f[i].before = Entries(SubSeq(f, 1, i - 1))
        /\ i > 1 => ~ IsTerminal(f[i - 1].entry)
        /\ \/ e.kind \in TrialKinds /\ e.ref = i
           \/ /\ e.kind = "SELECTION"
              /\ e.ref \in 1..(i - 1)
              /\ f[e.ref].entry.kind = "SUCCESS"
           \/ /\ e.kind = "REJECTION"
              /\ e.ref = i - 1
              /\ e.ref >= 1

\* The seal belongs to a terminal record and to this head, and to nothing else.
AnchorVerifies ==
    IF Frozen(Entries(file))
    THEN anchor = [state |-> "sealed", head |-> Entries(file)]
    ELSE anchor = NoAnchor

\* Mutants: a line that was cut short is skipped; the seal is not compared.
VerifiesIgnoringTail == AnchorVerifies /\ \A i \in DOMAIN file : LineVerifies(file, i)
VerifiesUnsealed == ~ torn /\ \A i \in DOMAIN file : LineVerifies(file, i)

\* _read_unlocked returns a snapshot and raises no RegistryIntegrityError.
Verifies ==
    /\ ~ torn
    /\ AnchorVerifies
    /\ \A i \in DOMAIN file : LineVerifies(file, i)

Init ==
    /\ file = <<>>
    /\ torn = FALSE
    /\ anchor = NoAnchor
    /\ lock = Nobody
    /\ mem = [p \in Processes |-> Idle]
    /\ crashes = 0
    /\ rollbacks = 0

\* What a caller may ask to append to a snapshot.
Requests(entries) ==
    [kind : TrialKinds, ref : {Len(entries) + 1}]
    \cup [kind : {"SELECTION"}, ref : {i \in DOMAIN entries : entries[i].kind = "SUCCESS"}]
    \cup (IF entries = <<>> THEN {} ELSE [kind : {"REJECTION"}, ref : {Len(entries)}])

\* append_success, append_failure, finalize_*: the lock, _read_unlocked and
\* _assert_open.  A failed verification or precondition changes nothing.
Begin(p) ==
    /\ lock = Nobody
    /\ mem[p].pc = "idle"
    /\ Verifies
    /\ ~ Frozen(Entries(file))
    /\ Len(file) < MaxRecords
    /\ \E e \in Requests(Entries(file)) :
          mem' = [mem EXCEPT ![p] = [pc |-> "locked", want |-> e, snap |-> Entries(file)]]
    /\ lock' = p
    /\ UNCHANGED <<file, torn, anchor, crashes, rollbacks>>

\* _write_append, up to the size check under O_APPEND.
CheckSize(p) ==
    /\ mem[p].pc = "locked"
    /\ Len(file) = Len(mem[p].snap)
    /\ mem' = [mem EXCEPT ![p].pc = "sized"]
    /\ UNCHANGED <<file, torn, anchor, lock, crashes, rollbacks>>

Release(p) == /\ lock' = Nobody
              /\ mem' = [mem EXCEPT ![p] = Idle]

\* RegistryConcurrentModificationError.
SizeChanged(p) ==
    /\ mem[p].pc = "locked"
    /\ Len(file) # Len(mem[p].snap)
    /\ Release(p)
    /\ UNCHANGED <<file, torn, anchor, crashes, rollbacks>>

\* The write loop: a first part of the line, then the rest of it and fsync.
WriteSome(p) ==
    /\ mem[p].pc = "sized"
    /\ torn' = TRUE
    /\ mem' = [mem EXCEPT ![p].pc = "writing"]
    /\ UNCHANGED <<file, anchor, lock, crashes, rollbacks>>

WriteRest(p) ==
    LET m == mem[p]
        line == IF torn THEN [entry |-> m.want, before |-> m.snap]
                ELSE [entry |-> [kind |-> "FRAGMENT", ref |-> 0], before |-> <<>>]
    IN  /\ m.pc = "writing"
        /\ file' = Append(file, line)
        /\ torn' = FALSE
        /\ mem' = [mem EXCEPT ![p].pc = IF IsTerminal(m.want) THEN "written" ELSE "done"]
        /\ UNCHANGED <<anchor, lock, crashes, rollbacks>>

\* _write_anchor: O_EXCL, so a seal is never replaced.
CreateAnchor(p) ==
    /\ mem[p].pc = "written"
    /\ anchor = NoAnchor
    /\ anchor' = [state |-> "torn", head |-> <<>>]
    /\ mem' = [mem EXCEPT ![p].pc = "anchoring"]
    /\ UNCHANGED <<file, torn, lock, crashes, rollbacks>>

WriteAnchor(p) ==
    /\ mem[p].pc = "anchoring"
    /\ anchor' = [state |-> "sealed", head |-> Append(mem[p].snap, mem[p].want)]
    /\ mem' = [mem EXCEPT ![p].pc = "done"]
    /\ UNCHANGED <<file, torn, lock, crashes, rollbacks>>

\* The operation verifies what it wrote, returns or raises, and unlocks.
Return(p) ==
    /\ mem[p].pc = "done"
    /\ Release(p)
    /\ UNCHANGED <<file, torn, anchor, crashes, rollbacks>>

\* The process is killed, or a system call fails: the lock is dropped, and what
\* was written stays.
Crash(p) ==
    /\ mem[p].pc # "idle"
    /\ crashes < MaxCrashes
    /\ crashes' = crashes + 1
    /\ Release(p)
    /\ UNCHANGED <<file, torn, anchor, rollbacks>>

\* Someone without the lock cuts the registry file back in place.
RollBack ==
    /\ rollbacks < MaxRollbacks
    /\ rollbacks' = rollbacks + 1
    /\ torn \/ file # <<>>
    /\ \E k \in 0..Len(file) : /\ torn \/ k < Len(file)
                               /\ file' = SubSeq(file, 1, k)
    /\ torn' = FALSE
    /\ UNCHANGED <<anchor, lock, mem, crashes>>

Next ==
    \/ \E p \in Processes :
          \/ Begin(p) \/ CheckSize(p) \/ SizeChanged(p) \/ WriteSome(p) \/ WriteRest(p)
          \/ CreateAnchor(p) \/ WriteAnchor(p) \/ Return(p) \/ Crash(p)
    \/ RollBack

Spec == Init /\ [][Next]_vars

----------------------------------------------------------------------------
(* The promise: TrialLog.                                                  *)

\* A live operation that has written part of what it will write, on top of
\* exactly the log it verified: nobody else can look before it is done.
InFlight ==
    \E p \in Processes :
        LET m == mem[p]
        IN  /\ \A i \in DOMAIN file : LineVerifies(file, i)
            /\ \/ m.pc = "writing" /\ torn /\ anchor = NoAnchor /\ Entries(file) = m.snap
               \/ /\ m.pc \in {"written", "anchoring"} /\ ~ torn
                  /\ Entries(file) = Append(m.snap, m.want)
                  /\ anchor.state = IF m.pc = "written" THEN "absent" ELSE "torn"

\* The trials ahead of the first line that does not verify or is no trial.
IntactTrials(f) ==
    {i \in DOMAIN f : \A j \in 1..i : LineVerifies(f, j) /\ f[j].entry.kind \in TrialKinds}
Attempts(f) == [i \in IntactTrials(f) |-> f[i].entry.kind]

Log == INSTANCE TrialLog WITH
    trials  <- Attempts(file),
    outcome <- IF anchor.state = "sealed" THEN Last(anchor.head) ELSE NoOutcome,
    trusted <- Verifies \/ InFlight

\* The registry keeps TrialLog's promise under crashes at every system call,
\* competing processes and rollbacks of the registry file (lines 1-8).
ImplementsTrialLog == Log!Spec

\* A line cut short by a crash is never extended into a record of mixed origin:
\* every later operation refuses the registry (lines 530-531).
TornLineNeverExtended ==
    [][torn /\ (\A p \in Processes : mem[p].pc # "writing")
       => \A p \in Processes : mem'[p].pc # "writing"]_vars
============================================================================
