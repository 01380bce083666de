-------------------------------- MODULE StudyRun --------------------------------
(****************************************************************************)
(* How a study turns into evidence: the files a command-line run reads,      *)
(* creates and replaces, in the order it does so.  Several runs of one study *)
(* may be alive at once, each may die at any step, and the source may be     *)
(* edited and committed meanwhile.  A step that raises ends its run, like a  *)
(* death.  What is computed between opening the data and publishing is the   *)
(* business of Campaign and ManagedCell.                                     *)
(****************************************************************************)
EXTENDS Naturals, Sequences, FiniteSets

CONSTANTS Runs,      \* processes over a behaviour; each runs the study once
          Watermark, \* the last minute the collector may seal
          Closed,    \* closed trades of the candidate up to each watermark
          Days,      \* watermark from which the forward study is long enough
          Trades,    \* closed trades the forward study demands
          MaxEdits   \* bound: edits of the source

ASSUME WatermarkAssumption == Watermark \in Nat
ASSUME ClosedAssumption == Closed \in [0 .. Watermark -> Nat]
ASSUME BoundAssumption == Days \in Nat /\ Trades \in Nat /\ MaxEdits \in Nat

VARIABLES
  study,   \* the study of this behaviour
  disk,    \* the files of the study
  tree,    \* the working tree: its content and whether it is committed
  sealed,  \* the forward ledger's common watermark, and whether it is quarantined
  run,     \* the runs
  looks    \* the runs that opened the market data

vars == <<study, disk, tree, sealed, run, looks>>

Files == {"plan", "attempt", "result", "summary", "tmp", "recovered"}
Absent == [by |-> {}, source |-> 0, mark |-> 0, whole |-> FALSE]

(* Verbs of a program, each with the files it is about.                      *)
Do(verb, files) == [do |-> verb, files |-> files]

(* Right-tail: refuse an attempt or a result, load the plan, demand a clean  *)
(* worktree, consume the attempt and read it back, only then open the data,  *)
(* and link the result.                                                      *)
RightTail ==
  << Do("absent", {"attempt", "result"}), Do("capture", {}),
     Do("absent", {"attempt"}), Do("link", {"attempt"}), Do("confirm", {"attempt"}),
     Do("open", {}), Do("link", {"result"}) >>

(* The other one-shot screens take the same steps; two of them read a        *)
(* pinned preflight receipt before they capture the environment.             *)
CrowdedTrend == RightTail
Donchian == RightTail
Sma200 == RightTail
RegimeAligned == RightTail

(* The quarter-hour screen has no attempt: only its result is exclusive.     *)
QuarterHour == << Do("absent", {"result"}), Do("capture", {}), Do("open", {}), Do("link", {"result"}) >>

(* The lag replication does not even look for its result before it opens.    *)
LagReplication == << Do("capture", {}), Do("open", {}), Do("link", {"result"}) >>

(* The forward evaluation counts blindly at the common watermark, binds the  *)
(* data, consumes the attempt, and only then judges.                         *)
Forward ==
  << Do("absent", {"attempt", "result"}), Do("eligible", {}), Do("link", {"attempt"}),
     Do("open", {}), Do("link", {"result"}) >>

(* The development screen registers a plan of its own; when it overwrites,   *)
(* it replaces the plan first and removes the stale result after that.       *)
Development(overwrite) ==
  IF overwrite
  THEN << Do("capture", {}), Do("replace", {"plan"}), Do("unlink", {"result"}), Do("open", {}),
          Do("confirm", {"plan"}), Do("stable", {}), Do("link", {"result"}) >>
  ELSE << Do("absent", {"plan", "result"}), Do("capture", {}), Do("link", {"plan"}), Do("open", {}),
          Do("confirm", {"plan"}), Do("stable", {}), Do("link", {"result"}) >>

(* Mutant: the order-flow screen registers its new plan first as well.       *)
OrderFlowPlanFirst(overwrite) ==
  << Do("capture", {}), Do(IF overwrite THEN "replace" ELSE "link", {"plan"}), Do("unlink", {"result"}),
     Do("unlink", {"summary"}), Do("open", {}), Do("confirm", {"plan"}), Do("stable", {}),
     Do("link", {"result"}), Do("link", {"summary"}) >>

(* The order-flow screen removes the stale evidence first.                   *)
OrderFlow(overwrite) ==
  IF overwrite
  THEN << Do("capture", {}), Do("unlink", {"result"}), Do("unlink", {"summary"}), Do("replace", {"plan"}),
          Do("open", {}), Do("confirm", {"plan"}), Do("stable", {}),
          Do("link", {"result"}), Do("link", {"summary"}) >>
  ELSE << Do("absent", {"plan", "result", "summary"}), Do("capture", {}), Do("link", {"plan"}),
          Do("open", {}), Do("confirm", {"plan"}), Do("stable", {}),
          Do("link", {"result"}), Do("link", {"summary"}) >>

(* The regime/retest screen creates each artifact in place and reads all of  *)
(* them back around every step.                                              *)
RegimeRetest ==
  << Do("absent", {"plan", "attempt", "result", "summary"}), Do("capture", {}),
     Do("create", {"plan"}), Do("fill", {"plan"}), Do("confirm", {"plan"}),
     Do("stable", {}), Do("confirm", {"plan"}),
     Do("create", {"attempt"}), Do("fill", {"attempt"}), Do("confirm", {"plan", "attempt"}),
     Do("open", {}), Do("confirm", {"plan", "attempt"}), Do("stable", {}),
     Do("confirm", {"plan", "attempt"}), Do("stable", {}), Do("confirm", {"plan", "attempt"}),
     Do("create", {"result"}), Do("fill", {"result"}),
     Do("confirm", {"plan", "attempt", "result"}), Do("create", {"summary"}), Do("fill", {"summary"}),
     Do("confirm", {"plan", "attempt", "result", "summary"}) >>

(* Mutant: the result is written where it will be read.                      *)
FactorStudyInPlace ==
  << Do("capture", {}), Do("open", {}), Do("absent", {"result"}),
     Do("create", {"result"}), Do("fill", {"result"}) >>

(* The descriptive studies look for their result last, then go through a     *)
(* temporary file whose name is fixed.                                       *)
FactorStudy ==
  << Do("capture", {}), Do("open", {}), Do("absent", {"result"}),
     Do("truncate", {"tmp"}), Do("fill", {"tmp"}), Do("rename", {"result"}) >>
MarketAnatomy == FactorStudy

(* The data preflight looks first and replaces last; the frozen validation   *)
(* looks for nothing and checks that neither source nor cache has moved.     *)
DataPreflight ==
  << Do("absent", {"result"}), Do("capture", {}), Do("open", {}), Do("replace", {"result"}) >>
FrozenValidation ==
  << Do("capture", {}), Do("open", {}), Do("stable", {}),
     Do("truncate", {"tmp"}), Do("fill", {"tmp"}), Do("rename", {"result"}) >>

(* A backup of the forward ledger: its evidence, a new empty file, an online *)
(* copy, and the evidence of the copy.  The drill restores an existing       *)
(* backup into another new file and compares all three.                      *)
Backup ==
  << Do("evidence", {}), Do("reserve", {"result"}), Do("copy", {"result"}), Do("compare", {"result"}) >>
Drill ==
  << Do("evidence", {}), Do("match", {"result"}), Do("reserve", {"recovered"}),
     Do("copy", {"recovered"}), Do("compare", {"recovered"}), Do("unmoved", {"recovered"}) >>

OneShots == {"right_tail", "crowded_trend", "donchian", "sma200", "regime_aligned"}
Screens == {"development", "orderflow"}
Replacing == {"factor_study", "market_anatomy", "data_preflight", "frozen_validation"}
Studies == OneShots \cup Screens \cup Replacing
             \cup {"quarter_hour", "lag_replication", "forward", "regime_retest", "forward_backup"}

(* Studies whose one attempt is a file.                                      *)
Consuming == OneShots \cup {"forward", "regime_retest"}

(* How a run is asked to go about it.                                        *)
Modes(s) ==
  {"once"} \cup (IF s \in Screens THEN {"overwrite"} ELSE {})
           \cup (IF s = "forward_backup" THEN {"drill"} ELSE {})

Program(s, mode) ==
  LET overwrite == mode = "overwrite" IN
  CASE s = "right_tail" -> RightTail [] s = "crowded_trend" -> CrowdedTrend
    [] s = "donchian" -> Donchian [] s = "sma200" -> Sma200 [] s = "regime_aligned" -> RegimeAligned
    [] s = "quarter_hour" -> QuarterHour [] s = "lag_replication" -> LagReplication
    [] s = "forward" -> Forward [] s = "regime_retest" -> RegimeRetest
    [] s = "development" -> Development(overwrite) [] s = "orderflow" -> OrderFlow(overwrite)
    [] s = "factor_study" -> FactorStudy [] s = "market_anatomy" -> MarketAnatomy
    [] s = "data_preflight" -> DataPreflight [] s = "frozen_validation" -> FrozenValidation
    [] s = "forward_backup" -> IF mode = "drill" THEN Drill ELSE Backup
Programs == [s \in Studies |-> [mode \in Modes(s) |-> Program(s, mode)]]

----------------------------------------------------------------------------
(* A run that has not started, is at a step, has ended, was refused or died. *)
Waiting == [state |-> "waiting", at |-> 0, mode |-> "once", alone |-> TRUE, source |-> 0, mark |-> 0]

Init ==
  /\ study \in Studies
  /\ disk = [f \in Files |-> Absent]
  /\ tree = [content |-> 1, clean |-> TRUE]
  /\ sealed = [mark |-> 0, blocked |-> FALSE]
  /\ run = [r \in Runs |-> Waiting]
  /\ looks = {}

Alive(r) == run[r].state = "alive"
Steps(r) == Programs[study][run[r].mode]
Step(r) == Steps(r)[run[r].at]
At(r, verb) == Alive(r) /\ Step(r).do = verb

(* A step that succeeds ends the run when it was the last one.  Of a run that *)
(* is over before that, the watermark matters only if it has judged by it.   *)
Passed(r) == [run[r] EXCEPT !.at = @ + 1, !.state = IF run[r].at = Len(Steps(r)) THEN "ended" ELSE @]
Over(r, state) == [run[r] EXCEPT !.state = state, !.mark = IF r \in looks THEN @ ELSE 0]
Refused(r) == [Over(r, "refused") EXCEPT !.at = 0]

(* The bytes a run writes bind it, the source it captured, and in the        *)
(* forward study the watermark.                                              *)
Bytes(r) == [by |-> {r}, source |-> run[r].source, mark |-> run[r].mark, whole |-> TRUE]

Start(r, mode) ==
  LET others == {q \in Runs : Alive(q)} IN
  /\ run[r].state = "waiting"
  /\ run' = [q \in Runs |->
       IF q = r THEN [Waiting EXCEPT !.state = "alive", !.at = 1, !.mode = mode, !.alone = (others = {})]
       ELSE IF q \in others THEN [run[q] EXCEPT !.alone = FALSE] ELSE run[q]]
  /\ UNCHANGED <<study, disk, tree, sealed, looks>>

(* Exists checks of the outputs.                                             *)
CheckAbsent(r) ==
  /\ At(r, "absent")
  /\ run' = [run EXCEPT ![r] = IF \A f \in Step(r).files : disk[f] = Absent THEN Passed(r) ELSE Refused(r)]
  /\ UNCHANGED <<study, disk, tree, sealed, looks>>

(* Two reads of the source between two looks at the worktree; the            *)
(* development screen and the frozen validation accept a dirty one.          *)
Capture(r) ==
  /\ At(r, "capture")
  /\ run' = [run EXCEPT ![r] = IF tree.clean \/ study \in {"development", "frozen_validation"}
                               THEN [Passed(r) EXCEPT !.source = tree.content] ELSE Refused(r)]
  /\ UNCHANGED <<study, disk, tree, sealed, looks>>

Stable(r) ==
  /\ At(r, "stable")
  /\ run' = [run EXCEPT ![r] =
       IF tree.content = run[r].source /\ (tree.clean \/ study \notin {"orderflow", "regime_retest"})
       THEN Passed(r) ELSE Refused(r)]
  /\ UNCHANGED <<study, disk, tree, sealed, looks>>

(* Mutant: a link that replaces what is there.                               *)
LinkOver(r, f) ==
  /\ At(r, "link") /\ f \in Step(r).files
  /\ disk' = [disk EXCEPT ![f] = Bytes(r)] /\ run' = [run EXCEPT ![r] = Passed(r)]
  /\ UNCHANGED <<study, tree, sealed, looks>>

(* The bytes go to a private temporary file first, so that a link publishes  *)
(* all of them or is refused.                                                *)
Link(r, f) ==
  /\ At(r, "link") /\ f \in Step(r).files
  /\ IF disk[f] = Absent
     THEN disk' = [disk EXCEPT ![f] = Bytes(r)] /\ run' = [run EXCEPT ![r] = Passed(r)]
     ELSE run' = [run EXCEPT ![r] = Refused(r)] /\ UNCHANGED disk
  /\ UNCHANGED <<study, tree, sealed, looks>>

Replace(r, f) ==
  /\ At(r, "replace") /\ f \in Step(r).files
  /\ disk' = [disk EXCEPT ![f] = Bytes(r)] /\ run' = [run EXCEPT ![r] = Passed(r)]
  /\ UNCHANGED <<study, tree, sealed, looks>>

Unlink(r, f) ==
  /\ At(r, "unlink") /\ f \in Step(r).files
  /\ disk' = [disk EXCEPT ![f] = Absent] /\ run' = [run EXCEPT ![r] = Passed(r)]
  /\ UNCHANGED <<study, tree, sealed, looks>>

(* Mutant: the artifact is created without asking for exclusion.             *)
CreateOver(r, f) ==
  /\ At(r, "create") /\ f \in Step(r).files
  /\ disk' = [disk EXCEPT ![f] = [Bytes(r) EXCEPT !.whole = FALSE]] /\ run' = [run EXCEPT ![r] = Passed(r)]
  /\ UNCHANGED <<study, tree, sealed, looks>>

(* An exclusive create makes the name appear before its bytes.               *)
Create(r, f) ==
  /\ At(r, "create") /\ f \in Step(r).files
  /\ IF disk[f] = Absent
     THEN disk' = [disk EXCEPT ![f] = [Bytes(r) EXCEPT !.whole = FALSE]] /\ run' = [run EXCEPT ![r] = Passed(r)]
     ELSE run' = [run EXCEPT ![r] = Refused(r)] /\ UNCHANGED disk
  /\ UNCHANGED <<study, tree, sealed, looks>>

(* Opening the fixed temporary file truncates whatever another run has put   *)
(* there.                                                                    *)
Truncate(r) ==
  /\ At(r, "truncate")
  /\ disk' = [disk EXCEPT !["tmp"] = [Bytes(r) EXCEPT !.whole = FALSE]] /\ run' = [run EXCEPT ![r] = Passed(r)]
  /\ UNCHANGED <<study, tree, sealed, looks>>

(* The open file is completed wherever it is by now: a rename by another run *)
(* may have made it the result.                                              *)
Fill(r) ==
  /\ At(r, "fill")
  /\ disk' = [f \in Files |-> IF disk[f].by = {r} THEN [disk[f] EXCEPT !.whole = TRUE] ELSE disk[f]]
  /\ run' = [run EXCEPT ![r] = Passed(r)]
  /\ UNCHANGED <<study, tree, sealed, looks>>

Rename(r) ==
  /\ At(r, "rename")
  /\ IF disk["tmp"] = Absent
     THEN run' = [run EXCEPT ![r] = Refused(r)] /\ UNCHANGED disk
     ELSE disk' = [disk EXCEPT !["result"] = disk["tmp"], !["tmp"] = Absent]
          /\ run' = [run EXCEPT ![r] = Passed(r)]
  /\ UNCHANGED <<study, tree, sealed, looks>>

(* What was registered is read back byte for byte.  A plan's bytes do not    *)
(* name the run: the same source registers the same plan.                    *)
Intact(r, f) ==
  IF f = "plan" THEN disk[f].whole /\ disk[f].source = run[r].source ELSE disk[f] = Bytes(r)

Confirm(r) ==
  /\ At(r, "confirm")
  /\ run' = [run EXCEPT ![r] = IF \A f \in Step(r).files : Intact(r, f) THEN Passed(r) ELSE Refused(r)]
  /\ UNCHANGED <<study, disk, tree, sealed, looks>>

(* The watermark of the moment is long enough and enough trades are closed   *)
(* below it; the run goes on with that watermark.                            *)
Eligible(r) ==
  /\ At(r, "eligible")
  /\ run' = [run EXCEPT ![r] = IF /\ ~sealed.blocked
                                  /\ sealed.mark >= Days
                                  /\ Closed[sealed.mark] >= Trades
                               THEN [Passed(r) EXCEPT !.mark = sealed.mark] ELSE Refused(r)]
  /\ UNCHANGED <<study, disk, tree, sealed, looks>>

(* Mutant: the final evaluation asks for the watermark again.                *)
OpenLatest(r) ==
  /\ At(r, "open")
  /\ run' = [run EXCEPT ![r] = [Passed(r) EXCEPT !.mark = sealed.mark]] /\ looks' = looks \cup {r}
  /\ UNCHANGED <<study, disk, tree, sealed>>

(* From here on the run has seen market values or, in the forward study,     *)
(* performance.                                                              *)
Open(r) ==
  /\ At(r, "open")
  /\ run' = [run EXCEPT ![r] = Passed(r)] /\ looks' = looks \cup {r}
  /\ UNCHANGED <<study, disk, tree, sealed>>

(* evidence_sha256: what the ledger holds, and whether it is quarantined.    *)
Evidence == sealed.mark + (IF sealed.blocked THEN Watermark + 1 ELSE 0)
ReadEvidence(r) ==
  /\ At(r, "evidence")
  /\ run' = [run EXCEPT ![r] = [Passed(r) EXCEPT !.mark = Evidence]]
  /\ UNCHANGED <<study, disk, tree, sealed, looks>>

(* A backup that is to be restored has the evidence of the ledger.  An empty *)
(* file becomes an empty ledger when it is opened.                           *)
Match(r) ==
  /\ At(r, "match")
  /\ run' = [run EXCEPT ![r] = IF disk["result"] # Absent /\ disk["result"].mark = run[r].mark
                               THEN Passed(r) ELSE Refused(r)]
  /\ UNCHANGED <<study, disk, tree, sealed, looks>>

(* Mutant: the exclusive create is inside the block that cleans up.          *)
ReserveInTry(r, f) ==
  /\ At(r, "reserve") /\ f \in Step(r).files
  /\ IF disk[f] = Absent
     THEN disk' = [disk EXCEPT ![f] = [Absent EXCEPT !.by = {r}]] /\ run' = [run EXCEPT ![r] = Passed(r)]
     ELSE disk' = [disk EXCEPT ![f] = Absent] /\ run' = [run EXCEPT ![r] = Refused(r)]
  /\ UNCHANGED <<study, tree, sealed, looks>>

(* _create_empty_exclusive.                                                  *)
Reserve(r, f) ==
  /\ At(r, "reserve") /\ f \in Step(r).files
  /\ IF disk[f] = Absent
     THEN disk' = [disk EXCEPT ![f] = [Absent EXCEPT !.by = {r}]] /\ run' = [run EXCEPT ![r] = Passed(r)]
     ELSE run' = [run EXCEPT ![r] = Refused(r)] /\ UNCHANGED disk
  /\ UNCHANGED <<study, tree, sealed, looks>>

(* What fails after that removes the file it made.                           *)
Discard(r, f) == disk' = [disk EXCEPT ![f] = Absent] /\ run' = [run EXCEPT ![r] = Refused(r)]

(* The online copy is one transaction, of the ledger or of the backup that   *)
(* was matched; it may fail.                                                 *)
Copy(r, f) ==
  /\ At(r, "copy") /\ f \in Step(r).files
  /\ \/ Discard(r, f)
     \/ /\ disk' = [disk EXCEPT ![f].mark = IF run[r].mode = "drill" THEN run[r].mark ELSE Evidence,
                                  ![f].whole = TRUE]
        /\ run' = [run EXCEPT ![r] = Passed(r)]
  /\ UNCHANGED <<study, tree, sealed, looks>>

Compare(r, f) ==
  /\ At(r, "compare") /\ f \in Step(r).files
  /\ IF disk[f].mark = run[r].mark THEN run' = [run EXCEPT ![r] = Passed(r)] /\ UNCHANGED disk
     ELSE Discard(r, f)
  /\ UNCHANGED <<study, tree, sealed, looks>>

(* The ledger may not have moved during a drill, and the backup is hashed.   *)
Unmoved(r, f) ==
  /\ At(r, "unmoved") /\ f \in Step(r).files
  /\ IF Evidence = run[r].mark /\ disk["result"] # Absent
     THEN run' = [run EXCEPT ![r] = Passed(r)] /\ UNCHANGED disk
     ELSE Discard(r, f)
  /\ UNCHANGED <<study, tree, sealed, looks>>

Die(r) ==
  /\ Alive(r) /\ run' = [run EXCEPT ![r] = Over(r, "died")]
  /\ UNCHANGED <<study, disk, tree, sealed, looks>>

(* A developer edits the source and commits it.                              *)
Edit ==
  /\ tree.content <= MaxEdits /\ study \notin {"forward", "forward_backup"}
  /\ tree' = [content |-> tree.content + 1, clean |-> FALSE]
  /\ UNCHANGED <<study, disk, sealed, run, looks>>
Commit ==
  /\ ~tree.clean /\ tree' = [tree EXCEPT !.clean = TRUE]
  /\ UNCHANGED <<study, disk, sealed, run, looks>>

(* The collector of the forward ledger seals a further minute, or meets a    *)
(* bar that quarantines a symbol.                                            *)
Collect ==
  /\ study \in {"forward", "forward_backup"} /\ ~sealed.blocked
  /\ \/ sealed.mark < Watermark /\ sealed' = [sealed EXCEPT !.mark = @ + 1]
     \/ sealed' = [sealed EXCEPT !.blocked = TRUE]
  /\ UNCHANGED <<study, disk, tree, run, looks>>

RunStep(r) ==
  \/ \E mode \in Modes(study) : Start(r, mode)
  \/ CheckAbsent(r) \/ Capture(r) \/ Stable(r) \/ Confirm(r) \/ Eligible(r) \/ Open(r) \/ Die(r)
  \/ \E f \in Files : Link(r, f) \/ Replace(r, f) \/ Unlink(r, f) \/ Create(r, f)
  \/ Truncate(r) \/ Fill(r) \/ Rename(r) \/ ReadEvidence(r) \/ Match(r)
  \/ \E f \in Files : Reserve(r, f) \/ Copy(r, f) \/ Compare(r, f) \/ Unmoved(r, f)

Next == (\E r \in Runs : RunStep(r)) \/ Edit \/ Commit \/ Collect

Spec == Init /\ [][Next]_vars

----------------------------------------------------------------------------
(* An attempt admits one look: whoever opened the data, and whoever wrote    *)
(* the result or its summary, is the run whose attempt is on disk, over all  *)
(* races, deaths and restarts (right_tail_screen.py:231-256 and its likes,   *)
(* forward_evaluation.py:443, regime_retest_screen.py:1807).                 *)
OneLookPerAttempt ==
  study \in Consuming =>
    looks \cup disk["result"].by \cup disk["summary"].by \subseteq disk["attempt"].by

(* What the forward evaluation judges is what was counted: the trades that   *)
(* opened the gate are closed at the very watermark of the result and of the *)
(* attempt, whatever the collector has sealed since                          *)
(* (forward_evaluation.py:488-506).                                          *)
ForwardJudgesTheCounted ==
  study = "forward" =>
    \A r \in looks : /\ run[r].mark = disk["attempt"].mark
                    /\ run[r].mark >= Days /\ Closed[run[r].mark] >= Trades

(* Runs that overwrite one after the other never leave a result or a summary *)
(* beside a plan of another source, wherever they die.  The development      *)
(* screen alone has a gap: from its new plan to the removal of the stale     *)
(* result, and for good if the run dies there (development_screen.py:866,    *)
(* orderflow_screen.py:1155-1161).                                           *)
StalePlanGap ==
  study = "development" /\ \E r \in Runs :
    /\ run[r].mode = "overwrite" /\ run[r].state \in {"alive", "died"} /\ Step(r).do = "unlink"
    /\ disk["plan"].by = {r}
EvidenceBelongsTogether ==
  study \in Screens \cup {"regime_retest"} /\ (\A r \in Runs : run[r].mode = "overwrite" => run[r].alone) =>
    /\ disk["result"] # Absent => disk["result"].source = disk["plan"].source \/ StalePlanGap
    /\ disk["summary"] # Absent => disk["summary"].source = disk["plan"].source

(* A backup or a drill that reports success has left a complete ledger of    *)
(* its own whose evidence is the one it reports, and nobody removes it,      *)
(* whatever the collector seals, whichever attempts race for the same file,  *)
(* fail or die half-way (forward_observation.py:792-855).                    *)
BackupIsTheLedger ==
  study = "forward_backup" =>
    \A r \in Runs : run[r].state = "ended" =>
      LET f == disk[IF run[r].mode = "drill" THEN "recovered" ELSE "result"]
      IN  f.by = {r} /\ f.whole /\ f.mark = run[r].mark

(* A result that is there is complete, but for the regime/retest run that is *)
(* writing it or died doing so, which blocks every later run, and for the    *)
(* backup that is being copied or died before it was; and but for            *)
(* overlapping runs that share a temporary file (factor_study.py:619,        *)
(* validation_campaign.py:446).                                              *)
ResultIsWhole ==
  disk["result"] # Absent /\ ~disk["result"].whole =>
    \/ study \in {"regime_retest", "forward_backup"}
    \/ study \in Replacing /\ \E r \in Runs : disk["result"].by = {r} /\ ~run[r].alone

(* A complete attempt or result is replaced or removed only by a run that    *)
(* was told to overwrite, by the backup that made it and found it different  *)
(* from the ledger, by the frozen validation, and by a study that            *)
(* looks for its result long before it replaces it, when another run         *)
(* published in between.                                                     *)
PublishedIsFinal ==
  [][\A f \in {"attempt", "result"} : disk[f].whole /\ disk'[f] # disk[f] =>
       \E r \in Runs : /\ run'[r] # run[r]
                      /\ \/ run[r].mode = "overwrite"
                         \/ study = "forward_backup" /\ disk[f].by = {r}
                         \/ study = "frozen_validation"
                         \/ study \in Replacing /\ ~run[r].alone]_vars
=============================================================================
