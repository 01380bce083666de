------------------------------ MODULE StudyRun_proofs ------------------------------
(****************************************************************************)
(* What the evidence of a study is worth, for any number of runs, of edits   *)
(* and of sealed minutes.  The programs are tables; what is proved of them   *)
(* once is where the steps stand that matter (the claim of the attempt, the  *)
(* plan, the temporary file, the reserved backup), and the invariants speak  *)
(* of those places alone.                                                    *)
(****************************************************************************)
EXTENDS StudyRun, TLAPS

--------------------------------------------------------------------------------
(* The programs.                                                             *)

LEMMA ProgramsAre ==
  /\ \A s \in OneShots : Programs[s]["once"] = RightTail
  /\ Programs["quarter_hour"]["once"] = QuarterHour
  /\ Programs["lag_replication"]["once"] = LagReplication
  /\ Programs["forward"]["once"] = Forward
  /\ Programs["regime_retest"]["once"] = RegimeRetest
  /\ \A mode \in {"once", "overwrite"} :
       /\ Programs["development"][mode] = Development(mode = "overwrite")
       /\ Programs["orderflow"][mode] = OrderFlow(mode = "overwrite")
  /\ \A s \in {"factor_study", "market_anatomy"} : Programs[s]["once"] = FactorStudy
  /\ Programs["data_preflight"]["once"] = DataPreflight
  /\ Programs["frozen_validation"]["once"] = FrozenValidation
  /\ Programs["forward_backup"]["once"] = Backup
  /\ Programs["forward_backup"]["drill"] = Drill
<1>1. \A s \in Studies, mode \in {"once", "overwrite", "drill"} :
         mode \in Modes(s) => Programs[s][mode] = Program(s, mode)
  BY DEF Programs
<1>2. \A s \in Studies : "once" \in Modes(s)
  BY DEF Modes
<1>3. OneShots \subseteq Studies /\ Screens \subseteq Studies /\ Replacing \subseteq Studies
      /\ {"quarter_hour", "lag_replication", "forward", "regime_retest", "forward_backup"} \subseteq Studies
  BY DEF Studies
<1>4. \A s \in OneShots : Programs[s]["once"] = RightTail
  BY <1>1, <1>2, <1>3 DEF OneShots, Program, CrowdedTrend, Donchian, Sma200, RegimeAligned
<1>5. /\ Programs["quarter_hour"]["once"] = QuarterHour
      /\ Programs["lag_replication"]["once"] = LagReplication
      /\ Programs["forward"]["once"] = Forward
      /\ Programs["regime_retest"]["once"] = RegimeRetest
  BY <1>1, <1>2, <1>3 DEF Program
<1>6. \A mode \in {"once", "overwrite"} :
        /\ Programs["development"][mode] = Development(mode = "overwrite")
        /\ Programs["orderflow"][mode] = OrderFlow(mode = "overwrite")
  BY <1>1, <1>3 DEF Program, Modes, Screens
<1>7. \A s \in {"factor_study", "market_anatomy"} : Programs[s]["once"] = FactorStudy
  BY <1>1, <1>2, <1>3 DEF Program, MarketAnatomy, Replacing
<1>8. /\ Programs["data_preflight"]["once"] = DataPreflight
      /\ Programs["frozen_validation"]["once"] = FrozenValidation
  BY <1>1, <1>2, <1>3 DEF Program, Replacing
<1>9. Programs["forward_backup"]["once"] = Backup /\ Programs["forward_backup"]["drill"] = Drill
  BY <1>1, <1>3 DEF Program, Modes, Screens
<1> QED
  BY <1>4, <1>5, <1>6, <1>7, <1>8, <1>9

Sized(p) == Len(p) \in Nat \ {0}

LEMMA ProgramsAreSized == \A s \in Studies : \A mode \in Modes(s) : Sized(Programs[s][mode])
<1>1. Sized(RightTail) /\ Sized(QuarterHour) /\ Sized(LagReplication) /\ Sized(Forward)
  BY DEF Sized, RightTail, QuarterHour, LagReplication, Forward
<1>2. Sized(RegimeRetest) /\ Sized(FactorStudy) /\ Sized(DataPreflight) /\ Sized(FrozenValidation)
  BY DEF Sized, RegimeRetest, FactorStudy, DataPreflight, FrozenValidation
<1>3. \A o \in BOOLEAN : Sized(Development(o)) /\ Sized(OrderFlow(o))
  BY DEF Sized, Development, OrderFlow
<1>4. Sized(Backup) /\ Sized(Drill)
  BY DEF Sized, Backup, Drill
<1> HIDE DEF Sized
<1>5. ASSUME NEW s \in Studies PROVE Sized(Programs[s]["once"])
  <2>1. CASE s \in OneShots
    BY <1>1, <2>1, ProgramsAre
  <2>2. CASE s \in Screens
    BY <1>3, <2>2, ProgramsAre DEF Screens
  <2>3. CASE s \in Replacing
    BY <1>2, <2>3, ProgramsAre DEF Replacing
  <2>4. CASE s \in {"quarter_hour", "lag_replication", "forward", "regime_retest", "forward_backup"}
    BY <1>1, <1>2, <1>4, <2>4, ProgramsAre
  <2> QED BY <2>1, <2>2, <2>3, <2>4 DEF Studies
<1>6. \A s \in Screens : Sized(Programs[s]["overwrite"])
  BY <1>3, ProgramsAre DEF Screens
<1>7. Sized(Programs["forward_backup"]["drill"])
  BY <1>4, ProgramsAre
<1>8. \A s \in Studies : \A mode \in Modes(s) :
        \/ mode = "once"
        \/ mode = "overwrite" /\ s \in Screens
        \/ mode = "drill" /\ s = "forward_backup"
  BY DEF Modes
<1> QED
  BY <1>5, <1>6, <1>7, <1>8

(* The longest program, by its verbs.                                        *)
LEMMA RegimeSteps ==
  ASSUME NEW i \in 1 .. Len(RegimeRetest)
  PROVE  /\ RegimeRetest[i].do \in {"absent", "capture", "create", "fill", "confirm", "stable", "open"}
         /\ RegimeRetest[i].do = "capture" => i = 2
         /\ RegimeRetest[i].do = "open" => i = 11
         /\ RegimeRetest[i].do = "create" <=> i \in {3, 8, 17, 20}
         /\ i = 3 => RegimeRetest[i].files = {"plan"}
         /\ i = 8 => RegimeRetest[i].files = {"attempt"}
         /\ i = 17 => RegimeRetest[i].files = {"result"}
         /\ i = 20 => RegimeRetest[i].files = {"summary"}
<1>1. RegimeRetest[i].do \in {"absent", "capture", "create", "fill", "confirm", "stable", "open"}
  BY DEF RegimeRetest, Do
<1>2. RegimeRetest[i].do = "create" <=> i \in {3, 8, 17, 20}
  BY DEF RegimeRetest, Do
<1>3. (RegimeRetest[i].do = "open" => i = 11) /\ (RegimeRetest[i].do = "capture" => i = 2)
  BY DEF RegimeRetest, Do
<1>4. /\ RegimeRetest[3].files = {"plan"} /\ RegimeRetest[8].files = {"attempt"}
      /\ RegimeRetest[17].files = {"result"} /\ RegimeRetest[20].files = {"summary"}
  BY DEF RegimeRetest, Do
<1> QED
  BY <1>1, <1>2, <1>3, <1>4

(* Where a study claims its attempt: nothing is opened and no evidence is    *)
(* written before, and no step touches the attempt again.                    *)
Claim(s) == CASE s \in OneShots -> 4 [] s = "forward" -> 3 [] s = "regime_retest" -> 8

Claiming(step, i, claim) ==
  /\ step.do \in {"absent", "capture", "link", "confirm", "open", "eligible", "stable", "create", "fill"}
  /\ step.do = "open" => i > claim
  /\ step.do \in {"link", "create"} =>
       \A f \in step.files : IF f = "attempt" THEN i = claim ELSE f \in {"result", "summary"} => i > claim
  /\ i = claim => step.do \in {"link", "create"} /\ step.files = {"attempt"}

LEMMA ConsumingClaims ==
  ASSUME NEW s \in Consuming, NEW i \in 1 .. Len(Programs[s]["once"])
  PROVE  Claiming(Programs[s]["once"][i], i, Claim(s))
<1>1. \A j \in 1 .. Len(RightTail) : Claiming(RightTail[j], j, 4)
  BY DEF RightTail, Claiming, Do
<1>2. \A j \in 1 .. Len(Forward) : Claiming(Forward[j], j, 3)
  BY DEF Forward, Claiming, Do
<1>3. \A j \in 1 .. Len(RegimeRetest) : Claiming(RegimeRetest[j], j, 8)
  <2> SUFFICES ASSUME NEW j \in 1 .. Len(RegimeRetest) PROVE Claiming(RegimeRetest[j], j, 8)
    OBVIOUS
  <2> QED
    BY RegimeSteps DEF Claiming
<1>4. CASE s \in OneShots
  <2>1. Claim(s) = 4 /\ Programs[s]["once"] = RightTail
    BY <1>4, ProgramsAre DEF Claim, OneShots
  <2> QED
    BY <1>1, <2>1
<1>5. CASE s = "forward"
  <2>1. Claim(s) = 3 /\ Programs[s]["once"] = Forward
    BY <1>5, ProgramsAre DEF Claim, OneShots
  <2> QED
    BY <1>2, <2>1
<1>6. CASE s = "regime_retest"
  <2>1. Claim(s) = 8 /\ Programs[s]["once"] = RegimeRetest
    BY <1>6, ProgramsAre DEF Claim, OneShots
  <2> QED
    BY <1>3, <2>1
<1> QED
  BY <1>4, <1>5, <1>6 DEF Consuming

(* The forward study counts once, before it claims.                          *)
LEMMA ForwardCounts ==
  \A i \in 1 .. Len(Forward) :
    /\ Forward[i].do = "eligible" <=> i = 2
    /\ Forward[i].do \notin {"capture", "evidence"}
  BY DEF Forward, Do

(* Where a screen registers its plan: the source is captured before, and no  *)
(* evidence is written before.                                               *)
PlanAt(s, mode) == IF mode = "overwrite" THEN (IF s = "orderflow" THEN 4 ELSE 2) ELSE 3
Registering(step, i, plan, overwrite) ==
  /\ step.do \in {"absent", "capture", "link", "replace", "unlink", "confirm", "open", "stable",
                  "create", "fill"}
  /\ step.do = "capture" => i < plan
  /\ step.do \in {"link", "create"} =>
       \A f \in step.files : IF f = "plan" THEN i = plan ELSE f \in {"result", "summary"} => i > plan
  /\ step.do = "replace" => step.files = {"plan"} /\ i = plan
  /\ step.do \in {"replace", "unlink"} => overwrite
  /\ step.do = "unlink" => "plan" \notin step.files
  /\ i = plan => /\ step.files = {"plan"}
                 /\ step.do \in (IF overwrite THEN {"replace"} ELSE {"link", "create"})

(* Each overwriting screen on its way past the stale evidence.               *)
Removing(step, i, s) ==
  IF s = "orderflow"
  THEN /\ i = 2 => step.do = "unlink" /\ step.files = {"result"}
       /\ i = 3 => step.do = "unlink" /\ step.files = {"summary"}
  ELSE /\ step.do = "unlink" <=> i = 3
       /\ i = 3 => step.files = {"result"}

LEMMA ScreensRegister ==
  ASSUME NEW s \in Screens \cup {"regime_retest"}, NEW mode \in Modes(s),
         NEW i \in 1 .. Len(Programs[s][mode])
  PROVE  /\ Registering(Programs[s][mode][i], i, PlanAt(s, mode), mode = "overwrite")
         /\ mode = "overwrite" => Removing(Programs[s][mode][i], i, s)
         /\ s = "development" /\ Programs[s][mode][i].do \in {"link", "create"}
              => "summary" \notin Programs[s][mode][i].files
<1>1. \A j \in 1 .. Len(RegimeRetest) : Registering(RegimeRetest[j], j, 3, FALSE)
  <2> SUFFICES ASSUME NEW j \in 1 .. Len(RegimeRetest) PROVE Registering(RegimeRetest[j], j, 3, FALSE)
    OBVIOUS
  <2> QED
    BY RegimeSteps DEF Registering
<1>2. \A j \in 1 .. Len(Development(TRUE)) :
        /\ Registering(Development(TRUE)[j], j, 2, TRUE) /\ Removing(Development(TRUE)[j], j, "development")
        /\ "summary" \notin Development(TRUE)[j].files
  BY DEF Development, Registering, Removing, Do
<1>3. \A j \in 1 .. Len(Development(FALSE)) :
        /\ Registering(Development(FALSE)[j], j, 3, FALSE)
        /\ "summary" \notin Development(FALSE)[j].files
  BY DEF Development, Registering, Do
<1>4. \A j \in 1 .. Len(OrderFlow(TRUE)) :
        Registering(OrderFlow(TRUE)[j], j, 4, TRUE) /\ Removing(OrderFlow(TRUE)[j], j, "orderflow")
  BY DEF OrderFlow, Registering, Removing, Do
<1>5. \A j \in 1 .. Len(OrderFlow(FALSE)) : Registering(OrderFlow(FALSE)[j], j, 3, FALSE)
  BY DEF OrderFlow, Registering, Do
<1> HIDE DEF Registering, Removing
<1>6. CASE s = "regime_retest"
  BY <1>1, <1>6, ProgramsAre DEF Modes, Screens, PlanAt
<1>7. CASE s = "development" /\ mode = "overwrite"
  BY <1>2, <1>7, ProgramsAre DEF PlanAt
<1>8. CASE s = "development" /\ mode = "once"
  BY <1>3, <1>8, ProgramsAre DEF PlanAt
<1>9. CASE s = "orderflow" /\ mode = "overwrite"
  BY <1>4, <1>9, ProgramsAre DEF PlanAt
<1>10. CASE s = "orderflow" /\ mode = "once"
  BY <1>5, <1>10, ProgramsAre DEF PlanAt
<1> QED
  BY <1>6, <1>7, <1>8, <1>9, <1>10 DEF Modes, Screens

LEMMA PlanIsNotLast ==
  ASSUME NEW s \in Screens \cup {"regime_retest"}, NEW mode \in Modes(s)
  PROVE  PlanAt(s, mode) < Len(Programs[s][mode])
<1>1. /\ Len(RegimeRetest) = 22
      /\ \A o \in BOOLEAN : Len(Development(o)) = 7 /\ Len(OrderFlow(o)) \in {8, 9}
  BY DEF RegimeRetest, Development, OrderFlow
<1>2. PlanAt(s, mode) \in {2, 3, 4}
  BY DEF PlanAt
<1>3. Len(Programs[s][mode]) \in {7, 8, 9, 22}
  <2>1. CASE s = "regime_retest"
    BY <1>1, <2>1, ProgramsAre DEF Modes, Screens
  <2>2. CASE s = "development"
    <3>1. Programs[s][mode] = Development(mode = "overwrite")
      BY <2>2, ProgramsAre DEF Modes, Screens
    <3> QED
      BY <1>1, <3>1
  <2>3. CASE s = "orderflow"
    <3>1. Programs[s][mode] = OrderFlow(mode = "overwrite")
      BY <2>3, ProgramsAre DEF Modes, Screens
    <3> QED
      BY <1>1, <3>1
  <2> QED
    BY <2>1, <2>2, <2>3 DEF Screens
<1> DEFINE n == Len(Programs[s][mode])
           m == PlanAt(s, mode)
<1>4. n \in {7, 8, 9, 22} /\ m \in {2, 3, 4}
  BY <1>2, <1>3
<1> HIDE DEF n, m
<1>5. m < n
  BY <1>4
<1> QED
  BY <1>5 DEF n, m

(* Where the replacing studies look for a result and write it.               *)
Renaming(step, i) ==
  /\ step.do \in {"absent", "capture", "open", "stable", "truncate", "fill", "rename"}
  /\ step.do = "truncate" <=> i = 4
  /\ step.do = "fill" <=> i = 5
  /\ step.do = "rename" <=> i = 6

LEMMA ReplacingSteps ==
  /\ \A i \in 1 .. Len(FactorStudy) :
       /\ Renaming(FactorStudy[i], i) /\ i <= 6
       /\ i = 3 => FactorStudy[i].do = "absent" /\ FactorStudy[i].files = {"result"}
  /\ \A i \in 1 .. Len(FrozenValidation) : Renaming(FrozenValidation[i], i) /\ i <= 6
  /\ \A i \in 1 .. Len(DataPreflight) :
       /\ DataPreflight[i].do \in {"absent", "capture", "open", "replace"} /\ i <= 4
       /\ i = 1 => DataPreflight[i].do = "absent" /\ DataPreflight[i].files = {"result"}
       /\ i = 4 => DataPreflight[i].files = {"result"}
       /\ DataPreflight[i].do = "replace" <=> i = 4
<1>1. \A i \in 1 .. Len(FactorStudy) :
       /\ Renaming(FactorStudy[i], i) /\ i <= 6
       /\ i = 3 => FactorStudy[i].do = "absent" /\ FactorStudy[i].files = {"result"}
  BY DEF FactorStudy, Renaming, Do
<1>2. \A i \in 1 .. Len(FrozenValidation) : Renaming(FrozenValidation[i], i) /\ i <= 6
  BY DEF FrozenValidation, Renaming, Do
<1>3. \A i \in 1 .. Len(DataPreflight) :
       /\ DataPreflight[i].do \in {"absent", "capture", "open", "replace"} /\ i <= 4
       /\ i = 1 => DataPreflight[i].do = "absent" /\ DataPreflight[i].files = {"result"}
       /\ i = 4 => DataPreflight[i].files = {"result"}
       /\ DataPreflight[i].do = "replace" <=> i = 4
  BY DEF DataPreflight, Do
<1> QED
  BY <1>1, <1>2, <1>3

(* Every other study but the backup and the regime/retest screen links.      *)
Linking == OneShots \cup Screens \cup {"quarter_hour", "lag_replication", "forward"}

Links(step, overwrite) ==
  /\ step.do \in {"absent", "capture", "confirm", "open", "eligible", "stable", "link", "replace", "unlink"}
  /\ step.do = "replace" => step.files = {"plan"}
  /\ step.do \in {"replace", "unlink"} => overwrite

LEMMA LinkingLinks ==
  ASSUME NEW s \in Linking, NEW mode \in Modes(s), NEW i \in 1 .. Len(Programs[s][mode])
  PROVE  Links(Programs[s][mode][i], mode = "overwrite")
<1>1. \A j \in 1 .. Len(RightTail) : Links(RightTail[j], FALSE)
  BY DEF RightTail, Links, Do
<1>2. \A j \in 1 .. Len(Forward) : Links(Forward[j], FALSE)
  BY DEF Forward, Links, Do
<1>3. \A j \in 1 .. Len(QuarterHour) : Links(QuarterHour[j], FALSE)
  BY DEF QuarterHour, Links, Do
<1>4. \A j \in 1 .. Len(LagReplication) : Links(LagReplication[j], FALSE)
  BY DEF LagReplication, Links, Do
<1>5. \A o \in BOOLEAN : \A j \in 1 .. Len(Development(o)) : Links(Development(o)[j], o)
  BY DEF Development, Links, Do
<1>6. \A o \in BOOLEAN : \A j \in 1 .. Len(OrderFlow(o)) : Links(OrderFlow(o)[j], o)
  BY DEF OrderFlow, Links, Do
<1> HIDE DEF Links
<1>7. CASE s \in OneShots
  <2>1. mode = "once"
    BY <1>7 DEF Modes, Screens, OneShots
  <2> QED
    BY <1>1, <1>7, <2>1, ProgramsAre
<1>8. CASE s \in {"forward", "quarter_hour", "lag_replication"}
  <2>1. mode = "once"
    BY <1>8 DEF Modes, Screens
  <2> QED
    BY <1>2, <1>3, <1>4, <1>8, <2>1, ProgramsAre
<1>9. CASE s \in Screens
  <2>1. mode \in {"once", "overwrite"}
    BY <1>9 DEF Modes, Screens
  <2>2. CASE s = "development"
    BY <1>5, <2>1, <2>2, ProgramsAre
  <2>3. CASE s = "orderflow"
    BY <1>6, <2>1, <2>3, ProgramsAre
  <2> QED
    BY <1>9, <2>2, <2>3 DEF Screens
<1> QED
  BY <1>7, <1>8, <1>9 DEF Linking

(* Where a backup and a drill reserve their file, and which one it is.       *)
ReserveAt(mode) == IF mode = "drill" THEN 3 ELSE 2
FileOf(mode) == IF mode = "drill" THEN "recovered" ELSE "result"

BackingUp(step, i, mode) ==
  /\ step.do \in {"evidence", "match", "reserve", "copy", "compare", "unmoved"}
  /\ step.do = "evidence" <=> i = 1
  /\ step.do = "reserve" <=> i = ReserveAt(mode)
  /\ step.do = "copy" <=> i = ReserveAt(mode) + 1
  /\ step.do = "compare" <=> i = ReserveAt(mode) + 2
  /\ step.do = "unmoved" => i = ReserveAt(mode) + 3
  /\ i >= ReserveAt(mode) => step.files = {FileOf(mode)}

LEMMA BackupSteps ==
  ASSUME NEW mode \in {"once", "drill"}
  PROVE  /\ Len(Programs["forward_backup"][mode]) >= ReserveAt(mode) + 2
         /\ \A i \in 1 .. Len(Programs["forward_backup"][mode]) :
               BackingUp(Programs["forward_backup"][mode][i], i, mode)
<1>1. Len(Backup) >= 4 /\ \A i \in 1 .. Len(Backup) : BackingUp(Backup[i], i, "once")
  BY DEF Backup, BackingUp, ReserveAt, FileOf, Do
<1>2. Len(Drill) >= 5 /\ \A i \in 1 .. Len(Drill) : BackingUp(Drill[i], i, "drill")
  BY DEF Drill, BackingUp, ReserveAt, FileOf, Do
<1> HIDE DEF BackingUp
<1>3. CASE mode = "once"
  BY <1>1, <1>3, ProgramsAre DEF ReserveAt
<1>4. CASE mode = "drill"
  BY <1>2, <1>4, ProgramsAre DEF ReserveAt
<1> QED
  BY <1>3, <1>4

--------------------------------------------------------------------------------
(* The form of the records, and the place of a run in its program.           *)

FileRecord == [by : SUBSET Runs, source : Nat, mark : Nat, whole : BOOLEAN]
RunRecord == [state : {"waiting", "alive", "ended", "refused", "died"}, at : Nat,
              mode : {"once", "overwrite", "drill"}, alone : BOOLEAN, source : Nat, mark : Nat]

Typed ==
  /\ study \in Studies
  /\ disk \in [Files -> FileRecord]
  /\ tree \in [content : Nat, clean : BOOLEAN]
  /\ sealed \in [mark : 0 .. Watermark, blocked : BOOLEAN]
  /\ run \in [Runs -> RunRecord]
  /\ looks \subseteq Runs

Sited ==
  \A r \in Runs : /\ run[r].mode \in Modes(study)
                  /\ Alive(r) => run[r].at \in 1 .. Len(Steps(r))

(* A run that waits has left no trace, and may still be asked for anything.  *)
Fresh ==
  \A r \in Runs : run[r].state = "waiting" =>
    /\ run[r].mode = "once" /\ r \notin looks
    /\ \A f \in Files : r \notin disk[f].by

(* Of two runs that are alive, neither is alone.                             *)
Overlapping == \A r, q \in Runs : Alive(r) /\ Alive(q) /\ r # q => ~run[r].alone

Base == Typed /\ Sited /\ Fresh /\ Overlapping

--------------------------------------------------------------------------------
(* What a step of a run may change, verb by verb.                            *)

Starts(r) == \E mode \in Modes(study) : Start(r, mode)

(* The run goes on, or it is over.                                           *)
Passes(r) ==
  /\ run'[r].at = run[r].at + 1
  /\ run'[r].state = IF run[r].at = Len(Steps(r)) THEN "ended" ELSE "alive"
  /\ run'[r].source = IF Step(r).do = "capture" THEN tree.content ELSE run[r].source
  /\ run'[r].mark = IF Step(r).do = "eligible" THEN sealed.mark
                     ELSE IF Step(r).do = "evidence" THEN Evidence ELSE run[r].mark

Stops(r) ==
  /\ run'[r].state \in {"refused", "died"}
  /\ r \in looks => run'[r].mark = run[r].mark
  /\ run'[r].state = "died" => run'[r].at = run[r].at

Goes(r) ==
  /\ Alive(r)
  /\ \A q \in Runs \ {r} : run'[q] = run[q]
  /\ run'[r].mode = run[r].mode /\ run'[r].alone = run[r].alone
  /\ Passes(r) \/ Stops(r)

(* What becomes of a file.                                                   *)
Made(r, f) ==
  /\ Step(r).do \in {"link", "create"} /\ f \in Step(r).files /\ Passes(r)
  /\ disk[f] = Absent
  /\ disk'[f] = IF Step(r).do = "link" THEN Bytes(r) ELSE [Bytes(r) EXCEPT !.whole = FALSE]

Reserved(r, f) ==
  /\ Step(r).do = "reserve" /\ f \in Step(r).files /\ Passes(r)
  /\ disk[f] = Absent
  /\ disk'[f] = [Absent EXCEPT !.by = {r}]

Put(r, f) ==
  /\ Step(r).do = "replace" /\ f \in Step(r).files /\ Passes(r)
  /\ disk'[f] = Bytes(r)

Removed(r, f) ==
  /\ Step(r).do = "unlink" /\ f \in Step(r).files /\ Passes(r)
  /\ disk'[f] = Absent

Emptied(r, f) ==
  /\ Step(r).do = "truncate" /\ f = "tmp" /\ Passes(r)
  /\ disk'[f] = [Bytes(r) EXCEPT !.whole = FALSE]

Completed(r, f) ==
  /\ Step(r).do = "fill" /\ Passes(r)
  /\ disk[f].by = {r}
  /\ disk'[f] = [disk[f] EXCEPT !.whole = TRUE]

Moved(r, f) ==
  /\ Step(r).do = "rename" /\ Passes(r)
  /\ disk["tmp"] # Absent
  /\ \/ f = "result" /\ disk'[f] = disk["tmp"]
     \/ f = "tmp" /\ disk'[f] = Absent

Copied(r, f) ==
  /\ Step(r).do = "copy" /\ f \in Step(r).files /\ Passes(r)
  /\ \E mark \in Nat : disk'[f] = [disk[f] EXCEPT !.mark = mark, !.whole = TRUE]

Discarded(r, f) ==
  /\ Step(r).do \in {"copy", "compare", "unmoved"} /\ f \in Step(r).files /\ Stops(r)
  /\ run'[r].state = "refused"
  /\ disk'[f] = Absent

Touched(r, f) ==
  \/ Made(r, f) \/ Reserved(r, f) \/ Put(r, f) \/ Removed(r, f) \/ Emptied(r, f)
  \/ Completed(r, f) \/ Moved(r, f) \/ Copied(r, f) \/ Discarded(r, f)

(* What a run that passes a step has done or seen.                           *)
Achieves(r) ==
  LET do == Step(r).do IN
  /\ do = "absent" => \A f \in Step(r).files : disk[f] = Absent
  /\ do \in {"link", "create"} => \E f \in Step(r).files : f \in Files /\ Made(r, f)
  /\ do = "reserve" => \E f \in Step(r).files : f \in Files /\ Reserved(r, f)
  /\ do = "replace" => \E f \in Step(r).files : f \in Files /\ Put(r, f)
  /\ do = "unlink" => \E f \in Step(r).files : f \in Files /\ Removed(r, f)
  /\ do = "truncate" => Emptied(r, "tmp")
  /\ do = "fill" => \A f \in Files : disk[f].by = {r} => disk'[f].whole
  /\ do = "rename" => Moved(r, "tmp") /\ Moved(r, "result")
  /\ do = "copy" => \E f \in Step(r).files : f \in Files /\ Copied(r, f)
  /\ do = "compare" => \E f \in Step(r).files : f \in Files /\ disk[f].mark = run[r].mark
  /\ do = "eligible" => sealed.mark >= Days /\ Closed[sealed.mark] >= Trades

Acts(r) ==
  /\ Goes(r)
  /\ \A f \in Files : disk'[f] = disk[f] \/ Touched(r, f)
  /\ Passes(r) => Achieves(r)
  /\ looks' = looks \/ (Step(r).do = "open" /\ looks' = looks \cup {r} /\ Passes(r))
  /\ study' = study


LEMMA PassedPasses ==
  ASSUME Typed, NEW r \in Runs, Alive(r), run' = [run EXCEPT ![r] = Passed(r)],
         Step(r).do \notin {"capture", "eligible", "evidence"}
  PROVE  Goes(r) /\ Passes(r)
  BY DEF Typed, RunRecord, Alive, Passed, Goes, Passes

LEMMA RefusedStops ==
  ASSUME Typed, NEW r \in Runs, Alive(r), run' = [run EXCEPT ![r] = Refused(r)]
  PROVE  Goes(r) /\ Stops(r) /\ run'[r].state = "refused" /\ ~Passes(r)
<1>1. /\ run'[r] = Refused(r) /\ \A q \in Runs \ {r} : run'[q] = run[q]
      /\ run[r] \in RunRecord
  BY DEF Typed
<1>2. /\ Refused(r).state = "refused" /\ Refused(r).mode = run[r].mode
      /\ Refused(r).alone = run[r].alone /\ (r \in looks => Refused(r).mark = run[r].mark)
  BY <1>1 DEF RunRecord, Refused, Over
<1>3. Stops(r)
  BY <1>1, <1>2 DEF Stops
<1>4. ~Passes(r)
  BY <1>1, <1>2 DEF Passes
<1> QED
  BY <1>1, <1>2, <1>3, <1>4 DEF Goes

(* A step that leaves the files alone.                                       *)
LEMMA QuietActs ==
  ASSUME NEW r \in Runs, Goes(r), disk' = disk, looks' = looks, study' = study, Passes(r) => Achieves(r)
  PROVE  Acts(r)
  BY DEF Acts

LEMMA QuietStepsAct ==
  ASSUME Typed, NEW r \in Runs,
         CheckAbsent(r) \/ Stable(r) \/ Confirm(r) \/ Match(r)
  PROVE  Acts(r)
<1>1. /\ Alive(r) /\ disk' = disk /\ looks' = looks /\ study' = study
      /\ Step(r).do \in {"absent", "stable", "confirm", "match"}
  BY DEF CheckAbsent, Stable, Confirm, Match, At
<1>2. CASE run' = [run EXCEPT ![r] = Refused(r)]
  BY <1>1, <1>2, RefusedStops, QuietActs
<1>3. CASE /\ run' = [run EXCEPT ![r] = Passed(r)]
           /\ Step(r).do = "absent" => \A f \in Step(r).files : disk[f] = Absent
  <2>1. Goes(r) /\ Passes(r)
    BY <1>1, <1>3, PassedPasses
  <2>2. Achieves(r)
    BY <1>1, <1>3 DEF Achieves
  <2> QED
    BY <1>1, <2>1, <2>2, QuietActs
<1> QED
  BY <1>2, <1>3 DEF CheckAbsent, Stable, Confirm, Match, At

(* The steps that read the source, the watermark or the ledger into the run. *)
LEMMA ReadingStepsAct ==
  ASSUME Typed, NEW r \in Runs, Capture(r) \/ Eligible(r) \/ ReadEvidence(r)
  PROVE  Acts(r)
<1>1. /\ Alive(r) /\ disk' = disk /\ looks' = looks /\ study' = study
      /\ Step(r).do \in {"capture", "eligible", "evidence"}
  BY DEF Capture, Eligible, ReadEvidence, At
<1>2. CASE run' = [run EXCEPT ![r] = Refused(r)]
  BY <1>1, <1>2, RefusedStops, QuietActs
<1>3. run[r] \in RunRecord /\ \A q \in Runs \ {r} : run'[q] = run[q]
  BY DEF Typed, Capture, Eligible, ReadEvidence
<1>4. ASSUME Passes(r), Achieves(r), run'[r].mode = run[r].mode, run'[r].alone = run[r].alone,
             \A q \in Runs \ {r} : run'[q] = run[q]
      PROVE  Acts(r)
  BY <1>1, <1>4, QuietActs DEF Goes
<1>5. CASE Capture(r) /\ run' = [run EXCEPT ![r] = [Passed(r) EXCEPT !.source = tree.content]]
  <2>1. Passes(r) /\ run'[r].mode = run[r].mode /\ run'[r].alone = run[r].alone
    <3>1. run'[r] = [Passed(r) EXCEPT !.source = tree.content] /\ At(r, "capture")
      BY <1>5 DEF Typed, Capture
    <3> QED
      BY <1>3, <3>1 DEF At, Alive, RunRecord, Passed, Passes
  <2>2. Achieves(r)
    BY <1>5 DEF Achieves, Capture, At
  <2> QED
    BY <1>3, <1>4, <1>5, <2>1, <2>2
<1>6. CASE /\ Eligible(r) /\ sealed.mark >= Days /\ Closed[sealed.mark] >= Trades
           /\ run' = [run EXCEPT ![r] = [Passed(r) EXCEPT !.mark = sealed.mark]]
  <2>1. Passes(r) /\ run'[r].mode = run[r].mode /\ run'[r].alone = run[r].alone
    <3>1. run'[r] = [Passed(r) EXCEPT !.mark = sealed.mark] /\ At(r, "eligible")
      BY <1>6 DEF Typed, Eligible
    <3> QED
      BY <1>3, <3>1 DEF At, Alive, RunRecord, Passed, Passes
  <2>2. Achieves(r)
    BY <1>6 DEF Achieves, Eligible, At
  <2> QED
    BY <1>3, <1>4, <1>6, <2>1, <2>2
<1>7. CASE ReadEvidence(r)
  <2>1. Passes(r) /\ run'[r].mode = run[r].mode /\ run'[r].alone = run[r].alone
    <3>1. run'[r] = [Passed(r) EXCEPT !.mark = Evidence] /\ At(r, "evidence")
      BY <1>7 DEF Typed, ReadEvidence
    <3> QED
      BY <1>3, <3>1 DEF At, Alive, RunRecord, Passed, Passes
  <2>2. Achieves(r)
    BY <1>7 DEF Achieves, ReadEvidence, At
  <2> QED
    BY <1>3, <1>4, <2>1, <2>2
<1> QED
  BY <1>2, <1>5, <1>6, <1>7 DEF Capture, Eligible

LEMMA OpenActs == ASSUME Typed, NEW r \in Runs, Open(r) PROVE Acts(r)
<1>1. Goes(r) /\ Passes(r) /\ Step(r).do = "open"
  BY PassedPasses DEF Open, At
<1>2. Achieves(r)
  BY <1>1 DEF Achieves
<1> QED
  BY <1>1, <1>2 DEF Acts, Open

LEMMA DieActs == ASSUME Typed, NEW r \in Runs, Die(r) PROVE Acts(r)
<1>1. run'[r] = Over(r, "died") /\ (\A q \in Runs \ {r} : run'[q] = run[q]) /\ run[r] \in RunRecord
  BY DEF Die, Typed
<1>2. /\ Over(r, "died").state = "died" /\ Over(r, "died").mode = run[r].mode
      /\ Over(r, "died").alone = run[r].alone /\ Over(r, "died").at = run[r].at
      /\ (r \in looks => Over(r, "died").mark = run[r].mark)
  BY <1>1 DEF RunRecord, Over
<1>3. Goes(r) /\ ~Passes(r)
  BY <1>1, <1>2 DEF Goes, Stops, Passes, Die
<1> QED
  BY <1>3, QuietActs DEF Die

(* The steps on one file.                                                    *)
LEMMA OneFileActs ==
  ASSUME NEW r \in Runs, NEW f \in Files, Goes(r),
         \A g \in Files \ {f} : disk'[g] = disk[g],
         Touched(r, f) \/ disk'[f] = disk[f], Passes(r) => Achieves(r),
         looks' = looks, study' = study
  PROVE  Acts(r)
  BY DEF Acts

LEMMA PublishingActs ==
  ASSUME Typed, NEW r \in Runs, NEW f \in Files,
         Link(r, f) \/ Create(r, f) \/ Reserve(r, f) \/ Replace(r, f) \/ Unlink(r, f)
  PROVE  Acts(r)
<1>1. /\ Alive(r) /\ f \in Step(r).files /\ looks' = looks /\ study' = study
      /\ Step(r).do \in {"link", "create", "reserve", "replace", "unlink"}
      /\ disk \in [Files -> FileRecord]
  BY DEF Link, Create, Reserve, Replace, Unlink, At, Typed
<1>2. CASE run' = [run EXCEPT ![r] = Refused(r)] /\ UNCHANGED disk
  BY <1>1, <1>2, RefusedStops, QuietActs
<1>3. CASE run' = [run EXCEPT ![r] = Passed(r)]
  <2>1. Goes(r) /\ Passes(r)
    BY <1>1, <1>3, PassedPasses
  <2>2. run[r] \in RunRecord /\ Passed(r).state # "refused"
    BY <1>1 DEF Typed, RunRecord, Passed, Alive
  <2>3. run'[r] # Refused(r)
    BY <1>3, <2>2 DEF Typed, Refused, Over, RunRecord
  <2>4. run' # [run EXCEPT ![r] = Refused(r)]
    BY <2>3 DEF Typed
  <2>5. CASE Link(r, f)
    <3>1. Made(r, f) /\ \A g \in Files \ {f} : disk'[g] = disk[g]
      BY <1>1, <2>1, <2>4, <2>5 DEF Link, Made, At, Bytes
    <3>2. Achieves(r)
      BY <1>1, <2>5, <3>1 DEF Achieves, Link, At
    <3>3. Touched(r, f)
      BY <3>1 DEF Touched
    <3> QED
      BY <1>1, <2>1, <3>1, <3>2, <3>3, OneFileActs
  <2>6. CASE Create(r, f)
    <3>1. Made(r, f) /\ \A g \in Files \ {f} : disk'[g] = disk[g]
      BY <1>1, <2>1, <2>4, <2>6 DEF Create, Made, At, Bytes
    <3>2. Achieves(r)
      BY <1>1, <2>6, <3>1 DEF Achieves, Create, At
    <3>3. Touched(r, f)
      BY <3>1 DEF Touched
    <3> QED
      BY <1>1, <2>1, <3>1, <3>2, <3>3, OneFileActs
  <2>7. CASE Reserve(r, f)
    <3>1. Reserved(r, f) /\ \A g \in Files \ {f} : disk'[g] = disk[g]
      BY <1>1, <2>1, <2>4, <2>7 DEF Reserve, Reserved, At
    <3>2. Achieves(r)
      BY <1>1, <2>7, <3>1 DEF Achieves, Reserve, At
    <3>3. Touched(r, f)
      BY <3>1 DEF Touched
    <3> QED
      BY <1>1, <2>1, <3>1, <3>2, <3>3, OneFileActs
  <2>8. CASE Replace(r, f)
    <3>1. Put(r, f) /\ \A g \in Files \ {f} : disk'[g] = disk[g]
      BY <1>1, <2>1, <2>8 DEF Replace, Put, At
    <3>2. Achieves(r)
      BY <1>1, <2>8, <3>1 DEF Achieves, Replace, At
    <3>3. Touched(r, f)
      BY <3>1 DEF Touched
    <3> QED
      BY <1>1, <2>1, <3>1, <3>2, <3>3, OneFileActs
  <2>9. CASE Unlink(r, f)
    <3>1. Removed(r, f) /\ \A g \in Files \ {f} : disk'[g] = disk[g]
      BY <1>1, <2>1, <2>9 DEF Unlink, Removed, At
    <3>2. Achieves(r)
      BY <1>1, <2>9, <3>1 DEF Achieves, Unlink, At
    <3>3. Touched(r, f)
      BY <3>1 DEF Touched
    <3> QED
      BY <1>1, <2>1, <3>1, <3>2, <3>3, OneFileActs
  <2> QED
    BY <2>5, <2>6, <2>7, <2>8, <2>9
<1> QED
  BY <1>2, <1>3 DEF Link, Create, Reserve, Replace, Unlink

LEMMA TemporaryActs ==
  ASSUME Typed, NEW r \in Runs, Truncate(r) \/ Fill(r) \/ Rename(r)
  PROVE  Acts(r)
<1>1. /\ Alive(r) /\ looks' = looks /\ study' = study
      /\ Step(r).do \in {"truncate", "fill", "rename"}
      /\ disk \in [Files -> FileRecord] /\ {"tmp", "result"} \subseteq Files
  BY DEF Truncate, Fill, Rename, At, Typed, Files
<1>2. ASSUME run' = [run EXCEPT ![r] = Passed(r)] PROVE Goes(r) /\ Passes(r)
  BY <1>1, <1>2, PassedPasses
<1>3. CASE Truncate(r)
  <2>1. Goes(r) /\ Passes(r)
    BY <1>2, <1>3 DEF Truncate
  <2>2. Emptied(r, "tmp") /\ \A g \in Files \ {"tmp"} : disk'[g] = disk[g]
    BY <1>1, <1>3, <2>1 DEF Truncate, Emptied, At
  <2>3. Achieves(r)
    BY <1>3, <2>2 DEF Achieves, Truncate, At
  <2> QED
    BY <1>1, <2>1, <2>2, <2>3 DEF Acts, Touched
<1>4. CASE Fill(r)
  <2>1. Goes(r) /\ Passes(r)
    BY <1>2, <1>4 DEF Fill
  <2>2. \A f \in Files : IF disk[f].by = {r} THEN disk'[f] = [disk[f] EXCEPT !.whole = TRUE]
                          ELSE disk'[f] = disk[f]
    BY <1>4 DEF Fill
  <2>3. Achieves(r)
    BY <1>1, <1>4, <2>2 DEF Achieves, Fill, At, FileRecord
  <2>4. \A f \in Files : disk'[f] = disk[f] \/ Completed(r, f)
    BY <1>4, <2>1, <2>2 DEF Completed, Fill, At
  <2> QED
    BY <1>1, <2>1, <2>3, <2>4 DEF Acts, Touched
<1>5. CASE Rename(r) /\ run' = [run EXCEPT ![r] = Refused(r)] /\ UNCHANGED disk
  BY <1>1, <1>5, RefusedStops, QuietActs
<1>6. CASE /\ Rename(r) /\ disk["tmp"] # Absent
           /\ disk' = [disk EXCEPT !["result"] = disk["tmp"], !["tmp"] = Absent]
           /\ run' = [run EXCEPT ![r] = Passed(r)]
  <2>1. Goes(r) /\ Passes(r)
    BY <1>2, <1>6
  <2>2. Moved(r, "tmp") /\ Moved(r, "result") /\ \A g \in Files \ {"tmp", "result"} : disk'[g] = disk[g]
    BY <1>1, <1>6, <2>1 DEF Rename, Moved, At
  <2>3. Achieves(r)
    BY <1>6, <2>2 DEF Achieves, Rename, At
  <2> QED
    BY <1>1, <2>1, <2>2, <2>3 DEF Acts, Touched
<1> QED
  BY <1>3, <1>4, <1>5, <1>6 DEF Rename

LEMMA CopyingActs ==
  ASSUME Typed, NEW r \in Runs, NEW f \in Files, Copy(r, f) \/ Compare(r, f) \/ Unmoved(r, f)
  PROVE  Acts(r)
<1>1. /\ Alive(r) /\ f \in Step(r).files /\ looks' = looks /\ study' = study
      /\ Step(r).do \in {"copy", "compare", "unmoved"}
      /\ disk \in [Files -> FileRecord]
  BY DEF Copy, Compare, Unmoved, At, Typed
<1>2. CASE Discard(r, f)
  <2>1. Goes(r) /\ Stops(r) /\ run'[r].state = "refused" /\ ~Passes(r)
    BY <1>1, <1>2, RefusedStops DEF Discard
  <2>2. Discarded(r, f) /\ \A g \in Files \ {f} : disk'[g] = disk[g]
    BY <1>1, <1>2, <2>1 DEF Discard, Discarded
  <2>3. Touched(r, f)
    BY <2>2 DEF Touched
  <2> QED
    BY <1>1, <2>1, <2>2, <2>3, OneFileActs
<1>3. ASSUME run' = [run EXCEPT ![r] = Passed(r)] PROVE Goes(r) /\ Passes(r)
  BY <1>1, <1>3, PassedPasses
<1>4. CASE Copy(r, f) /\ ~Discard(r, f)
  <2>1. Goes(r) /\ Passes(r)
    BY <1>3, <1>4 DEF Copy
  <2> DEFINE mark == IF run[r].mode = "drill" THEN run[r].mark ELSE Evidence
  <2>2. mark \in Nat
    BY WatermarkAssumption DEF Typed, RunRecord, Evidence
  <2>3. disk' = [disk EXCEPT ![f].mark = mark, ![f].whole = TRUE]
    BY <1>4 DEF Copy
  <2> HIDE DEF mark
  <2>4. disk'[f] = [disk[f] EXCEPT !.mark = mark, !.whole = TRUE] /\ \A g \in Files \ {f} : disk'[g] = disk[g]
    BY <1>1, <2>3
  <2>5. Copied(r, f)
    BY <1>1, <1>4, <2>1, <2>2, <2>4 DEF Copied, Copy, At
  <2>6. Achieves(r)
    BY <1>1, <1>4, <2>5 DEF Achieves, Copy, At
  <2>7. Touched(r, f)
    BY <2>5 DEF Touched
  <2> QED
    BY <1>1, <2>1, <2>4, <2>6, <2>7, OneFileActs
<1>5. CASE (Compare(r, f) \/ Unmoved(r, f)) /\ ~Discard(r, f)
  <2>1. Goes(r) /\ Passes(r) /\ disk' = disk
    BY <1>3, <1>5 DEF Compare, Unmoved
  <2>2. Achieves(r)
    BY <1>1, <1>5 DEF Achieves, Compare, Unmoved, At
  <2> QED
    BY <1>1, <2>1, <2>2, QuietActs
<1> QED
  BY <1>2, <1>4, <1>5

(* A step of a run starts it, or is one of these.                            *)
LEMMA RunActs ==
  ASSUME Typed, NEW r \in Runs, RunStep(r)
  PROVE  Starts(r) \/ Acts(r)
  BY QuietStepsAct, ReadingStepsAct, OpenActs, DieActs, PublishingActs, TemporaryActs, CopyingActs
     DEF RunStep, Starts

--------------------------------------------------------------------------------
(* The base of every argument is invariant.                                  *)

LEMMA RecordsOf ==
  ASSUME Typed, NEW r \in Runs
  PROVE  /\ Passed(r) \in RunRecord /\ Refused(r) \in RunRecord /\ Over(r, "died") \in RunRecord
         /\ \A n \in Nat : /\ [Passed(r) EXCEPT !.source = n] \in RunRecord
                           /\ [Passed(r) EXCEPT !.mark = n] \in RunRecord
         /\ Bytes(r) \in FileRecord /\ [Bytes(r) EXCEPT !.whole = FALSE] \in FileRecord
         /\ Absent \in FileRecord /\ [Absent EXCEPT !.by = {r}] \in FileRecord
<1>1. run[r] \in RunRecord
  BY DEF Typed
<1>2. Passed(r) \in RunRecord
  <2> DEFINE n == run[r].at + 1
             x == IF run[r].at = Len(Steps(r)) THEN "ended" ELSE run[r].state
  <2>1. n \in Nat /\ x \in {"waiting", "alive", "ended", "refused", "died"}
    BY <1>1 DEF RunRecord
  <2>2. Passed(r) = [run[r] EXCEPT !.at = n, !.state = x]
    BY DEF Passed
  <2> HIDE DEF n, x
  <2> QED
    BY <1>1, <2>1, <2>2 DEF RunRecord
<1>3. Refused(r) \in RunRecord /\ Over(r, "died") \in RunRecord
  BY <1>1 DEF RunRecord, Refused, Over
<1>4. ASSUME NEW n \in Nat, NEW x \in RunRecord
      PROVE  [x EXCEPT !.source = n] \in RunRecord /\ [x EXCEPT !.mark = n] \in RunRecord
  BY <1>4 DEF RunRecord
<1>5. Bytes(r) \in FileRecord /\ [Bytes(r) EXCEPT !.whole = FALSE] \in FileRecord
  BY <1>1 DEF RunRecord, FileRecord, Bytes
<1>6. Absent \in FileRecord /\ [Absent EXCEPT !.by = {r}] \in FileRecord
  BY DEF FileRecord, Absent
<1> QED
  BY <1>2, <1>3, <1>4, <1>5, <1>6

LEMMA EvidenceIsNat == ASSUME Typed PROVE sealed.mark \in Nat /\ Evidence \in Nat
  BY WatermarkAssumption DEF Typed, Evidence

(* A started run leaves everyone's record in form.                           *)
LEMMA StartKeepsTyped == ASSUME Typed, NEW r \in Runs, Starts(r) PROVE Typed'
<1>1. PICK mode \in Modes(study) : Start(r, mode)
  BY DEF Starts
<1>2. mode \in {"once", "overwrite", "drill"}
  BY DEF Modes
<1> DEFINE others == {q \in Runs : Alive(q)}
<1>3. \A b \in BOOLEAN :
        [Waiting EXCEPT !.state = "alive", !.at = 1, !.mode = mode, !.alone = b] \in RunRecord
  BY <1>2 DEF Waiting, RunRecord
<1>4. \A q \in Runs : run[q] \in RunRecord /\ [run[q] EXCEPT !.alone = FALSE] \in RunRecord
  BY DEF Typed, RunRecord
<1>5. run' = [q \in Runs |->
        IF q = r THEN [Waiting EXCEPT !.state = "alive", !.at = 1, !.mode = mode, !.alone = (others = {})]
        ELSE IF q \in others THEN [run[q] EXCEPT !.alone = FALSE] ELSE run[q]]
  BY <1>1 DEF Start
<1>6. (others = {}) \in BOOLEAN
  OBVIOUS
<1> HIDE DEF others
<1>7. run' \in [Runs -> RunRecord]
  BY <1>3, <1>4, <1>5, <1>6
<1> QED
  BY <1>1, <1>7 DEF Start, Typed

LEMMA RunKeepsTyped ==
  ASSUME Typed, NEW r \in Runs, RunStep(r)
  PROVE  Typed'
<1>1. CASE Starts(r)
  BY <1>1, StartKeepsTyped
<1> SUFFICES ASSUME ~Starts(r) PROVE Typed'
  BY <1>1
<1>2. study' = study /\ tree' = tree /\ sealed' = sealed
  BY DEF RunStep, Starts, CheckAbsent, Capture, Stable, Confirm, Eligible, Open, Die, Link, Replace,
         Unlink, Create, Truncate, Fill, Rename, ReadEvidence, Match, Reserve, Copy, Compare, Unmoved
<1>3. looks' = looks \/ looks' = looks \cup {r}
  BY DEF RunStep, Starts, CheckAbsent, Capture, Stable, Confirm, Eligible, Open, Die, Link, Replace,
         Unlink, Create, Truncate, Fill, Rename, ReadEvidence, Match, Reserve, Copy, Compare, Unmoved
<1>4. sealed.mark \in Nat /\ Evidence \in Nat /\ tree.content \in Nat
  BY EvidenceIsNat DEF Typed
<1>5. \E x \in RunRecord : run' = [run EXCEPT ![r] = x]
  <2>1. CASE CheckAbsent(r) \/ Stable(r) \/ Confirm(r) \/ Match(r) \/ Open(r) \/ Die(r)
    BY <2>1, RecordsOf DEF CheckAbsent, Stable, Confirm, Match, Open, Die
  <2>2. CASE Capture(r) \/ Eligible(r) \/ ReadEvidence(r)
    BY <2>2, <1>4, RecordsOf DEF Capture, Eligible, ReadEvidence
  <2>3. CASE Truncate(r) \/ Fill(r) \/ Rename(r)
    BY <2>3, RecordsOf DEF Truncate, Fill, Rename
  <2>4. CASE \E f \in Files : Link(r, f) \/ Replace(r, f) \/ Unlink(r, f) \/ Create(r, f)
    BY <2>4, RecordsOf DEF Link, Replace, Unlink, Create
  <2>5. CASE \E f \in Files : Reserve(r, f) \/ Copy(r, f) \/ Compare(r, f) \/ Unmoved(r, f)
    BY <2>5, RecordsOf DEF Reserve, Copy, Compare, Unmoved, Discard
  <2> QED
    BY <2>1, <2>2, <2>3, <2>4, <2>5 DEF RunStep, Starts
<1>6. disk' \in [Files -> FileRecord]
  <2>1. disk \in [Files -> FileRecord]
    BY DEF Typed
  <2>2. CASE UNCHANGED disk
    BY <2>1, <2>2
  <2>3. ASSUME NEW f \in Files, NEW x \in FileRecord, disk' = [disk EXCEPT ![f] = x]
        PROVE  disk' \in [Files -> FileRecord]
    BY <2>1, <2>3
  <2>4. CASE \E f \in Files : Link(r, f) \/ Replace(r, f) \/ Unlink(r, f) \/ Create(r, f)
    BY <2>2, <2>3, <2>4, RecordsOf DEF Link, Replace, Unlink, Create
  <2>5. CASE \E f \in Files : Reserve(r, f) \/ Compare(r, f) \/ Unmoved(r, f) \/ Discard(r, f)
    BY <2>2, <2>3, <2>5, RecordsOf DEF Reserve, Compare, Unmoved, Discard
  <2>6. CASE \E f \in Files : Copy(r, f) /\ ~Discard(r, f)
    <3>1. PICK f \in Files : Copy(r, f) /\ ~Discard(r, f)
      BY <2>6
    <3> DEFINE mark == IF run[r].mode = "drill" THEN run[r].mark ELSE Evidence
    <3>2. mark \in Nat
      BY <1>4 DEF Typed, RunRecord
    <3>3. disk' = [disk EXCEPT ![f].mark = mark, ![f].whole = TRUE]
      BY <3>1 DEF Copy
    <3> HIDE DEF mark
    <3>4. disk' = [disk EXCEPT ![f] = [disk[f] EXCEPT !.mark = mark, !.whole = TRUE]]
      BY <2>1, <3>3
    <3>5. [disk[f] EXCEPT !.mark = mark, !.whole = TRUE] \in FileRecord
      BY <2>1, <3>2 DEF FileRecord
    <3> QED
      BY <2>3, <3>4, <3>5
  <2>7. CASE Truncate(r)
    <3>1. "tmp" \in Files
      BY DEF Files
    <3> QED
      BY <2>3, <2>7, <3>1, RecordsOf DEF Truncate
  <2>8. CASE Fill(r)
    <3>1. \A f \in Files : disk[f] \in FileRecord /\ [disk[f] EXCEPT !.whole = TRUE] \in FileRecord
      BY <2>1 DEF FileRecord
    <3> QED
      BY <2>8, <3>1 DEF Fill
  <2>9. CASE Rename(r)
    <3>1. {"tmp", "result"} \subseteq Files
      BY DEF Files
    <3> QED
      BY <2>1, <2>9, <3>1, RecordsOf DEF Rename
  <2> QED
    BY <2>2, <2>4, <2>5, <2>6, <2>7, <2>8, <2>9
       DEF RunStep, Starts, CheckAbsent, Capture, Stable, Confirm, Eligible, Open, Die, ReadEvidence, Match
<1> QED
  BY <1>2, <1>3, <1>5, <1>6 DEF Typed

(* Nobody leaves a trace but a run that was started.                         *)
LEMMA RunKeepsFresh ==
  ASSUME Base, NEW r \in Runs, RunStep(r)
  PROVE  Sited' /\ Fresh' /\ Overlapping'
<1> USE DEF Base
<1>1. CASE Starts(r)
  <2>1. PICK mode \in Modes(study) : Start(r, mode)
    BY <1>1 DEF Starts
  <2>2. study' = study /\ disk' = disk /\ looks' = looks
    BY <2>1 DEF Start
  <2>3. /\ run'[r].state = "alive" /\ run'[r].at = 1 /\ run'[r].mode = mode
        /\ run'[r].alone => \A q \in Runs : ~Alive(q)
    BY <2>1 DEF Start, Waiting
  <2>4. \A q \in Runs \ {r} : /\ run'[q].state = run[q].state /\ run'[q].at = run[q].at
                              /\ run'[q].mode = run[q].mode
                              /\ IF Alive(q) THEN ~run'[q].alone ELSE run'[q] = run[q]
    <3> SUFFICES ASSUME NEW q \in Runs \ {r}
                 PROVE  /\ run'[q].state = run[q].state /\ run'[q].at = run[q].at
                        /\ run'[q].mode = run[q].mode
                        /\ IF Alive(q) THEN ~run'[q].alone ELSE run'[q] = run[q]
      OBVIOUS
    <3>1. run'[q] = IF Alive(q) THEN [run[q] EXCEPT !.alone = FALSE] ELSE run[q]
      BY <2>1 DEF Start
    <3>2. run[q] \in RunRecord
      BY DEF Typed
    <3> QED
      BY <3>1, <3>2 DEF RunRecord
  <2>5. Sited'
    <3>1. Sized(Programs[study][mode])
      BY ProgramsAreSized DEF Typed
    <3>2. 1 \in 1 .. Len(Programs[study][mode])
      BY <3>1 DEF Sized
    <3> QED
      BY <2>2, <2>3, <2>4, <3>2 DEF Sited, Alive, Steps
  <2>6. Fresh'
    BY <2>2, <2>3, <2>4 DEF Fresh, Alive
  <2>7. Overlapping'
    BY <2>3, <2>4 DEF Overlapping, Alive
  <2> QED
    BY <2>5, <2>6, <2>7
<1>2. CASE Acts(r)
  <2>1. /\ Goes(r) /\ study' = study
        /\ \A f \in Files : disk'[f] = disk[f] \/ Touched(r, f)
        /\ looks' \subseteq looks \cup {r}
    BY <1>2 DEF Acts
  <2>2. Sited'
    <3>1. Steps(r)' = Steps(r) /\ \A q \in Runs \ {r} : Steps(q)' = Steps(q)
      BY <2>1 DEF Goes, Steps
    <3>2. run[r].at \in 1 .. Len(Steps(r)) /\ run[r].at \in Nat
      BY <2>1 DEF Goes, Sited, Typed, RunRecord
    <3>3. Alive(r)' => run'[r].at \in 1 .. Len(Steps(r))
      <4>1. Alive(r)' => Passes(r) /\ run[r].at # Len(Steps(r))
        BY <2>1 DEF Goes, Stops, Passes, Alive
      <4>2. Sized(Steps(r))
        BY ProgramsAreSized DEF Sited, Typed, Steps
      <4> QED
        BY <3>2, <4>1, <4>2 DEF Passes, Sized
    <3> QED
      BY <2>1, <3>1, <3>3 DEF Sited, Goes, Alive
  <2>3. \A f \in Files : disk'[f].by \subseteq disk[f].by \cup disk["tmp"].by \cup {r}
    <3> SUFFICES ASSUME NEW f \in Files, Touched(r, f)
                 PROVE  disk'[f].by \subseteq disk[f].by \cup disk["tmp"].by \cup {r}
      BY <2>1
    <3>1. disk[f] \in FileRecord /\ Absent.by = {}
      BY DEF Typed, Absent
    <3>2. Bytes(r).by = {r} /\ [Bytes(r) EXCEPT !.whole = FALSE].by = {r}
          /\ [Absent EXCEPT !.by = {r}].by = {r}
      BY DEF Bytes, Absent
    <3>3. CASE Made(r, f) \/ Reserved(r, f) \/ Put(r, f) \/ Removed(r, f) \/ Emptied(r, f)
      BY <3>1, <3>2, <3>3 DEF Made, Reserved, Put, Removed, Emptied
    <3>4. CASE Completed(r, f) \/ Moved(r, f) \/ Copied(r, f) \/ Discarded(r, f)
      BY <3>1, <3>4 DEF Completed, Moved, Copied, Discarded, FileRecord
    <3> QED
      BY <3>3, <3>4 DEF Touched
  <2>4. Fresh'
    <3>1. run'[r].state # "waiting"
      BY <2>1 DEF Goes, Passes, Stops
    <3>2. "tmp" \in Files
      BY DEF Files
    <3> QED
      BY <2>1, <2>3, <3>1, <3>2 DEF Fresh, Goes
  <2>5. Overlapping'
    BY <2>1 DEF Overlapping, Goes, Alive, Stops, Passes
  <2> QED
    BY <2>2, <2>4, <2>5
<1> QED
  BY <1>1, <1>2, RunActs

(* What moves beside the runs moves only the tree or the ledger.             *)
LEMMA OthersKeepBase ==
  ASSUME Base, Edit \/ Commit \/ Collect \/ UNCHANGED vars
  PROVE  Base' /\ study' = study /\ disk' = disk /\ run' = run /\ looks' = looks
<1>1. study' = study /\ disk' = disk /\ run' = run /\ looks' = looks
  BY DEF Edit, Commit, Collect, vars
<1>2. tree' \in [content : Nat, clean : BOOLEAN] /\ sealed' \in [mark : 0 .. Watermark, blocked : BOOLEAN]
  <2>1. /\ tree \in [content : Nat, clean : BOOLEAN]
        /\ sealed \in [mark : 0 .. Watermark, blocked : BOOLEAN]
    BY DEF Base, Typed
  <2>2. CASE Edit
    BY <2>1, <2>2 DEF Edit
  <2>3. CASE Commit
    BY <2>1, <2>3 DEF Commit
  <2>4. CASE Collect
    <3>1. sealed.mark < Watermark => sealed.mark + 1 \in 0 .. Watermark
      BY <2>1, WatermarkAssumption
    <3>2. \A n \in 0 .. Watermark : [sealed EXCEPT !.mark = n] \in [mark : 0 .. Watermark, blocked : BOOLEAN]
      BY <2>1
    <3>3. [sealed EXCEPT !.blocked = TRUE] \in [mark : 0 .. Watermark, blocked : BOOLEAN]
      BY <2>1
    <3> QED
      BY <2>1, <2>4, <3>1, <3>2, <3>3 DEF Collect
  <2> QED
    BY <2>1, <2>2, <2>3, <2>4 DEF vars
<1>3. Typed'
  BY <1>1, <1>2 DEF Base, Typed
<1>4. Sited' /\ Fresh' /\ Overlapping'
  BY <1>1 DEF Base, Sited, Fresh, Overlapping, Alive, Steps
<1> QED
  BY <1>1, <1>3, <1>4 DEF Base

LEMMA NextKeepsBase == ASSUME Base, [Next]_vars PROVE Base'
  BY OthersKeepBase, RunKeepsTyped, RunKeepsFresh DEF Next, Base

LEMMA InitBase == Init => Base
<1> SUFFICES ASSUME Init PROVE Base
  OBVIOUS
<1>1. Typed
  BY WatermarkAssumption DEF Init, Typed, FileRecord, RunRecord, Absent, Waiting
<1>2. \A r \in Runs : run[r].state = "waiting" /\ run[r].mode = "once" /\ \A f \in Files : disk[f].by = {}
  BY DEF Init, Waiting, Absent
<1>3. Sited /\ Fresh /\ Overlapping
  BY <1>2 DEF Init, Sited, Fresh, Overlapping, Alive, Modes
<1> QED
  BY <1>1, <1>3 DEF Base

--------------------------------------------------------------------------------
(* One look per attempt.  The attempt is claimed once, by a link or an       *)
(* exclusive create, and whoever is past that step is the one whose claim is *)
(* on disk; the property says nothing of a run on its way, this does.        *)

Claimed ==
  /\ looks \cup disk["result"].by \cup disk["summary"].by \subseteq disk["attempt"].by
  /\ \A r \in Runs : Alive(r) /\ run[r].at > Claim(study) => disk["attempt"].by = {r}

(* Where a run of a consuming study is, and what its step does to the files  *)
(* of the attempt.                                                           *)
LEMMA ClaimingStep ==
  ASSUME Base, study \in Consuming, NEW r \in Runs, Alive(r)
  PROVE  /\ Claiming(Step(r), run[r].at, Claim(study))
         /\ Steps(r) = Programs[study]["once"]
         /\ run[r].at \in Nat /\ Claim(study) \in {3, 4, 8}
<1>1. run[r].mode = "once"
  BY DEF Base, Sited, Modes, Consuming, Screens, OneShots
<1>2. Steps(r) = Programs[study]["once"] /\ run[r].at \in 1 .. Len(Programs[study]["once"])
  BY <1>1 DEF Base, Sited, Steps
<1>3. Claim(study) \in {3, 4, 8}
  BY DEF Claim, Consuming, OneShots
<1> QED
  BY <1>2, <1>3, ConsumingClaims DEF Step, Base, Typed, RunRecord

EvidenceFiles == {"attempt", "result", "summary"}

LEMMA ClaimingFiles ==
  ASSUME Base, study \in Consuming, NEW r \in Runs, Acts(r), NEW f \in EvidenceFiles
  PROVE  \/ disk'[f] = disk[f]
         \/ /\ disk[f] = Absent /\ disk'[f].by = {r} /\ Passes(r)
            /\ disk'[f].mark = run[r].mark
            /\ IF f = "attempt" THEN run[r].at = Claim(study) ELSE run[r].at > Claim(study)
         \/ disk[f].by = {r} /\ disk'[f].by = {r} /\ disk'[f].mark = disk[f].mark
<1>1. Claiming(Step(r), run[r].at, Claim(study))
  BY ClaimingStep DEF Acts, Goes
<1>2. f \in Files /\ (disk'[f] = disk[f] \/ Touched(r, f))
  BY DEF Acts, EvidenceFiles, Files
<1>3. Touched(r, f) => Made(r, f) \/ Completed(r, f)
  BY <1>1 DEF Touched, Claiming, Reserved, Put, Removed, Emptied, Moved, Copied, Discarded
<1>4. CASE Made(r, f)
  <2>1. disk'[f].by = {r} /\ disk'[f].mark = run[r].mark
    BY <1>4 DEF Made, Bytes
  <2> QED
    BY <1>1, <1>4, <2>1 DEF Made, Claiming, EvidenceFiles
<1>5. CASE Completed(r, f)
  <2>1. disk[f] \in FileRecord
    BY <1>2 DEF Base, Typed
  <2> QED
    BY <1>5, <2>1 DEF Completed, FileRecord
<1> QED
  BY <1>2, <1>3, <1>4, <1>5

LEMMA ActsKeepsClaimed ==
  ASSUME Base, study \in Consuming, Claimed, NEW r \in Runs, Acts(r)
  PROVE  Claimed'
<1>1. /\ Goes(r) /\ study' = study
      /\ Passes(r) => Achieves(r)
      /\ looks' = looks \/ (Step(r).do = "open" /\ looks' = looks \cup {r})
  BY DEF Acts
<1>2. Claiming(Step(r), run[r].at, Claim(study)) /\ run[r].at \in Nat /\ Claim(study) \in Nat
  BY <1>1, ClaimingStep DEF Goes
<1>3. run[r].at > Claim(study) => disk["attempt"].by = {r}
  BY <1>1 DEF Claimed, Goes
<1>4. \/ disk'["attempt"].by = disk["attempt"].by
      \/ disk["attempt"].by = {} /\ disk'["attempt"].by = {r}
  <2>1. "attempt" \in EvidenceFiles /\ Absent.by = {}
    BY DEF EvidenceFiles, Absent
  <2> QED
    BY <2>1, ClaimingFiles
<1>5. ASSUME NEW f \in {"result", "summary"}
      PROVE  disk'[f].by = disk[f].by \/ (disk'[f].by = {r} /\ run[r].at > Claim(study))
  <2>1. f \in EvidenceFiles /\ f # "attempt"
    BY DEF EvidenceFiles
  <2> QED
    BY <2>1, ClaimingFiles
<1>6. looks' \cup disk'["result"].by \cup disk'["summary"].by \subseteq disk'["attempt"].by
  <2>1. looks' = looks \/ (looks' = looks \cup {r} /\ disk["attempt"].by = {r})
    BY <1>1, <1>2, <1>3 DEF Claiming
  <2>2. \A f \in {"result", "summary"} : disk'[f].by \subseteq disk["attempt"].by
    BY <1>3, <1>5 DEF Claimed
  <2>3. looks' \subseteq disk["attempt"].by
    BY <2>1 DEF Claimed
  <2> QED
    BY <1>4, <2>2, <2>3
<1>7. ASSUME NEW q \in Runs, Alive(q)', run'[q].at > Claim(study)
      PROVE  disk'["attempt"].by = {q}
  <2>1. CASE q # r
    BY <1>1, <1>4, <1>7, <2>1 DEF Claimed, Goes, Alive
  <2>2. CASE q = r
    <3>1. Passes(r)
      BY <1>1, <1>7, <2>2 DEF Goes, Stops, Alive
    <3>2. CASE run[r].at > Claim(study)
      BY <1>3, <1>4, <2>2, <3>2
    <3>3. CASE run[r].at = Claim(study)
      <4>1. Step(r).do \in {"link", "create"} /\ Step(r).files = {"attempt"}
        BY <1>2, <3>3 DEF Claiming
      <4>2. \E f \in Step(r).files : Made(r, f)
        BY <1>1, <3>1, <4>1 DEF Achieves
      <4>3. Made(r, "attempt")
        BY <4>1, <4>2
      <4> QED
        BY <2>2, <4>3 DEF Made, Bytes
    <3> QED
      BY <1>2, <1>7, <2>2, <3>1, <3>2, <3>3 DEF Passes
  <2> QED
    BY <2>1, <2>2
<1> QED
  <2>1. Claim(study)' = Claim(study)
    BY <1>1 DEF Claim
  <2> QED
    BY <1>6, <1>7, <2>1 DEF Claimed

LEMMA StartsMeans ==
  ASSUME Base, NEW r \in Runs, Starts(r)
  PROVE  /\ study' = study /\ disk' = disk /\ looks' = looks /\ sealed' = sealed
         /\ run[r].state = "waiting" /\ run'[r].state = "alive" /\ run'[r].at = 1
         /\ run'[r].mode \in Modes(study)
         /\ \A q \in Runs \ {r} :
              /\ run'[q].state = run[q].state /\ run'[q].at = run[q].at /\ run'[q].mode = run[q].mode
              /\ run'[q].source = run[q].source /\ run'[q].mark = run[q].mark
              /\ run'[q].alone => run[q].alone
              /\ Alive(q) => ~run'[q].alone
              /\ ~Alive(q) => run'[q] = run[q]
         /\ run'[r].alone => \A q \in Runs : ~Alive(q)
<1>1. PICK mode \in Modes(study) : Start(r, mode)
  BY DEF Starts
<1>2. /\ run[r].state = "waiting" /\ run'[r].state = "alive" /\ run'[r].at = 1 /\ run'[r].mode = mode
      /\ run'[r].alone => \A q \in Runs : ~Alive(q)
  BY <1>1 DEF Start, Waiting
<1>3. ASSUME NEW q \in Runs \ {r}
      PROVE  /\ run'[q].state = run[q].state /\ run'[q].at = run[q].at /\ run'[q].mode = run[q].mode
             /\ run'[q].source = run[q].source /\ run'[q].mark = run[q].mark
             /\ run'[q].alone => run[q].alone
             /\ Alive(q) => ~run'[q].alone
             /\ ~Alive(q) => run'[q] = run[q]
  <2>1. run'[q] = IF Alive(q) THEN [run[q] EXCEPT !.alone = FALSE] ELSE run[q]
    BY <1>1 DEF Start
  <2>2. run[q] \in RunRecord
    BY DEF Base, Typed
  <2> QED
    BY <2>1, <2>2 DEF RunRecord
<1> QED
  BY <1>1, <1>2, <1>3 DEF Start

LEMMA StudyStays == ASSUME Base, [Next]_vars PROVE study' = study
  BY OthersKeepBase, RunActs, StartsMeans DEF Next, Acts, Base

LEMMA NextKeepsClaimed ==
  ASSUME Base, study \in Consuming, Claimed, [Next]_vars
  PROVE  Claimed'
<1>1. CASE Edit \/ Commit \/ Collect \/ UNCHANGED vars
  BY <1>1, OthersKeepBase DEF Claimed, Alive
<1>2. CASE \E r \in Runs : RunStep(r)
  <2>1. PICK r \in Runs : RunStep(r)
    BY <1>2
  <2>2. CASE Acts(r)
    BY <2>2, ActsKeepsClaimed
  <2>3. CASE Starts(r)
    <3>1. Claim(study) \in {3, 4, 8}
      BY DEF Claim, Consuming, OneShots
    <3>2. \A q \in Runs : Alive(q)' /\ run'[q].at > Claim(study) => Alive(q) /\ run[q].at > Claim(study)
      BY <2>3, <3>1, StartsMeans DEF Alive
    <3> QED
      BY <2>3, <3>2, StartsMeans DEF Claimed
  <2> QED
    BY <2>1, <2>2, <2>3, RunActs DEF Base
<1> QED
  BY <1>1, <1>2 DEF Next

(* An attempt admits one look, whoever races, dies and starts again.         *)
THEOREM OneLook == Spec => []OneLookPerAttempt
<1> DEFINE I == Base /\ (study \in Consuming => Claimed)
<1>1. Init => I
  <2> SUFFICES ASSUME Init PROVE I
    OBVIOUS
  <2>1. Base
    BY InitBase
  <2>2. Claimed
    BY DEF Init, Claimed, Absent, Waiting, Alive, Files
  <2> QED
    BY <2>1, <2>2
<1>2. I /\ [Next]_vars => I'
  <2> SUFFICES ASSUME I, [Next]_vars PROVE I'
    OBVIOUS
  <2>1. Base' /\ study' = study
    BY NextKeepsBase, StudyStays
  <2> QED
    BY <2>1, NextKeepsClaimed
<1>3. I => OneLookPerAttempt
  BY DEF Claimed, OneLookPerAttempt
<1> HIDE DEF I
<1> QED
  BY <1>1, <1>2, <1>3, PTL DEF Spec

--------------------------------------------------------------------------------
(* The forward study judges what it counted.  The gate is passed at one      *)
(* watermark, the claim binds it, and neither moves when the ledger does.    *)

Enough(mark) == mark >= Days /\ Closed[mark] >= Trades

Counted ==
  /\ \A r \in Runs : Alive(r) /\ run[r].at > 2 => Enough(run[r].mark)
  /\ \A r \in Runs : Alive(r) /\ run[r].at > 3 => run[r].mark = disk["attempt"].mark
  /\ \A r \in looks : /\ Enough(run[r].mark) /\ run[r].mark = disk["attempt"].mark
                      /\ Alive(r) => run[r].at > 3

LEMMA ForwardStep ==
  ASSUME Base, study = "forward", NEW r \in Runs, Alive(r)
  PROVE  /\ Claiming(Step(r), run[r].at, 3) /\ run[r].at \in Nat
         /\ Step(r).do = "eligible" <=> run[r].at = 2
         /\ Claim(study) = 3
<1>1. study \in Consuming /\ Claim(study) = 3
  BY DEF Consuming, Claim, OneShots
<1>2. Claiming(Step(r), run[r].at, 3) /\ run[r].at \in Nat /\ Steps(r) = Forward
  BY <1>1, ClaimingStep, ProgramsAre
<1>3. run[r].at \in 1 .. Len(Forward)
  BY <1>2 DEF Base, Sited
<1> QED
  BY <1>1, <1>2, <1>3, ForwardCounts DEF Step

LEMMA ActsKeepsCounted ==
  ASSUME Base, study = "forward", Claimed, Counted, NEW r \in Runs, Acts(r)
  PROVE  Counted'
<1>1. /\ Goes(r) /\ study' = study
      /\ Passes(r) => Achieves(r)
      /\ looks' = looks \/ (Step(r).do = "open" /\ looks' = looks \cup {r} /\ Passes(r))
  BY DEF Acts
<1>2. /\ Claiming(Step(r), run[r].at, 3) /\ run[r].at \in Nat
      /\ Step(r).do = "eligible" <=> run[r].at = 2
      /\ Claim(study) = 3 /\ study \in Consuming
  BY <1>1, ForwardStep DEF Goes, Consuming
<1>3. \/ disk'["attempt"].mark = disk["attempt"].mark
      \/ disk["attempt"].by = {}
  <2>1. "attempt" \in EvidenceFiles /\ Absent.by = {}
    BY DEF EvidenceFiles, Absent
  <2> QED
    BY <1>2, <2>1, ClaimingFiles
<1>4. \A q \in Runs : Alive(q) /\ run[q].at > 3 => disk["attempt"].by = {q}
  BY <1>2 DEF Claimed
<1>5. looks # {} => disk'["attempt"].mark = disk["attempt"].mark
  BY <1>3 DEF Claimed
<1>6. Passes(r) =>
        /\ run'[r].at = run[r].at + 1
        /\ run'[r].mark = IF run[r].at = 2 THEN sealed.mark ELSE run[r].mark
        /\ run[r].at = 2 => Enough(sealed.mark)
  BY <1>1, <1>2 DEF Passes, Claiming, Achieves, Enough
<1>7. ASSUME NEW q \in Runs, Alive(q)', run'[q].at > 2 PROVE Enough(run'[q].mark)
  <2>1. CASE q # r
    BY <1>1, <1>7, <2>1 DEF Counted, Goes, Alive
  <2>2. CASE q = r
    <3>1. Passes(r)
      BY <1>1, <1>7, <2>2 DEF Goes, Stops, Alive
    <3> QED
      BY <1>1, <1>2, <1>6, <1>7, <2>2, <3>1 DEF Counted, Goes
  <2> QED
    BY <2>1, <2>2
<1>8. ASSUME NEW q \in Runs, Alive(q)', run'[q].at > 3 PROVE run'[q].mark = disk'["attempt"].mark
  <2>1. CASE q # r
    BY <1>1, <1>3, <1>4, <1>8, <2>1 DEF Counted, Goes, Alive
  <2>2. CASE q = r
    <3>1. Passes(r)
      BY <1>1, <1>8, <2>2 DEF Goes, Stops, Alive
    <3>2. CASE run[r].at = 3
      <4>1. Step(r).do \in {"link", "create"} /\ Step(r).files = {"attempt"}
        BY <1>2, <3>2 DEF Claiming
      <4>2. \E f \in Step(r).files : Made(r, f)
        BY <1>1, <3>1, <4>1 DEF Achieves
      <4>3. Made(r, "attempt")
        BY <4>1, <4>2
      <4>4. disk'["attempt"].mark = run[r].mark
        BY <4>3 DEF Made, Bytes
      <4> QED
        BY <1>6, <2>2, <3>1, <3>2, <4>4
    <3>3. CASE run[r].at > 3
      BY <1>1, <1>2, <1>3, <1>4, <1>6, <2>2, <3>1, <3>3 DEF Counted, Goes
    <3> QED
      BY <1>2, <1>6, <1>8, <2>2, <3>1, <3>2, <3>3
  <2> QED
    BY <2>1, <2>2
<1>9. ASSUME NEW q \in looks'
      PROVE  /\ Enough(run'[q].mark) /\ run'[q].mark = disk'["attempt"].mark
             /\ Alive(q)' => run'[q].at > 3
  <2>1. q \in Runs
    BY <1>1, <1>9 DEF Base, Typed
  <2>2. CASE q \in looks /\ q # r
    BY <1>1, <1>5, <2>1, <2>2 DEF Counted, Goes, Alive
  <2>3. CASE q \in looks /\ q = r
    <3>1. run[r].at > 3 /\ Enough(run[r].mark) /\ run[r].mark = disk["attempt"].mark
      BY <1>1, <2>3 DEF Counted, Goes
    <3>2. run'[r].mark = run[r].mark
      BY <1>1, <1>2, <1>6, <2>3, <3>1 DEF Goes, Stops
    <3>3. Alive(r)' => run'[r].at > 3
      BY <1>1, <1>2, <1>6, <3>1 DEF Goes, Stops, Alive
    <3> QED
      BY <1>5, <2>3, <3>1, <3>2, <3>3
  <2>4. CASE q = r /\ q \notin looks
    <3>1. Step(r).do = "open" /\ Passes(r)
      BY <1>1, <1>9, <2>4
    <3>2. run[r].at > 3
      BY <1>2, <3>1 DEF Claiming
    <3>3. Enough(run[r].mark) /\ run[r].mark = disk["attempt"].mark
      BY <1>1, <1>2, <3>2 DEF Counted, Goes
    <3>4. disk'["attempt"].mark = disk["attempt"].mark
      BY <1>1, <1>3, <1>4, <3>2 DEF Goes
    <3>5. run'[r].mark = run[r].mark /\ run'[r].at > 3
      BY <1>2, <1>6, <3>1, <3>2
    <3> QED
      BY <2>4, <3>3, <3>4, <3>5
  <2> QED
    BY <1>1, <1>9, <2>2, <2>3, <2>4
<1> QED
  BY <1>7, <1>8, <1>9 DEF Counted, Enough

LEMMA StartKeepsCounted ==
  ASSUME Base, study = "forward", Counted, NEW r \in Runs, Starts(r)
  PROVE  Counted'
<1>1. /\ disk' = disk /\ looks' = looks /\ r \notin looks
      /\ run'[r].at = 1
  BY StartsMeans DEF Base, Fresh
<1>2. \A q \in Runs \ {r} : /\ run'[q].state = run[q].state /\ run'[q].at = run[q].at
                            /\ run'[q].mark = run[q].mark
  BY StartsMeans
<1>3. looks \subseteq Runs
  BY DEF Base, Typed
<1> QED
  BY <1>1, <1>2, <1>3 DEF Counted, Enough, Alive

LEMMA NextKeepsCounted ==
  ASSUME Base, study = "forward", Claimed, Counted, [Next]_vars
  PROVE  Counted'
<1>1. CASE Edit \/ Commit \/ Collect \/ UNCHANGED vars
  BY <1>1, OthersKeepBase DEF Counted, Enough, Alive
<1>2. CASE \E r \in Runs : RunStep(r)
  BY <1>2, ActsKeepsCounted, StartKeepsCounted, RunActs DEF Base
<1> QED
  BY <1>1, <1>2 DEF Next

(* The trades that opened the gate are those the evidence is about, whatever *)
(* the collector sealed in between.                                          *)
THEOREM JudgedIsCounted == Spec => []ForwardJudgesTheCounted
<1> DEFINE I == /\ Base
                /\ study \in Consuming => Claimed
                /\ study = "forward" => Counted
<1>1. Init => I
  <2> SUFFICES ASSUME Init PROVE I
    OBVIOUS
  <2>1. Base
    BY InitBase
  <2>2. Claimed /\ Counted
    BY DEF Init, Claimed, Counted, Absent, Waiting, Alive, Files
  <2> QED
    BY <2>1, <2>2
<1>2. I /\ [Next]_vars => I'
  <2> SUFFICES ASSUME I, [Next]_vars PROVE I'
    OBVIOUS
  <2>1. Base' /\ study' = study
    BY NextKeepsBase, StudyStays
  <2>2. "forward" \in Consuming
    BY DEF Consuming
  <2> QED
    BY <2>1, <2>2, NextKeepsClaimed, NextKeepsCounted
<1>3. I => ForwardJudgesTheCounted
  BY DEF Counted, Enough, ForwardJudgesTheCounted
<1> HIDE DEF I
<1> QED
  BY <1>1, <1>2, <1>3, PTL DEF Spec

--------------------------------------------------------------------------------
(* Evidence beside the plan it was registered under.  A plan is registered   *)
(* before any evidence and only an overwriting run, alone by assumption,     *)
(* puts another in its place; what it finds of older evidence it has removed *)
(* before, but in the development screen, which removes it after.            *)

Registered == Screens \cup {"regime_retest"}
OneByOne == \A r \in Runs : run[r].mode = "overwrite" => run[r].alone

(* A run past its plan has its plan on disk.                                 *)
PlanIsOurs ==
  \A r \in Runs : Alive(r) /\ run[r].at > PlanAt(study, run[r].mode) =>
    disk["plan"].by = {r} /\ disk["plan"].source = run[r].source

PlanComesFirst == disk["plan"] = Absent => disk["result"] = Absent /\ disk["summary"] = Absent

StaleIsGone ==
  /\ study = "development" => disk["summary"] = Absent
  /\ study = "orderflow" => \A r \in Runs : Alive(r) /\ run[r].mode = "overwrite" =>
       /\ run[r].at \in {3, 4} => disk["result"] = Absent
       /\ run[r].at = 4 => disk["summary"] = Absent

ResultBelongs == disk["result"] # Absent => disk["result"].source = disk["plan"].source \/ StalePlanGap
SummaryBelongs == disk["summary"] # Absent => disk["summary"].source = disk["plan"].source

Together == PlanIsOurs /\ PlanComesFirst /\ StaleIsGone /\ ResultBelongs /\ SummaryBelongs

LEMMA RegisteringStep ==
  ASSUME Base, study \in Registered, NEW r \in Runs, Alive(r)
  PROVE  /\ Registering(Step(r), run[r].at, PlanAt(study, run[r].mode), run[r].mode = "overwrite")
         /\ run[r].mode = "overwrite" => Removing(Step(r), run[r].at, study)
         /\ study = "development" /\ Step(r).do \in {"link", "create"} => "summary" \notin Step(r).files
         /\ PlanAt(study, run[r].mode) < Len(Steps(r))
         /\ run[r].at \in Nat /\ PlanAt(study, run[r].mode) \in {2, 3, 4}
<1>1. run[r].mode \in Modes(study) /\ run[r].at \in 1 .. Len(Programs[study][run[r].mode])
  BY DEF Base, Sited, Steps
<1>2. PlanAt(study, run[r].mode) \in {2, 3, 4} /\ run[r].at \in Nat
  BY DEF PlanAt, Base, Typed, RunRecord
<1> QED
  BY <1>1, <1>2, ScreensRegister, PlanIsNotLast DEF Registered, Step, Steps

(* What a step does to the plan, the result and the summary.                 *)
Registers(r, f) ==
  /\ IF f = "plan" THEN run[r].at = PlanAt(study, run[r].mode) ELSE run[r].at > PlanAt(study, run[r].mode)
  /\ disk[f] = Absent \/ (f = "plan" /\ run[r].mode = "overwrite")
  /\ disk'[f] # Absent /\ disk'[f].by = {r} /\ disk'[f].source = run[r].source
  /\ study = "development" => f # "summary"
  /\ Passes(r)

Cleans(r, f) ==
  /\ Step(r).do = "unlink" /\ f \in Step(r).files
  /\ f # "plan" /\ run[r].mode = "overwrite" /\ disk'[f] = Absent /\ Passes(r)

Finishes(r, f) ==
  /\ disk[f] # Absent /\ disk'[f] # Absent
  /\ disk[f].by = {r} /\ disk'[f].by = {r} /\ disk'[f].source = disk[f].source

LEMMA RegisteringFiles ==
  ASSUME Base, study \in Registered, NEW r \in Runs, Acts(r), NEW f \in {"plan", "result", "summary"}
  PROVE  disk'[f] = disk[f] \/ Registers(r, f) \/ Cleans(r, f) \/ Finishes(r, f)
<1>1. /\ Registering(Step(r), run[r].at, PlanAt(study, run[r].mode), run[r].mode = "overwrite")
      /\ study = "development" /\ Step(r).do \in {"link", "create"} => "summary" \notin Step(r).files
  BY RegisteringStep DEF Acts, Goes
<1>2. f \in Files /\ (disk'[f] = disk[f] \/ Touched(r, f)) /\ disk[f] \in FileRecord
  BY DEF Acts, Files, Base, Typed
<1>3. Touched(r, f) => Made(r, f) \/ Put(r, f) \/ Removed(r, f) \/ Completed(r, f)
  BY <1>1 DEF Touched, Registering, Reserved, Emptied, Moved, Copied, Discarded
<1>4. Absent.by = {} /\ Bytes(r).by = {r} /\ Bytes(r).source = run[r].source
      /\ [Bytes(r) EXCEPT !.whole = FALSE].by = {r}
      /\ [Bytes(r) EXCEPT !.whole = FALSE].source = run[r].source
  BY DEF Absent, Bytes
<1>5. CASE Made(r, f)
  <2>1. disk[f] = Absent /\ disk'[f].by = {r} /\ disk'[f].source = run[r].source
    BY <1>4, <1>5 DEF Made
  <2>2. disk'[f] # Absent
    BY <1>4, <2>1
  <2>3. IF f = "plan" THEN run[r].at = PlanAt(study, run[r].mode) ELSE run[r].at > PlanAt(study, run[r].mode)
    BY <1>1, <1>5 DEF Made, Registering
  <2>4. study = "development" => f # "summary"
    BY <1>1, <1>5 DEF Made
  <2> QED
    BY <1>5, <2>1, <2>2, <2>3, <2>4 DEF Registers, Made
<1>6. CASE Put(r, f)
  <2>1. disk'[f].by = {r} /\ disk'[f].source = run[r].source
    BY <1>4, <1>6 DEF Put
  <2>2. disk'[f] # Absent
    BY <1>4, <2>1
  <2>3. f = "plan" /\ run[r].at = PlanAt(study, run[r].mode) /\ run[r].mode = "overwrite"
    BY <1>1, <1>6 DEF Put, Registering
  <2> QED
    BY <1>6, <2>1, <2>2, <2>3 DEF Registers, Put
<1>7. CASE Removed(r, f)
  BY <1>1, <1>7 DEF Removed, Registering, Cleans
<1>8. CASE Completed(r, f)
  <2>1. disk[f].by = {r} /\ disk'[f].by = {r} /\ disk'[f].source = disk[f].source
    BY <1>2, <1>8 DEF Completed, FileRecord
  <2> QED
    BY <1>4, <2>1 DEF Finishes
<1> QED
  BY <1>2, <1>3, <1>5, <1>6, <1>7, <1>8

(* An overwriting run that is alone has no one to take the plan from.        *)
LEMMA OverwritesAlone ==
  ASSUME Base, OneByOne, NEW r \in Runs, Alive(r), NEW q \in Runs, Alive(q), q # r
  PROVE  run[r].mode # "overwrite" /\ run[q].mode # "overwrite"
  BY DEF Base, Overlapping, OneByOne

(* A removal that is due is done, or its run is dead.                        *)
LEMMA RemovalsAreNotRefused ==
  ASSUME Base, NEW r \in Runs, RunStep(r), Alive(r), Step(r).do = "unlink"
  PROVE  run'[r].state # "refused"
<1>1. CASE Die(r)
  BY <1>1 DEF Die, Over, Base, Typed, RunRecord
<1>2. CASE \E f \in Files : Unlink(r, f)
  <2>1. run' = [run EXCEPT ![r] = Passed(r)]
    BY <1>2 DEF Unlink
  <2> QED
    BY <2>1 DEF Passed, Alive, Base, Typed, RunRecord
<1> QED
  BY <1>1, <1>2 DEF RunStep, Start, Alive, At, CheckAbsent, Capture, Stable, Confirm, Eligible, Open,
     Link, Replace, Create, Truncate, Fill, Rename, ReadEvidence, Match, Reserve, Copy, Compare, Unmoved

(* The plan of a run that goes on.                                           *)
LEMMA ActsKeepsPlan ==
  ASSUME Base, study \in Registered, OneByOne, Together, NEW r \in Runs, Acts(r)
  PROVE  /\ PlanIsOurs' /\ PlanComesFirst'
         /\ disk["plan"] # Absent /\ run[r].mode # "overwrite"
              => disk'["plan"] # Absent /\ disk'["plan"].by = disk["plan"].by
                                       /\ disk'["plan"].source = disk["plan"].source
<1> DEFINE at == PlanAt(study, run[r].mode)
<1>1. /\ Goes(r) /\ study' = study
      /\ Passes(r) => Achieves(r)
  BY DEF Acts
<1>2. /\ Registering(Step(r), run[r].at, at, run[r].mode = "overwrite")
      /\ run[r].at \in Nat /\ at \in Nat
  BY <1>1, RegisteringStep DEF Goes
<1>3. \A f \in {"plan", "result", "summary"} :
        disk'[f] = disk[f] \/ Registers(r, f) \/ Cleans(r, f) \/ Finishes(r, f)
  BY RegisteringFiles
<1>4. Absent.by = {}
  BY DEF Absent
<1>5. /\ disk'["plan"] = Absent => disk["plan"] = Absent
      /\ disk["plan"] # Absent /\ run[r].mode # "overwrite" =>
           /\ disk'["plan"] # Absent /\ disk'["plan"].by = disk["plan"].by
           /\ disk'["plan"].source = disk["plan"].source
  BY <1>3 DEF Registers, Cleans, Finishes
<1>6. run[r].at > at => disk["plan"].by = {r} /\ disk["plan"].source = run[r].source
  BY <1>1 DEF Together, PlanIsOurs, Goes
<1>7. PlanComesFirst'
  <2> SUFFICES ASSUME disk'["plan"] = Absent PROVE disk'["result"] = Absent /\ disk'["summary"] = Absent
    BY DEF PlanComesFirst
  <2>1. disk["plan"] = Absent /\ disk["result"] = Absent /\ disk["summary"] = Absent
    BY <1>5 DEF Together, PlanComesFirst
  <2>2. ~(run[r].at > at)
    BY <1>4, <1>6, <2>1
  <2> QED
    BY <1>3, <2>1, <2>2 DEF Registers, Cleans, Finishes
<1>8. PlanIsOurs'
  <2> SUFFICES ASSUME NEW q \in Runs, Alive(q)', run'[q].at > PlanAt(study, run'[q].mode)
               PROVE  disk'["plan"].by = {q} /\ disk'["plan"].source = run'[q].source
    BY <1>1 DEF PlanIsOurs, PlanAt
  <2>1. CASE q # r
    <3>1. run'[q] = run[q] /\ Alive(q)
      BY <1>1, <2>1 DEF Goes, Alive
    <3>2. run[r].mode # "overwrite"
      BY <1>1, <2>1, <3>1, OverwritesAlone DEF Goes
    <3>3. disk["plan"].by = {q} /\ disk["plan"].source = run[q].source
      BY <3>1 DEF Together, PlanIsOurs
    <3> QED
      BY <1>4, <1>5, <3>1, <3>2, <3>3
  <2>2. CASE q = r
    <3>1. Passes(r) /\ run'[r].mode = run[r].mode
      BY <1>1, <2>2 DEF Goes, Stops, Alive
    <3>2. run[r].at >= at /\ run'[r].source = run[r].source
      BY <1>2, <2>2, <3>1 DEF Passes, Registering
    <3>3. CASE run[r].at = at
      <4>1. Step(r).files = {"plan"} /\ Step(r).do \in {"link", "create", "replace"}
        BY <1>2, <3>3 DEF Registering
      <4>2. \E f \in Step(r).files : Made(r, f) \/ Put(r, f)
        BY <1>1, <3>1, <4>1 DEF Achieves
      <4>3. Made(r, "plan") \/ Put(r, "plan")
        BY <4>1, <4>2
      <4> QED
        BY <2>2, <3>2, <4>3 DEF Made, Put, Bytes
    <3>4. CASE run[r].at > at
      <4>1. disk["plan"].by = {r} /\ disk["plan"].source = run[r].source
        BY <1>6, <3>4
      <4>2. disk'["plan"] = disk["plan"] \/ Finishes(r, "plan")
        BY <1>2, <1>3, <3>4 DEF Registers, Cleans
      <4> QED
        BY <2>2, <3>2, <4>1, <4>2 DEF Finishes
    <3> QED
      BY <1>2, <3>2, <3>3, <3>4
  <2> QED
    BY <2>1, <2>2
<1> QED
  BY <1>5, <1>7, <1>8

(* The stale evidence on the way of an overwriting run.                      *)
LEMMA ActsKeepsStale ==
  ASSUME Base, study \in Registered, OneByOne, Together, NEW r \in Runs, Acts(r)
  PROVE  StaleIsGone'
<1>1. /\ Goes(r) /\ study' = study
      /\ Passes(r) => Achieves(r)
  BY DEF Acts
<1>2. \A f \in {"plan", "result", "summary"} :
        disk'[f] = disk[f] \/ Registers(r, f) \/ Cleans(r, f) \/ Finishes(r, f)
  BY RegisteringFiles
<1>3. study = "development" => disk'["summary"] = Absent
  BY <1>2 DEF Together, StaleIsGone, Registers, Cleans, Finishes
<1>4. ASSUME study = "orderflow", NEW q \in Runs, Alive(q)', run'[q].mode = "overwrite"
      PROVE  /\ run'[q].at \in {3, 4} => disk'["result"] = Absent
             /\ run'[q].at = 4 => disk'["summary"] = Absent
  <2>1. q = r
    BY <1>1, <1>4, OverwritesAlone DEF Goes, Alive
  <2>2. Passes(r) /\ run[r].mode = "overwrite" /\ PlanAt(study, run[r].mode) = 4 /\ run[r].at \in Nat
    BY <1>1, <1>4, <2>1 DEF Goes, Stops, Alive, PlanAt, Base, Typed, RunRecord
  <2>3. Removing(Step(r), run[r].at, study)
    BY <1>1, <2>2, RegisteringStep DEF Goes
  <2>4. Step(r).do = "unlink" => \E f \in Step(r).files : Removed(r, f)
    BY <1>1, <2>2 DEF Achieves
  <2>5. run[r].at = 2 => disk'["result"] = Absent
    BY <1>4, <2>3, <2>4 DEF Removing, Removed
  <2>6. run[r].at = 3 => disk'["summary"] = Absent
    BY <1>4, <2>3, <2>4 DEF Removing, Removed
  <2>7. run[r].at = 3 => disk'["result"] = Absent
    <3>1. run[r].at = 3 => disk["result"] = Absent
      BY <1>1, <1>4, <2>2 DEF Together, StaleIsGone, Goes
    <3>2. run[r].at = 3 => ~Registers(r, "result")
      BY <2>2 DEF Registers
    <3> QED
      BY <1>2, <3>1, <3>2 DEF Cleans, Finishes
  <2>8. run'[r].at = run[r].at + 1
    BY <2>2 DEF Passes
  <2> QED
    BY <2>1, <2>2, <2>5, <2>6, <2>7, <2>8
<1> QED
  BY <1>1, <1>3, <1>4 DEF StaleIsGone

(* The gap of the development screen outlives every step but the removal     *)
(* that closes it.                                                           *)
LEMMA GapStays ==
  ASSUME Base, study \in Registered, OneByOne, NEW r \in Runs, RunStep(r), Acts(r),
         StalePlanGap, disk'["plan"].by = disk["plan"].by, disk'["result"] # Absent
  PROVE  StalePlanGap'
<1>1. /\ Goes(r) /\ study' = study
      /\ Passes(r) => Achieves(r)
  BY DEF Acts
<1>2. PICK q \in Runs : /\ run[q].mode = "overwrite" /\ run[q].state \in {"alive", "died"}
                       /\ Step(q).do = "unlink" /\ disk["plan"].by = {q}
  BY DEF StalePlanGap
<1>3. study = "development"
  BY DEF StalePlanGap
<1>4. CASE q # r
  <2>1. run'[q] = run[q] /\ Step(q)' = Step(q)
    BY <1>1, <1>4 DEF Goes, Step, Steps
  <2> QED
    BY <1>1, <1>2, <1>3, <2>1 DEF StalePlanGap
<1>5. CASE q = r
  <2>1. Removing(Step(r), run[r].at, study)
    BY <1>1, <1>2, <1>5, RegisteringStep DEF Goes
  <2>2. ~Passes(r)
    <3>1. Step(r).files = {"result"}
      BY <1>2, <1>3, <1>5, <2>1 DEF Removing
    <3>2. Passes(r) => \E f \in Step(r).files : Removed(r, f)
      BY <1>1, <1>2, <1>5 DEF Achieves
    <3> QED
      BY <3>1, <3>2 DEF Removed
  <2>3. run'[r].state # "refused"
    BY <1>1, <1>2, <1>5, RemovalsAreNotRefused DEF Goes
  <2>4. run'[r].state = "died" /\ run'[r].at = run[r].at /\ run'[r].mode = run[r].mode
    BY <1>1, <2>2, <2>3 DEF Goes, Stops
  <2>5. Step(r)' = Step(r)
    BY <1>1, <2>4 DEF Step, Steps
  <2> QED
    BY <1>1, <1>2, <1>3, <1>5, <2>4, <2>5 DEF StalePlanGap
<1> QED
  BY <1>4, <1>5

LEMMA ActsKeepsResult ==
  ASSUME Base, study \in Registered, OneByOne, Together, NEW r \in Runs, RunStep(r), Acts(r)
  PROVE  ResultBelongs' /\ SummaryBelongs'
<1>1. /\ Goes(r) /\ study' = study
      /\ Passes(r) => Achieves(r)
  BY DEF Acts
<1>2. \A f \in {"plan", "result", "summary"} :
        disk'[f] = disk[f] \/ Registers(r, f) \/ Cleans(r, f) \/ Finishes(r, f)
  BY RegisteringFiles
<1> DEFINE at == PlanAt(study, run[r].mode)
<1>3. run[r].at \in Nat /\ at \in Nat /\ at < Len(Steps(r)) /\ run[r].at \in 1 .. Len(Steps(r))
  BY <1>1, RegisteringStep DEF Base, Sited, Goes
<1>4. \/ disk'["plan"] = disk["plan"]
      \/ disk'["plan"].by = disk["plan"].by /\ disk'["plan"].source = disk["plan"].source
      \/ Registers(r, "plan")
  BY <1>2 DEF Cleans, Finishes
(* Evidence written in this step is written beside the run's own plan.       *)
<1>5. ASSUME NEW f \in {"result", "summary"}, Registers(r, f)
      PROVE  disk'[f].source = disk'["plan"].source
  <2>1. run[r].at > at
    BY <1>5 DEF Registers
  <2>2. disk["plan"].source = run[r].source
    BY <1>1, <2>1 DEF Together, PlanIsOurs, Goes
  <2>3. ~Registers(r, "plan")
    BY <1>3, <2>1 DEF Registers
  <2> QED
    BY <1>4, <1>5, <2>2, <2>3 DEF Registers
(* A new plan comes where no evidence is, or opens the gap.                  *)
<1>6. ASSUME Registers(r, "plan")
      PROVE  /\ disk["summary"] = Absent
             /\ disk["result"] = Absent \/ StalePlanGap'
  <2>1. CASE disk["plan"] = Absent
    BY <2>1 DEF Together, PlanComesFirst
  <2>2. CASE run[r].mode = "overwrite" /\ study = "orderflow"
    <3>1. run[r].at = 4
      BY <1>6, <2>2 DEF Registers, PlanAt
    <3> QED
      BY <1>1, <2>2, <3>1 DEF Together, StaleIsGone, Goes
  <2>3. CASE run[r].mode = "overwrite" /\ study = "development"
    <3>1. run[r].at = 2 /\ at = 2
      BY <1>6, <2>3 DEF Registers, PlanAt
    <3>2. Len(Steps(r)) # 2 /\ 3 \in 1 .. Len(Steps(r))
      <4> DEFINE n == Len(Steps(r))
      <4>1. n > 2 /\ n \in Nat
        <5>1. Sized(Steps(r))
          BY ProgramsAreSized DEF Base, Typed, Sited, Steps
        <5> QED
          BY <1>3, <3>1, <5>1 DEF Sized
      <4> HIDE DEF n
      <4>2. n # 2 /\ 3 \in 1 .. n
        BY <4>1
      <4> QED
        BY <4>2 DEF n
    <3>3. Passes(r)
      BY <1>6 DEF Registers
    <3>4. run'[r].at = 3 /\ run'[r].state = "alive"
      BY <3>1, <3>2, <3>3 DEF Passes
    <3>5. run'[r].mode = "overwrite"
      BY <1>1, <2>3 DEF Goes
    <3>6. Step(r)' = Programs["development"]["overwrite"][3]
      BY <1>1, <2>3, <3>4, <3>5 DEF Step, Steps
    <3>7. 3 \in 1 .. Len(Programs["development"]["overwrite"])
      BY <2>3, <3>2 DEF Steps
    <3>8. "development" \in Screens /\ "overwrite" \in Modes("development")
      BY DEF Screens, Modes
    <3>9. Removing(Programs["development"]["overwrite"][3], 3, "development")
      BY <3>7, <3>8, ScreensRegister
    <3>10. (Step(r)').do = "unlink"
      BY <3>6, <3>9 DEF Removing
    <3>11. disk'["plan"].by = {r}
      BY <1>6 DEF Registers
    <3>12. StalePlanGap'
      BY <1>1, <2>3, <3>4, <3>5, <3>10, <3>11 DEF StalePlanGap
    <3>13. disk["summary"] = Absent
      BY <2>3 DEF Together, StaleIsGone
    <3> QED
      BY <3>12, <3>13
  <2>4. run[r].mode = "overwrite" => study \in {"orderflow", "development"}
    <3>1. run[r].mode \in Modes(study)
      BY DEF Base, Sited
    <3> QED
      BY <3>1 DEF Modes, Screens
  <2> QED
    BY <1>6, <2>1, <2>2, <2>3, <2>4 DEF Registers
<1>7. SummaryBelongs'
  <2> SUFFICES ASSUME disk'["summary"] # Absent PROVE disk'["summary"].source = disk'["plan"].source
    BY DEF SummaryBelongs
  <2>1. CASE Registers(r, "summary")
    BY <1>5, <2>1
  <2>2. CASE ~Registers(r, "summary")
    <3>1. disk["summary"] # Absent /\ disk'["summary"].source = disk["summary"].source
      BY <1>2, <2>2 DEF Cleans, Finishes
    <3>2. disk'["plan"].source = disk["plan"].source
      BY <1>4, <1>6, <3>1
    <3> QED
      BY <3>1, <3>2 DEF Together, SummaryBelongs
  <2> QED
    BY <2>1, <2>2
<1>8. ResultBelongs'
  <2> SUFFICES ASSUME disk'["result"] # Absent
               PROVE  disk'["result"].source = disk'["plan"].source \/ StalePlanGap'
    BY DEF ResultBelongs
  <2>1. CASE Registers(r, "result")
    BY <1>5, <2>1
  <2>2. CASE ~Registers(r, "result")
    <3>1. disk["result"] # Absent /\ disk'["result"].source = disk["result"].source
      BY <1>2, <2>2 DEF Cleans, Finishes
    <3>2. CASE Registers(r, "plan")
      BY <1>6, <3>1, <3>2
    <3>3. CASE ~Registers(r, "plan")
      <4>1. disk'["plan"].by = disk["plan"].by /\ disk'["plan"].source = disk["plan"].source
        BY <1>4, <3>3
      <4>2. CASE StalePlanGap
        BY <4>1, <4>2, GapStays
      <4>3. CASE ~StalePlanGap
        BY <3>1, <4>1, <4>3 DEF Together, ResultBelongs
      <4> QED
        BY <4>2, <4>3
    <3> QED
      BY <3>2, <3>3
  <2> QED
    BY <2>1, <2>2
<1> QED
  BY <1>7, <1>8

LEMMA StartKeepsTogether ==
  ASSUME Base, study \in Registered, Together, NEW r \in Runs, Starts(r)
  PROVE  Together'
<1>1. /\ study' = study /\ disk' = disk
      /\ run[r].state = "waiting" /\ run'[r].state = "alive" /\ run'[r].at = 1
  BY StartsMeans
<1>2. \A q \in Runs \ {r} : /\ run'[q].state = run[q].state /\ run'[q].at = run[q].at
                            /\ run'[q].mode = run[q].mode /\ run'[q].source = run[q].source
  BY StartsMeans
<1>3. \A mode : PlanAt(study, mode) \in {2, 3, 4}
  BY DEF PlanAt
<1>4. PlanIsOurs'
  <2> SUFFICES ASSUME NEW q \in Runs, Alive(q)', run'[q].at > PlanAt(study, run'[q].mode)
               PROVE  disk["plan"].by = {q} /\ disk["plan"].source = run'[q].source
    BY <1>1 DEF PlanIsOurs, PlanAt
  <2>1. q # r
    BY <1>1, <1>3
  <2> QED
    BY <1>2, <2>1 DEF Together, PlanIsOurs, Alive
<1>5. PlanComesFirst' /\ SummaryBelongs'
  BY <1>1 DEF Together, PlanComesFirst, SummaryBelongs
<1>6. StaleIsGone'
  BY <1>1, <1>2 DEF Together, StaleIsGone, Alive
<1>7. ResultBelongs'
  <2>1. StalePlanGap => StalePlanGap'
    <3> SUFFICES ASSUME StalePlanGap PROVE StalePlanGap'
      OBVIOUS
    <3>1. PICK q \in Runs : /\ run[q].mode = "overwrite" /\ run[q].state \in {"alive", "died"}
                           /\ Step(q).do = "unlink" /\ disk["plan"].by = {q}
      BY DEF StalePlanGap
    <3>2. q # r
      BY <1>1, <3>1
    <3>3. Step(q)' = Step(q)
      BY <1>1, <1>2, <3>2 DEF Step, Steps
    <3> QED
      BY <1>1, <1>2, <3>1, <3>2, <3>3 DEF StalePlanGap
  <2> QED
    BY <1>1, <2>1 DEF Together, ResultBelongs
<1> QED
  BY <1>4, <1>5, <1>6, <1>7 DEF Together

(* A run that was not alone stays so.                                        *)
LEMMA OverlapIsRemembered ==
  ASSUME Base, [Next]_vars, OneByOne'
  PROVE  OneByOne
<1>1. CASE Edit \/ Commit \/ Collect \/ UNCHANGED vars
  BY <1>1, OthersKeepBase DEF OneByOne
<1>2. CASE \E r \in Runs : RunStep(r)
  <2>1. PICK r \in Runs : RunStep(r)
    BY <1>2
  <2>2. CASE Acts(r)
    BY <2>2 DEF Acts, Goes, OneByOne
  <2>3. CASE Starts(r)
    <3>1. run[r].mode = "once"
      BY <2>3, StartsMeans DEF Base, Fresh
    <3>2. \A q \in Runs \ {r} : run'[q].mode = run[q].mode /\ (run'[q].alone => run[q].alone)
      BY <2>3, StartsMeans
    <3> QED
      BY <3>1, <3>2 DEF OneByOne
  <2> QED
    BY <2>1, <2>2, <2>3, RunActs DEF Base
<1> QED
  BY <1>1, <1>2 DEF Next

LEMMA NextKeepsTogether ==
  ASSUME Base, study \in Registered, OneByOne, Together, [Next]_vars
  PROVE  Together'
<1>1. CASE Edit \/ Commit \/ Collect \/ UNCHANGED vars
  BY <1>1, OthersKeepBase DEF Together, PlanIsOurs, PlanComesFirst, StaleIsGone, ResultBelongs,
     SummaryBelongs, StalePlanGap, Alive, Step, Steps
<1>2. CASE \E r \in Runs : RunStep(r)
  <2>1. PICK r \in Runs : RunStep(r)
    BY <1>2
  <2>2. CASE Acts(r)
    BY <2>1, <2>2, ActsKeepsPlan, ActsKeepsStale, ActsKeepsResult DEF Together
  <2>3. CASE Starts(r)
    BY <2>3, StartKeepsTogether
  <2> QED
    BY <2>1, <2>2, <2>3, RunActs DEF Base
<1> QED
  BY <1>1, <1>2 DEF Next

(* Runs that overwrite one after the other leave no evidence beside a plan   *)
(* of another source, but for the gap of the development screen.             *)
THEOREM EvidenceStaysTogether == Spec => []EvidenceBelongsTogether
<1> DEFINE I == Base /\ (study \in Registered /\ OneByOne => Together)
<1>1. Init => I
  <2> SUFFICES ASSUME Init PROVE I
    OBVIOUS
  <2>1. Base
    BY InitBase
  <2>2. Together
    BY DEF Init, Together, PlanIsOurs, PlanComesFirst, StaleIsGone, ResultBelongs, SummaryBelongs,
           Waiting, Alive, Files
  <2> QED
    BY <2>1, <2>2
<1>2. I /\ [Next]_vars => I'
  BY NextKeepsBase, StudyStays, OverlapIsRemembered, NextKeepsTogether
<1>3. I => EvidenceBelongsTogether
  BY DEF Together, ResultBelongs, SummaryBelongs, Registered, OneByOne, EvidenceBelongsTogether
<1> HIDE DEF I
<1> QED
  BY <1>1, <1>2, <1>3, PTL DEF Spec

--------------------------------------------------------------------------------
(* A backup that succeeds.  From the moment a run has reserved its file the  *)
(* file is its own: every other attempt needs it to be absent, and only the  *)
(* run that reserved it copies into it or takes it away.                     *)

Backed ==
  \A r \in Runs : run[r].state \in {"alive", "ended"} =>
    LET mine == disk[FileOf(run[r].mode)]
        reserve == ReserveAt(run[r].mode)
    IN  /\ run[r].at > reserve => mine.by = {r}
        /\ run[r].at > reserve + 1 => mine.whole
        /\ run[r].at > reserve + 2 => mine.mark = run[r].mark
        /\ run[r].state = "ended" => run[r].at > reserve + 2

LEMMA BackupStep ==
  ASSUME Base, study = "forward_backup", NEW r \in Runs, Alive(r)
  PROVE  /\ BackingUp(Step(r), run[r].at, run[r].mode)
         /\ run[r].at \in Nat /\ run[r].mode \in {"once", "drill"}
         /\ ReserveAt(run[r].mode) \in {2, 3}
         /\ Len(Steps(r)) \in Nat /\ Len(Steps(r)) >= ReserveAt(run[r].mode) + 2
<1>1. run[r].mode \in {"once", "drill"}
  BY DEF Base, Sited, Modes, Screens
<1>2. /\ run[r].at \in 1 .. Len(Programs["forward_backup"][run[r].mode])
      /\ Steps(r) = Programs["forward_backup"][run[r].mode]
  BY DEF Base, Sited, Steps
<1>3. Sized(Steps(r))
  BY ProgramsAreSized DEF Base, Typed, Sited, Steps
<1> QED
  BY <1>1, <1>2, <1>3, BackupSteps DEF Step, Base, Typed, RunRecord, ReserveAt, Sized

(* What a step does to a file of the backup.                                 *)
LEMMA BackupFiles ==
  ASSUME Base, study = "forward_backup", Backed, NEW r \in Runs, Acts(r), NEW f \in Files
  PROVE  \/ disk'[f] = disk[f]
         \/ /\ disk[f] = Absent /\ disk'[f].by = {r} /\ run[r].at = ReserveAt(run[r].mode)
         \/ /\ f = FileOf(run[r].mode) /\ disk[f].by = {r} /\ disk'[f].by = {r} /\ disk'[f].whole
            /\ run[r].at = ReserveAt(run[r].mode) + 1 /\ Passes(r)
         \/ /\ f = FileOf(run[r].mode) /\ disk[f].by = {r} /\ Stops(r)
<1>1. /\ Alive(r) /\ (disk'[f] = disk[f] \/ Touched(r, f)) /\ disk[f] \in FileRecord
  BY DEF Acts, Goes, Base, Typed
<1>2. /\ BackingUp(Step(r), run[r].at, run[r].mode)
      /\ run[r].at \in Nat /\ ReserveAt(run[r].mode) \in {2, 3}
  BY <1>1, BackupStep
<1>3. Touched(r, f) => Reserved(r, f) \/ Copied(r, f) \/ Discarded(r, f)
  BY <1>2 DEF Touched, BackingUp, Made, Put, Removed, Emptied, Completed, Moved
<1>4. run[r].at > ReserveAt(run[r].mode) => disk[FileOf(run[r].mode)].by = {r}
  BY <1>1 DEF Backed, Alive
<1>5. CASE Reserved(r, f)
  <2>1. run[r].at = ReserveAt(run[r].mode) /\ disk'[f].by = {r}
    BY <1>2, <1>5 DEF Reserved, BackingUp, Absent
  <2> QED
    BY <1>5, <2>1 DEF Reserved
<1>6. CASE Copied(r, f)
  <2>1. run[r].at = ReserveAt(run[r].mode) + 1 /\ f \in Step(r).files /\ Passes(r)
    BY <1>2, <1>6 DEF Copied, BackingUp
  <2>2. f = FileOf(run[r].mode)
    BY <1>2, <2>1 DEF BackingUp
  <2>3. disk[f].by = {r}
    BY <1>2, <1>4, <2>1, <2>2
  <2>4. disk'[f].by = disk[f].by /\ disk'[f].whole
    BY <1>1, <1>6 DEF Copied, FileRecord
  <2> QED
    BY <2>1, <2>2, <2>3, <2>4
<1>7. CASE Discarded(r, f)
  <2>1. run[r].at > ReserveAt(run[r].mode) /\ f \in Step(r).files /\ Stops(r)
    BY <1>2, <1>7 DEF Discarded, BackingUp
  <2>2. f = FileOf(run[r].mode)
    BY <1>2, <2>1 DEF BackingUp
  <2> QED
    BY <1>4, <2>1, <2>2
<1> QED
  BY <1>1, <1>3, <1>5, <1>6, <1>7

LEMMA FileOfIsFile == \A mode : FileOf(mode) \in Files /\ ReserveAt(mode) \in {2, 3}
  BY DEF FileOf, Files, ReserveAt

LEMMA ActsKeepsBacked ==
  ASSUME Base, study = "forward_backup", Backed, NEW r \in Runs, Acts(r)
  PROVE  Backed'
<1>1. /\ Goes(r) /\ study' = study
      /\ Passes(r) => Achieves(r)
  BY DEF Acts
<1> DEFINE reserve == ReserveAt(run[r].mode)
           mine == FileOf(run[r].mode)
<1>2. /\ BackingUp(Step(r), run[r].at, run[r].mode)
      /\ run[r].at \in Nat /\ reserve \in {2, 3}
      /\ Len(Steps(r)) >= reserve + 2 /\ Len(Steps(r)) \in Nat
  BY <1>1, BackupStep DEF Goes
<1>3. /\ run[r].at > reserve => disk[mine].by = {r}
      /\ run[r].at > reserve + 1 => disk[mine].whole
      /\ run[r].at > reserve + 2 => disk[mine].mark = run[r].mark
  BY <1>1 DEF Backed, Goes, Alive
<1>4. Absent.by = {}
  BY DEF Absent
(* What belongs to another run is out of reach.                              *)
<1>5. ASSUME NEW q \in Runs \ {r}, NEW f \in Files, disk[f].by = {q}
      PROVE  disk'[f] = disk[f]
  BY <1>4, <1>5, BackupFiles
<1>6. ASSUME Passes(r), run[r].at >= reserve
      PROVE  /\ disk'[mine].by = {r}
             /\ run[r].at > reserve => disk'[mine].whole
             /\ run[r].at > reserve + 1 => disk'[mine].mark = run'[r].mark
  <2>1. mine \in Files /\ Step(r).files = {mine} /\ ~Stops(r)
    BY <1>2, <1>6, FileOfIsFile DEF BackingUp, Stops, Passes
  <2>2. CASE run[r].at = reserve
    <3>1. Step(r).do = "reserve"
      BY <1>2, <2>2 DEF BackingUp
    <3>2. \E f \in Step(r).files : Reserved(r, f)
      BY <1>1, <1>6, <3>1 DEF Achieves
    <3>3. Reserved(r, mine)
      BY <2>1, <3>2
    <3>4. disk'[mine].by = {r}
      BY <3>3 DEF Reserved, Absent
    <3> QED
      BY <1>2, <2>2, <3>4
  <2>3. CASE run[r].at = reserve + 1
    <3>1. Step(r).do = "copy"
      BY <1>2, <2>3 DEF BackingUp
    <3>2. \E f \in Step(r).files : Copied(r, f)
      BY <1>1, <1>6, <3>1 DEF Achieves
    <3>3. Copied(r, mine)
      BY <2>1, <3>2
    <3>4. disk[mine] \in FileRecord /\ disk[mine].by = {r}
      BY <1>2, <1>3, <2>1, <2>3 DEF Base, Typed
    <3>5. disk'[mine].by = {r} /\ disk'[mine].whole
      BY <3>3, <3>4 DEF Copied, FileRecord
    <3> QED
      BY <1>2, <2>3, <3>5
  <2>4. CASE run[r].at > reserve + 1
    <3>1. disk'[mine] = disk[mine]
      BY <1>2, <1>4, <2>1, <2>4, <1>3, BackupFiles
    <3>2. run'[r].mark = run[r].mark
      BY <1>2, <1>6, <2>4 DEF Passes, BackingUp
    <3>3. disk[mine].mark = run[r].mark
      <4>1. CASE run[r].at = reserve + 2
        <5>1. Step(r).do = "compare"
          BY <1>2, <4>1 DEF BackingUp
        <5>2. \E f \in Step(r).files : disk[f].mark = run[r].mark
          BY <1>1, <1>6, <5>1 DEF Achieves
        <5> QED
          BY <2>1, <5>2
      <4>2. CASE run[r].at > reserve + 2
        BY <1>3, <4>2
      <4> QED
        BY <1>2, <2>4, <4>1, <4>2
    <3> QED
      BY <1>2, <1>3, <2>4, <3>1, <3>2, <3>3
  <2> QED
    BY <1>2, <1>6, <2>2, <2>3, <2>4
<1>7. ASSUME NEW q \in Runs, run'[q].state \in {"alive", "ended"}
      PROVE  LET f == FileOf(run'[q].mode)
                 n == ReserveAt(run'[q].mode)
             IN  /\ run'[q].at > n => disk'[f].by = {q}
                 /\ run'[q].at > n + 1 => disk'[f].whole
                 /\ run'[q].at > n + 2 => disk'[f].mark = run'[q].mark
                 /\ run'[q].state = "ended" => run'[q].at > n + 2
  <2>1. CASE q # r
    <3>1. run'[q] = run[q] /\ run[q] \in RunRecord
      BY <1>1, <2>1 DEF Goes, Base, Typed
    <3> DEFINE f == FileOf(run[q].mode)
               n == ReserveAt(run[q].mode)
    <3>2. f \in Files /\ n \in {2, 3} /\ run[q].at \in Nat
      BY <3>1, FileOfIsFile DEF RunRecord
    <3>3. /\ run[q].at > n => disk[f].by = {q}
          /\ run[q].at > n + 1 => disk[f].whole
          /\ run[q].at > n + 2 => disk[f].mark = run[q].mark
          /\ run[q].state = "ended" => run[q].at > n + 2
      BY <1>7, <3>1 DEF Backed
    <3>4. run[q].at > n => disk'[f] = disk[f]
      BY <1>5, <2>1, <3>2, <3>3
    <3> HIDE DEF f, n
    <3>5. /\ run[q].at > n => disk'[f].by = {q}
          /\ run[q].at > n + 1 => disk'[f].whole
          /\ run[q].at > n + 2 => disk'[f].mark = run[q].mark
          /\ run[q].state = "ended" => run[q].at > n + 2
      BY <3>2, <3>3, <3>4
    <3> QED
      BY <3>1, <3>5 DEF f, n
  <2>2. CASE q = r
    <3>1. Passes(r) /\ run'[r].mode = run[r].mode /\ run'[r].at = run[r].at + 1
      BY <1>1, <1>7, <2>2 DEF Goes, Stops, Passes
    <3>2. run'[r].state = "ended" => run[r].at = Len(Steps(r))
      BY <3>1 DEF Passes
    <3>3. /\ run[r].at >= reserve => disk'[mine].by = {r}
          /\ run[r].at > reserve => disk'[mine].whole
          /\ run[r].at > reserve + 1 => disk'[mine].mark = run'[r].mark
      BY <1>2, <1>6, <3>1
    <3> HIDE DEF reserve, mine
    <3>4. /\ run'[r].at > reserve => disk'[mine].by = {r}
          /\ run'[r].at > reserve + 1 => disk'[mine].whole
          /\ run'[r].at > reserve + 2 => disk'[mine].mark = run'[r].mark
          /\ run'[r].state = "ended" => run'[r].at > reserve + 2
      BY <1>2, <3>1, <3>2, <3>3
    <3> QED
      BY <2>2, <3>1, <3>4 DEF reserve, mine
  <2> QED
    BY <2>1, <2>2
<1> QED
  BY <1>7 DEF Backed

LEMMA NextKeepsBacked ==
  ASSUME Base, study = "forward_backup", Backed, [Next]_vars
  PROVE  Backed'
<1>1. CASE Edit \/ Commit \/ Collect \/ UNCHANGED vars
  BY <1>1, OthersKeepBase DEF Backed
<1>2. CASE \E r \in Runs : RunStep(r)
  <2>1. PICK r \in Runs : RunStep(r)
    BY <1>2
  <2>2. CASE Acts(r)
    BY <2>2, ActsKeepsBacked
  <2>3. CASE Starts(r)
    <3>1. run'[r].at = 1 /\ run'[r].state = "alive" /\ disk' = disk
      BY <2>3, StartsMeans
    <3>2. \A q \in Runs \ {r} : /\ run'[q].state = run[q].state /\ run'[q].at = run[q].at
                                /\ run'[q].mode = run[q].mode /\ run'[q].mark = run[q].mark
      BY <2>3, StartsMeans
    <3>3. ReserveAt(run'[r].mode) \in {2, 3}
      BY FileOfIsFile
    <3> QED
      BY <3>1, <3>2, <3>3 DEF Backed
  <2> QED
    BY <2>1, <2>2, <2>3, RunActs DEF Base
<1> QED
  BY <1>1, <1>2 DEF Next

(* A backup or a drill that reports success has left the ledger it reports.  *)
THEOREM BackupIsComplete == Spec => []BackupIsTheLedger
<1> DEFINE I == Base /\ (study = "forward_backup" => Backed)
<1>1. Init => I
  <2> SUFFICES ASSUME Init PROVE I
    OBVIOUS
  <2>1. Base
    BY InitBase
  <2>2. Backed
    BY DEF Init, Backed, Waiting
  <2> QED
    BY <2>1, <2>2
<1>2. I /\ [Next]_vars => I'
  BY NextKeepsBase, StudyStays, NextKeepsBacked
<1>3. I => BackupIsTheLedger
  <2> SUFFICES ASSUME I, study = "forward_backup", NEW r \in Runs, run[r].state = "ended"
               PROVE  LET f == disk[IF run[r].mode = "drill" THEN "recovered" ELSE "result"]
                      IN  f.by = {r} /\ f.whole /\ f.mark = run[r].mark
    BY DEF BackupIsTheLedger
  <2>1. run[r].at \in Nat /\ ReserveAt(run[r].mode) \in {2, 3}
    BY FileOfIsFile DEF Base, Typed, RunRecord
  <2>2. run[r].at > ReserveAt(run[r].mode) + 2
    BY DEF Backed
  <2>3. run[r].at > ReserveAt(run[r].mode) /\ run[r].at > ReserveAt(run[r].mode) + 1
    BY <2>1, <2>2
  <2> QED
    BY <2>2, <2>3 DEF Backed, FileOf
<1> HIDE DEF I
<1> QED
  BY <1>1, <1>2, <1>3, PTL DEF Spec

--------------------------------------------------------------------------------
(* A result that is there is complete.  A link publishes all of its bytes at *)
(* once; the studies that go through a temporary file of a fixed name are    *)
(* safe as long as the file they rename is their own, or belongs to a run    *)
(* that was not alone.                                                       *)

Temporary == {"factor_study", "market_anatomy", "frozen_validation"}

(* Files of a run that overlapped with another.                              *)
Shared(f) == \E q \in Runs : disk[f].by = {q} /\ ~run[q].alone

Renamable ==
  /\ \A r \in Runs : Alive(r) /\ run[r].at > 4 /\ disk["tmp"] # Absent =>
       disk["tmp"].by = {r} \/ Shared("tmp")
  /\ \A r \in Runs : Alive(r) /\ run[r].at > 5 /\ disk["tmp"].by = {r} => disk["tmp"].whole
  /\ disk["result"] # Absent /\ ~disk["result"].whole => Shared("result")

Complete == disk["result"] # Absent => disk["result"].whole

LEMMA TemporaryStep ==
  ASSUME Base, study \in Temporary, NEW r \in Runs, Alive(r)
  PROVE  /\ Renaming(Step(r), run[r].at) /\ run[r].at \in Nat
         /\ run[r].at = 6 => run[r].at = Len(Steps(r))
         /\ study # "frozen_validation" /\ run[r].at = 3 => Step(r).do = "absent" /\ Step(r).files = {"result"}
<1>1. run[r].mode = "once"
  BY DEF Base, Sited, Modes, Temporary, Screens
<1>2. Steps(r) = IF study = "frozen_validation" THEN FrozenValidation ELSE FactorStudy
  BY <1>1, ProgramsAre DEF Steps, Temporary
<1>3. run[r].at \in 1 .. Len(Steps(r)) /\ run[r].at \in Nat /\ Len(Steps(r)) \in Nat \ {0}
  BY ProgramsAreSized DEF Base, Typed, Sited, RunRecord, Steps, Sized
<1> DEFINE n == Len(Steps(r))
<1>4. n <= 6
  <2>1. n \in 1 .. n
    BY <1>3
  <2> QED
    BY <1>2, <2>1, ReplacingSteps
<1>5. run[r].at = 6 => run[r].at = n
  <2> DEFINE i == run[r].at
  <2>1. i \in 1 .. n /\ i \in Nat /\ n \in Nat
    BY <1>3
  <2> HIDE DEF n, i
  <2>2. i = 6 => i = n
    BY <1>4, <2>1
  <2> QED
    BY <2>2 DEF n, i
<1> QED
  BY <1>2, <1>3, <1>5, ReplacingSteps DEF Step

LEMMA PreflightStep ==
  ASSUME Base, study = "data_preflight", NEW r \in Runs, Alive(r)
  PROVE  /\ Step(r).do \in {"absent", "capture", "open", "replace"} /\ run[r].at \in Nat
         /\ Step(r).do = "replace" <=> run[r].at = 4
         /\ run[r].at = 1 => Step(r).do = "absent" /\ Step(r).files = {"result"}
         /\ run[r].at = 4 => Step(r).files = {"result"} /\ run[r].at = Len(Steps(r))
<1>1. Steps(r) = DataPreflight
  BY ProgramsAre DEF Base, Sited, Modes, Screens, Steps
<1>2. run[r].at \in 1 .. Len(DataPreflight) /\ run[r].at \in Nat /\ Len(DataPreflight) = 4
  BY <1>1 DEF Base, Typed, Sited, RunRecord, DataPreflight
<1> QED
  BY <1>1, <1>2, ReplacingSteps DEF Step

LEMMA LinkingStep ==
  ASSUME Base, study \in Linking, NEW r \in Runs, Alive(r)
  PROVE  Links(Step(r), run[r].mode = "overwrite")
  BY LinkingLinks DEF Base, Sited, Step, Steps

(* What becomes of the result and the attempt of a study that links, ...     *)
LEMMA LinkingFiles ==
  ASSUME Base, study \in Linking, NEW r \in Runs, Acts(r), NEW f \in {"attempt", "result"}
  PROVE  \/ disk'[f] = disk[f]
         \/ disk[f] = Absent /\ disk'[f].whole
         \/ disk'[f] = Absent /\ run[r].mode = "overwrite"
<1>1. Alive(r) /\ f \in Files /\ (disk'[f] = disk[f] \/ Touched(r, f))
  BY DEF Acts, Goes, Files
<1>2. Links(Step(r), run[r].mode = "overwrite")
  BY <1>1, LinkingStep
<1>3. Touched(r, f) => Made(r, f) \/ Removed(r, f)
  BY <1>2 DEF Touched, Links, Reserved, Put, Emptied, Completed, Moved, Copied, Discarded
<1>4. Made(r, f) => disk[f] = Absent /\ disk'[f].whole
  BY <1>2 DEF Made, Links, Bytes
<1>5. Removed(r, f) => disk'[f] = Absent /\ run[r].mode = "overwrite"
  BY <1>2 DEF Removed, Links
<1> QED
  BY <1>1, <1>3, <1>4, <1>5

(* ... of the preflight, which replaces, ...                                 *)
LEMMA PreflightFiles ==
  ASSUME Base, study = "data_preflight", NEW r \in Runs, Acts(r), NEW f \in {"attempt", "result"}
  PROVE  \/ disk'[f] = disk[f]
         \/ f = "result" /\ run[r].at = 4 /\ disk'[f].whole /\ Passes(r)
<1>1. Alive(r) /\ f \in Files /\ (disk'[f] = disk[f] \/ Touched(r, f))
  BY DEF Acts, Goes, Files
<1>2. /\ Step(r).do \in {"absent", "capture", "open", "replace"}
      /\ Step(r).do = "replace" <=> run[r].at = 4
      /\ run[r].at = 4 => Step(r).files = {"result"}
  BY <1>1, PreflightStep
<1>3. Touched(r, f) => Put(r, f)
  BY <1>2 DEF Touched, Made, Removed, Reserved, Emptied, Completed, Moved, Copied, Discarded
<1>4. Put(r, f) => f = "result" /\ run[r].at = 4 /\ disk'[f].whole /\ Passes(r)
  BY <1>2 DEF Put, Bytes
<1> QED
  BY <1>1, <1>3, <1>4

(* ... and of the studies that rename.                                       *)
LEMMA TemporaryFiles ==
  ASSUME Base, study \in Temporary, NEW r \in Runs, Acts(r), NEW f \in {"attempt", "result", "tmp"}
  PROVE  \/ disk'[f] = disk[f]
         \/ /\ f = "tmp" /\ run[r].at = 4 /\ Passes(r) /\ disk'[f].by = {r}
         \/ /\ run[r].at = 5 /\ disk[f].by = {r} /\ Passes(r)
            /\ disk'[f].by = {r} /\ disk'[f].whole /\ disk'[f] = [disk[f] EXCEPT !.whole = TRUE]
         \/ /\ f = "result" /\ run[r].at = 6 /\ Passes(r) /\ disk["tmp"] # Absent /\ disk'[f] = disk["tmp"]
         \/ /\ f = "tmp" /\ run[r].at = 6 /\ Passes(r) /\ disk'[f] = Absent
<1>1. Alive(r) /\ f \in Files /\ (disk'[f] = disk[f] \/ Touched(r, f)) /\ disk[f] \in FileRecord
  BY DEF Acts, Goes, Files, Base, Typed
<1>2. Renaming(Step(r), run[r].at)
  BY <1>1, TemporaryStep
<1>3. Touched(r, f) => Emptied(r, f) \/ Completed(r, f) \/ Moved(r, f)
  BY <1>2 DEF Touched, Renaming, Made, Removed, Reserved, Put, Copied, Discarded
<1>4. Emptied(r, f) => f = "tmp" /\ run[r].at = 4 /\ Passes(r) /\ disk'[f].by = {r}
  BY <1>2 DEF Emptied, Renaming, Bytes
<1>5. CASE Completed(r, f)
  <2>1. disk'[f].by = {r} /\ disk'[f].whole
    BY <1>1, <1>5 DEF Completed, FileRecord
  <2> QED
    BY <1>2, <1>5, <2>1 DEF Completed, Renaming
<1>6. CASE Moved(r, f)
  BY <1>2, <1>6 DEF Moved, Renaming
<1> QED
  BY <1>1, <1>3, <1>4, <1>5, <1>6

LEMMA ActsKeepsRenamable ==
  ASSUME Base, study \in Temporary, Renamable, NEW r \in Runs, Acts(r)
  PROVE  Renamable'
<1>1. /\ Goes(r) /\ study' = study
      /\ Passes(r) => Achieves(r)
  BY DEF Acts
<1>2. /\ Renaming(Step(r), run[r].at) /\ run[r].at \in Nat
      /\ run[r].at = 6 => run[r].at = Len(Steps(r))
  BY <1>1, TemporaryStep DEF Goes
<1>3. \A q \in Runs : run'[q].alone = run[q].alone
  BY <1>1 DEF Goes
<1>4. Absent.by = {} /\ ~Absent.whole
  BY DEF Absent
<1>5. \/ disk'["tmp"] = disk["tmp"]
      \/ run[r].at = 4 /\ Passes(r) /\ disk'["tmp"].by = {r}
      \/ run[r].at = 5 /\ disk["tmp"].by = {r} /\ Passes(r) /\ disk'["tmp"].by = {r} /\ disk'["tmp"].whole
      \/ run[r].at = 6 /\ Passes(r) /\ disk'["tmp"] = Absent
  BY TemporaryFiles
<1>6. \/ disk'["result"] = disk["result"]
      \/ disk["result"].by = {r} /\ disk'["result"].whole
      \/ run[r].at = 6 /\ disk["tmp"] # Absent /\ disk'["result"] = disk["tmp"]
  BY TemporaryFiles
<1>7. ASSUME NEW q \in Runs, Alive(q)', run'[q].at > 4, disk'["tmp"] # Absent
      PROVE  disk'["tmp"].by = {q} \/ Shared("tmp")'
  <2>1. CASE q # r
    <3>1. run'[q] = run[q] /\ Alive(q) /\ Alive(r) /\ ~run[r].alone
      BY <1>1, <1>7, <2>1 DEF Goes, Alive, Base, Overlapping
    <3>2. CASE disk'["tmp"].by = {r}
      BY <1>3, <3>1, <3>2 DEF Shared
    <3>3. CASE disk'["tmp"] = disk["tmp"]
      BY <1>3, <1>7, <3>1, <3>3 DEF Renamable, Shared
    <3> QED
      BY <1>5, <1>7, <3>2, <3>3
  <2>2. CASE q = r
    <3>1. Passes(r) /\ run'[r].at = run[r].at + 1 /\ run[r].at # 6
      BY <1>1, <1>2, <1>7, <2>2 DEF Goes, Stops, Alive, Passes
    <3>2. CASE run[r].at = 4
      <4>1. Emptied(r, "tmp")
        BY <1>1, <1>2, <3>1, <3>2 DEF Achieves, Renaming
      <4> QED
        BY <2>2, <4>1 DEF Emptied, Bytes
    <3>3. CASE run[r].at > 4
      <4>1. disk'["tmp"].by = {r} \/ disk'["tmp"] = disk["tmp"]
        BY <1>5, <3>1, <3>3
      <4>2. CASE disk'["tmp"] = disk["tmp"]
        BY <1>1, <1>3, <1>7, <2>2, <3>3, <4>2 DEF Renamable, Shared, Goes
      <4> QED
        BY <2>2, <4>1, <4>2
    <3> QED
      BY <1>2, <1>7, <2>2, <3>1, <3>2, <3>3
  <2> QED
    BY <2>1, <2>2
<1>8. ASSUME NEW q \in Runs, Alive(q)', run'[q].at > 5, disk'["tmp"].by = {q}
      PROVE  disk'["tmp"].whole
  <2>1. CASE q # r
    <3>1. run'[q] = run[q] /\ Alive(q) /\ {q} # {r}
      BY <1>1, <1>8, <2>1 DEF Goes, Alive
    <3> QED
      BY <1>4, <1>5, <1>8, <3>1 DEF Renamable
  <2>2. CASE q = r
    <3>1. Passes(r) /\ run'[r].at = run[r].at + 1 /\ run[r].at # 6
      BY <1>1, <1>2, <1>8, <2>2 DEF Goes, Stops, Alive, Passes
    <3>2. CASE run[r].at = 5
      <4>1. Step(r).do = "fill" /\ "tmp" \in Files
        BY <1>2, <3>2 DEF Renaming, Files
      <4>2. disk["tmp"].by = {r} => disk'["tmp"].whole
        BY <1>1, <3>1, <4>1 DEF Achieves
      <4> QED
        BY <1>5, <1>8, <2>2, <3>2, <4>2
    <3>3. CASE run[r].at > 5
      <4>1. disk'["tmp"] = disk["tmp"]
        BY <1>5, <3>1, <3>3
      <4> QED
        BY <1>1, <1>2, <1>8, <2>2, <3>3, <4>1 DEF Renamable, Goes
    <3> QED
      BY <1>2, <1>8, <2>2, <3>1, <3>2, <3>3
  <2> QED
    BY <2>1, <2>2
<1>9. ASSUME disk'["result"] # Absent, ~disk'["result"].whole PROVE Shared("result")'
  <2>1. CASE disk'["result"] = disk["result"]
    BY <1>3, <1>9, <2>1 DEF Renamable, Shared
  <2>2. CASE run[r].at = 6 /\ disk["tmp"] # Absent /\ disk'["result"] = disk["tmp"]
    <3>1. disk["tmp"].by = {r} \/ Shared("tmp")
      BY <1>1, <2>2 DEF Renamable, Goes
    <3>2. disk["tmp"].by # {r}
      BY <1>1, <1>9, <2>2 DEF Renamable, Goes
    <3> QED
      BY <1>3, <2>2, <3>1, <3>2 DEF Shared
  <2> QED
    BY <1>6, <1>9, <2>1, <2>2
<1> QED
  BY <1>7, <1>8, <1>9 DEF Renamable

(* Whoever has left a file is not asked to start, so it does not become      *)
(* alone.                                                                    *)
LEMMA StartsKeepsShared ==
  ASSUME Base, NEW r \in Runs, Starts(r), NEW f \in Files, Shared(f)
  PROVE  Shared(f)'
<1>1. PICK q \in Runs : disk[f].by = {q} /\ ~run[q].alone
  BY DEF Shared
<1>2. disk' = disk /\ q # r
  BY <1>1, StartsMeans DEF Base, Fresh
<1>3. ~run'[q].alone
  BY <1>1, <1>2, StartsMeans
<1> QED
  BY <1>1, <1>2, <1>3 DEF Shared

LEMMA NextKeepsRenamable ==
  ASSUME Base, study \in Temporary, Renamable, [Next]_vars
  PROVE  Renamable'
<1>1. CASE Edit \/ Commit \/ Collect \/ UNCHANGED vars
  BY <1>1, OthersKeepBase DEF Renamable, Shared, Alive
<1>2. CASE \E r \in Runs : RunStep(r)
  <2>1. PICK r \in Runs : RunStep(r)
    BY <1>2
  <2>2. CASE Acts(r)
    BY <2>2, ActsKeepsRenamable
  <2>3. CASE Starts(r)
    <3>1. {"tmp", "result"} \subseteq Files
      BY DEF Files
    <3>2. disk' = disk /\ \A q \in Runs : Alive(q)' /\ run'[q].at > 4 => Alive(q) /\ run[q].at = run'[q].at
      BY <2>3, StartsMeans DEF Alive
    <3>3. \A q \in Runs : Alive(q)' /\ run'[q].at > 5 => Alive(q) /\ run[q].at = run'[q].at
      BY <2>3, StartsMeans DEF Alive
    <3>4. Shared("tmp") => Shared("tmp")'
      BY <2>3, <3>1, StartsKeepsShared
    <3>5. Shared("result") => Shared("result")'
      BY <2>3, <3>1, StartsKeepsShared
    <3> HIDE DEF Shared
    <3> QED
      BY <3>2, <3>3, <3>4, <3>5 DEF Renamable
  <2> QED
    BY <2>1, <2>2, <2>3, RunActs DEF Base
<1> QED
  BY <1>1, <1>2 DEF Next

LEMMA NextKeepsComplete ==
  ASSUME Base, study \in Linking \cup {"data_preflight"}, Complete, [Next]_vars
  PROVE  Complete'
<1>1. CASE Edit \/ Commit \/ Collect \/ UNCHANGED vars
  BY <1>1, OthersKeepBase DEF Complete
<1>2. CASE \E r \in Runs : RunStep(r)
  <2>1. PICK r \in Runs : RunStep(r)
    BY <1>2
  <2>2. CASE Acts(r)
    BY <2>2, LinkingFiles, PreflightFiles DEF Complete
  <2>3. CASE Starts(r)
    BY <2>3, StartsMeans DEF Complete
  <2> QED
    BY <2>1, <2>2, <2>3, RunActs DEF Base
<1> QED
  BY <1>1, <1>2 DEF Next

(* The studies by the way their result comes about.                          *)
LEMMA StudiesAre ==
  Studies = Linking \cup Temporary \cup {"data_preflight", "regime_retest", "forward_backup"}
  BY DEF Studies, Linking, Temporary, Replacing

Published ==
  /\ study \in Linking \cup {"data_preflight"} => Complete
  /\ study \in Temporary => Renamable

LEMMA InitPublished == Init => Published
  BY DEF Init, Published, Complete, Renamable, Waiting, Alive, Files

LEMMA NextKeepsPublished == ASSUME Base, Published, [Next]_vars PROVE Published'
  BY StudyStays, NextKeepsComplete, NextKeepsRenamable DEF Published

(* No reader finds half of a result, but where two runs shared a temporary   *)
(* file or the study creates its files in place.                             *)
THEOREM ResultsAreWhole == Spec => []ResultIsWhole
<1> DEFINE I == Base /\ Published
<1>1. Init => I
  BY InitBase, InitPublished
<1>2. I /\ [Next]_vars => I'
  BY NextKeepsBase, NextKeepsPublished
<1>3. I => ResultIsWhole
  BY StudiesAre DEF Base, Typed, Published, Complete, Renamable, Shared, ResultIsWhole, Temporary, Replacing
<1> HIDE DEF I
<1> QED
  BY <1>1, <1>2, <1>3, PTL DEF Spec

--------------------------------------------------------------------------------
(* What is published stays.  A link and an exclusive create need their file  *)
(* to be absent; the studies that replace have looked, so that what they     *)
(* replace came from a run that was there at the same time.                  *)

(* Where a study that replaces looks for its result.                         *)
LookAt == IF study = "data_preflight" THEN 1 ELSE 3
Looking == {"data_preflight", "factor_study", "market_anatomy"}

Looked ==
  \A r \in Runs : Alive(r) /\ run[r].at > LookAt /\ disk["result"] # Absent => ~run[r].alone

LEMMA LookingStep ==
  ASSUME Base, study \in Looking, NEW r \in Runs, Alive(r)
  PROVE  /\ run[r].at \in Nat /\ LookAt \in {1, 3}
         /\ run[r].at = LookAt => Step(r).do = "absent" /\ Step(r).files = {"result"}
  BY PreflightStep, TemporaryStep DEF Looking, Temporary, LookAt

(* A result appears where a run is about to end.                             *)
LEMMA LookingFiles ==
  ASSUME Base, study \in Looking, NEW r \in Runs, Acts(r)
  PROVE  \/ disk'["result"] = Absent <=> disk["result"] = Absent
         \/ run[r].at > LookAt /\ run'[r].state = "ended"
<1>1. Alive(r) /\ Absent.by = {}
  BY DEF Acts, Goes, Absent
<1>2. CASE study = "data_preflight"
  <2>1. run[r].at = 4 => run[r].at = Len(Steps(r))
    BY <1>1, <1>2, PreflightStep
  <2>2. CASE disk'["result"] = disk["result"]
    BY <2>2
  <2>3. CASE run[r].at = 4 /\ Passes(r)
    BY <1>2, <2>1, <2>3 DEF LookAt, Passes
  <2> QED
    BY <1>2, <2>2, <2>3, PreflightFiles
<1>3. CASE study # "data_preflight"
  <2>1. study \in Temporary
    BY <1>3 DEF Looking, Temporary
  <2>2. run[r].at = 6 => run[r].at = Len(Steps(r))
    BY <1>1, <2>1, TemporaryStep
  <2>3. CASE disk["result"].by = {r} /\ disk'["result"].by = {r}
    BY <1>1, <2>3
  <2>4. CASE run[r].at = 6 /\ Passes(r)
    BY <1>3, <2>2, <2>4 DEF LookAt, Passes
  <2> QED
    BY <2>1, <2>3, <2>4, TemporaryFiles
<1> QED
  BY <1>2, <1>3

LEMMA ActsKeepsLooked ==
  ASSUME Base, study \in Looking, Looked, NEW r \in Runs, Acts(r)
  PROVE  Looked'
<1>1. /\ Goes(r) /\ study' = study /\ LookAt' = LookAt
      /\ Passes(r) => Achieves(r)
  BY DEF Acts, LookAt
<1>2. /\ run[r].at \in Nat /\ LookAt \in {1, 3}
      /\ run[r].at = LookAt => Step(r).do = "absent" /\ Step(r).files = {"result"}
  BY <1>1, LookingStep DEF Goes
<1> SUFFICES ASSUME NEW q \in Runs, Alive(q)', run'[q].at > LookAt, disk'["result"] # Absent
             PROVE  ~run'[q].alone
  BY <1>1 DEF Looked
<1>3. CASE q # r
  BY <1>1, <1>3 DEF Goes, Alive, Base, Overlapping
<1>4. CASE q = r
  <2>1. Passes(r) /\ run'[r].state # "ended" /\ run'[r].alone = run[r].alone
    BY <1>1, <1>4 DEF Goes, Stops, Alive, Passes
  <2>2. disk["result"] # Absent
    BY <2>1, LookingFiles
  <2>3. run[r].at # LookAt
    BY <1>1, <1>2, <2>1, <2>2 DEF Achieves
  <2>4. run[r].at > LookAt
    BY <1>2, <1>4, <2>1, <2>3 DEF Passes
  <2> QED
    BY <1>1, <1>4, <2>1, <2>2, <2>4 DEF Looked, Goes
<1> QED
  BY <1>3, <1>4

LEMMA NextKeepsLooked ==
  ASSUME Base, study \in Looking, Looked, [Next]_vars
  PROVE  Looked'
<1>1. CASE Edit \/ Commit \/ Collect \/ UNCHANGED vars
  BY <1>1, OthersKeepBase DEF Looked, LookAt, Alive
<1>2. CASE \E r \in Runs : RunStep(r)
  <2>1. PICK r \in Runs : RunStep(r)
    BY <1>2
  <2>2. CASE Acts(r)
    BY <2>2, ActsKeepsLooked
  <2>3. CASE Starts(r)
    <3>1. disk' = disk /\ run'[r].at = 1 /\ LookAt' = LookAt /\ LookAt \in {1, 3}
      BY <2>3, StartsMeans DEF LookAt
    <3>2. \A q \in Runs \ {r} : /\ run'[q].state = run[q].state /\ run'[q].at = run[q].at
                                /\ run'[q].alone => run[q].alone
      BY <2>3, StartsMeans
    <3> QED
      BY <3>1, <3>2 DEF Looked, Alive
  <2> QED
    BY <2>1, <2>2, <2>3, RunActs DEF Base
<1> QED
  BY <1>1, <1>2 DEF Next

(* Who may replace or remove a published file.                               *)
Entitled(r, f) ==
  \/ run[r].mode = "overwrite"
  \/ study = "forward_backup" /\ disk[f].by = {r}
  \/ study = "frozen_validation"
  \/ study \in Replacing /\ ~run[r].alone

LEMMA RetestFiles ==
  ASSUME Base, study = "regime_retest", NEW r \in Runs, Acts(r), NEW f \in {"attempt", "result"}, disk[f].whole
  PROVE  disk'[f] = disk[f]
<1>1. Alive(r) /\ f \in Files /\ (disk'[f] = disk[f] \/ Touched(r, f)) /\ disk[f] \in FileRecord
  BY DEF Acts, Goes, Files, Base, Typed
<1>2. Steps(r) = RegimeRetest
  BY ProgramsAre DEF Base, Sited, Modes, Screens, Steps
<1>3. run[r].at \in 1 .. Len(RegimeRetest)
  BY <1>1, <1>2 DEF Base, Sited
<1>4. Step(r).do \in {"absent", "capture", "create", "fill", "confirm", "stable", "open"}
  BY <1>2, <1>3, RegimeSteps DEF Step
<1>5. Touched(r, f) => Made(r, f) \/ Completed(r, f)
  BY <1>4 DEF Touched, Reserved, Put, Removed, Emptied, Moved, Copied, Discarded
<1>6. ~Made(r, f)
  BY DEF Made, Absent
<1>7. Completed(r, f) => disk'[f] = disk[f]
  BY <1>1 DEF Completed, FileRecord
<1> QED
  BY <1>1, <1>5, <1>6, <1>7

LEMMA ActsOnPublished ==
  ASSUME Base, study = "forward_backup" => Backed, study \in Looking => Looked,
         NEW r \in Runs, Acts(r), NEW f \in {"attempt", "result"}, disk[f].whole, disk'[f] # disk[f]
  PROVE  run'[r] # run[r] /\ Entitled(r, f)
<1>1. Goes(r) /\ Alive(r) /\ f \in Files /\ disk[f] \in FileRecord /\ run[r].at \in Nat
  BY DEF Acts, Goes, Files, Base, Typed, RunRecord
<1>2. run'[r] # run[r]
  <2>1. run[r].at + 1 # run[r].at
    BY <1>1
  <2> QED
    BY <1>1, <2>1 DEF Goes, Passes, Stops, Alive
<1>3. disk[f] # Absent /\ Absent.by = {}
  BY DEF Absent
<1>4. study \in Linking => Entitled(r, f)
  BY <1>3, LinkingFiles DEF Entitled
<1>5. ASSUME study = "data_preflight" PROVE Entitled(r, f)
  <2>1. f = "result" /\ run[r].at = 4
    BY <1>5, PreflightFiles
  <2>2. ~run[r].alone
    BY <1>1, <1>3, <1>5, <2>1 DEF Looked, LookAt, Looking
  <2> QED
    BY <1>5, <2>2 DEF Entitled, Replacing
<1>6. ASSUME study \in Temporary PROVE Entitled(r, f)
  <2>1. disk'[f] # [disk[f] EXCEPT !.whole = TRUE]
    BY <1>1 DEF FileRecord
  <2>2. f = "result" /\ run[r].at = 6
    BY <1>6, <2>1, TemporaryFiles
  <2>3. study = "frozen_validation" \/ (study \in Looking /\ study # "data_preflight")
    BY <1>6 DEF Temporary, Looking
  <2>4. study # "frozen_validation" => ~run[r].alone
    BY <1>1, <1>3, <2>2, <2>3 DEF Looked, LookAt, Looking
  <2> QED
    BY <2>3, <2>4 DEF Entitled, Looking, Replacing
<1>7. study = "forward_backup" => Entitled(r, f)
  BY <1>1, <1>3, BackupFiles DEF Entitled
<1>8. study # "regime_retest"
  BY RetestFiles
<1> QED
  BY <1>2, <1>4, <1>5, <1>6, <1>7, <1>8, StudiesAre DEF Base, Typed

(* A complete attempt or result is replaced or removed only by those the     *)
(* code entitles to, and they are at work when it happens.                   *)
THEOREM WhatIsPublishedStays == Spec => PublishedIsFinal
<1> DEFINE I == Base /\ (study = "forward_backup" => Backed) /\ (study \in Looking => Looked)
           Final == \A f \in {"attempt", "result"} : disk[f].whole /\ disk'[f] # disk[f] =>
                      \E r \in Runs : /\ run'[r] # run[r]
                                     /\ \/ run[r].mode = "overwrite"
                                        \/ study = "forward_backup" /\ disk[f].by = {r}
                                        \/ study = "frozen_validation"
                                        \/ study \in Replacing /\ ~run[r].alone
<1>1. Init => I
  <2> SUFFICES ASSUME Init PROVE I
    OBVIOUS
  <2>1. Base
    BY InitBase
  <2>2. Backed /\ Looked
    BY DEF Init, Backed, Looked, Waiting, Alive
  <2> QED
    BY <2>1, <2>2
<1>2. I /\ [Next]_vars => I'
  BY NextKeepsBase, StudyStays, NextKeepsBacked, NextKeepsLooked
<1>3. I /\ [Next]_vars => [Final]_vars
  <2> SUFFICES ASSUME I, [Next]_vars PROVE Final
    OBVIOUS
  <2>1. CASE Edit \/ Commit \/ Collect \/ UNCHANGED vars
    BY <2>1, OthersKeepBase
  <2>2. CASE \E r \in Runs : RunStep(r)
    <3>1. PICK r \in Runs : RunStep(r)
      BY <2>2
    <3>2. CASE Acts(r)
      BY <3>2, ActsOnPublished DEF Entitled
    <3>3. CASE Starts(r)
      BY <3>3, StartsMeans
    <3> QED
      BY <3>1, <3>2, <3>3, RunActs DEF Base
  <2> QED
    BY <2>1, <2>2 DEF Next
<1> HIDE DEF I
<1> QED
  BY <1>1, <1>2, <1>3, PTL DEF Spec, PublishedIsFinal

================================================================================
