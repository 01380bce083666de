------------------------------- MODULE Promotion -------------------------------
(****************************************************************************)
(* promotion_v2.py: an experiment plan is declared before anything is        *)
(* chosen, sealed trial registries are captured, the winner of the final one *)
(* is frozen, a blind holdout is run for it, and everything is assembled     *)
(* into evidence and judged.  The registries are files: they are read again  *)
(* whenever they are relied on, and somebody may have replaced one by        *)
(* another, equally well-formed, sealed registry (TrialRegistry).  A check   *)
(* that raises leaves everything as it was.                                  *)
(*                                                                           *)
(* A registry's content is known by its number; a candidate freeze by what   *)
(* it binds; hashes are injective.  Time is in days, horizons in units.      *)
(****************************************************************************)
EXTENDS ResearchProtocol, Sequences, SequencesExt

CONSTANTS
  Plans,            \* bound: the plans that are tried
  Contents,         \* sealed registries, by number
  Paths,            \* files of the inner registries
  FinalFile,        \* the file of the final registry
  Month, Day,       \* days in a month, units in a day
  FinalInventory,   \* predeclared configurations, in order
  NestedInventory,
  Floor,            \* the least growth a candidate may have
  Freezings,        \* bound: days on which freezes are dated
  MaxTampers        \* bound: registries replaced

ASSUME FileAssumption == FinalFile \notin Paths
ASSUME UnitAssumption == Day \in Nat \ {0} /\ Month \in Nat \ {0} /\ MaxTampers \in Nat

(* Dates are integers; whether a plan makes sense is for PlanHolds to say.   *)
ASSUME PlansAreDated ==
  \A p \in Plans :
    /\ {p.origin, p.first, p.folds, p.train, p.test, p.purge,
        p.holding, p.label, p.latency} \subseteq Int
    /\ \A w \in {p.selection, p.nested, p.blind} : w.start \in Int /\ w.end \in Int

(* A sealed registry names one of its trials or none; growth is in units of  *)
(* the reported decimals.                                                    *)
ASSUME RegistriesAreSealed ==
  /\ DOMAIN Contents \subseteq Nat \ {0} /\ Floor \in Int
  /\ \A c \in DOMAIN Contents :
       LET trials == Contents[c].trials
       IN  /\ Len(trials) \in Nat /\ DOMAIN trials = 1 .. Len(trials)
           /\ Contents[c].chosen \in 0 .. Len(trials)
           /\ \A n \in DOMAIN trials : trials[n].growth \in Int /\ trials[n].ok \in BOOLEAN

VARIABLES
  plan,      \* the experiment plan
  declared,  \* whether it was accepted
  disk,      \* the registry files: the number of a content, 0 for none
  final,     \* the captured final registry
  inner,     \* the captured inner registries, by fold: file and content
  freeze,    \* the candidate freeze
  holdout,   \* the blind run
  evidence,  \* what was assembled
  report,    \* what was judged
  tampers

vars == <<plan, declared, disk, final, inner, freeze, holdout, evidence, report, tampers>>

None == [none |-> TRUE]

(* What the sealed registries hold, evaluated once.                         *)
Registry == [c \in DOMAIN Contents |-> Contents[c]]
Numbers == DOMAIN Registry

Files == Paths \cup {FinalFile}
Folds == 1 .. plan.folds

----------------------------------------------------------------------------
(* Dates.                                                                    *)

(* expected_boundaries: one origin, tests that follow each other, and a      *)
(* purge before each of them.                                                *)
Boundaries(p, k) ==
  LET test == p.first + (k - 1) * p.test
  IN  [trainStart |-> p.origin, trainEnd |-> test - p.purge,
       testStart |-> test, testEnd |-> test + p.test]

Horizon(p) == RoundUp(PurgeOf(p.holding, p.label, p.latency), Day) \div Day

(* NestedFoldProtocol and ExperimentPlan.                                    *)
FoldsFit(p) ==
  /\ {p.folds, p.train, p.test, p.purge} \subseteq Nat \ {0}
  /\ p.origin + p.train + p.purge <= p.first

(* Mutant: the purge need not cover the registered horizon.                  *)
PlanUnpurged(p) ==
  LET last == Boundaries(p, p.folds)
  IN  /\ FoldsFit(p)
      /\ ProtocolHolds({p.selection, p.nested, p.blind}, Unfrozen, Month)
      /\ p.selection.role = "selection" /\ p.nested.role = "robustness" /\ p.blind.role = "blind"
      /\ p.selection.end + p.purge <= p.nested.start
      /\ p.nested.start <= Boundaries(p, 1).trainStart /\ last.testEnd <= p.nested.end
      /\ last.testEnd + p.purge <= p.blind.start

PlanHolds(p) ==
  LET last == Boundaries(p, p.folds)
  IN  /\ FoldsFit(p)
      /\ ProtocolHolds({p.selection, p.nested, p.blind}, Unfrozen, Month)
      /\ p.selection.role = "selection" /\ p.nested.role = "robustness" /\ p.blind.role = "blind"
      /\ p.purge >= Horizon(p)
      /\ p.selection.end + p.purge <= p.nested.start
      /\ p.nested.start <= Boundaries(p, 1).trainStart /\ last.testEnd <= p.nested.end
      /\ last.testEnd + p.purge <= p.blind.start

(* The days the trials of a registry cover: those of the selection window,   *)
(* of a fold's training window, or of that and the purge after it.           *)
Covered(c) ==
  LET over == Registry[c].over
  IN  CASE over.is = "selection" -> [from |-> plan.selection.start, to |-> plan.selection.end]
        [] over.is = "training" ->
             [from |-> plan.origin, to |-> Boundaries(plan, over.fold).trainEnd]
        [] over.is = "purge" ->
             [from |-> plan.origin, to |-> Boundaries(plan, over.fold).testStart]

----------------------------------------------------------------------------
(* The registered trials.                                                    *)

TrialsOf(c) == Registry[c].trials
Chosen(c) == Registry[c].chosen
Configs(c) == [n \in DOMAIN TrialsOf(c) |-> TrialsOf(c)[n].config]
Complete(c) == TrialsOf(c) # <<>> /\ \A n \in DOMAIN TrialsOf(c) : TrialsOf(c)[n].ok
OneProvenance(c) == \A m, n \in DOMAIN TrialsOf(c) : TrialsOf(c)[m].data = TrialsOf(c)[n].data
DataOf(c) == TrialsOf(c)[Chosen(c)].data

Passing(c) == {n \in DOMAIN TrialsOf(c) : TrialsOf(c)[n].ok /\ TrialsOf(c)[n].growth >= Floor}

(* Mutant: the latest of the best trials.                                    *)
LatestSelected(c) ==
  IF Passing(c) = {} THEN 0
  ELSE CHOOSE n \in Passing(c) : \A m \in Passing(c) :
         \/ TrialsOf(c)[m].growth < TrialsOf(c)[n].growth
         \/ TrialsOf(c)[m].growth = TrialsOf(c)[n].growth /\ m <= n

(* _rule_selected_trial: the best, the earliest of them; 0 when none passes. *)
RuleSelected(c) ==
  IF Passing(c) = {} THEN 0
  ELSE CHOOSE n \in Passing(c) : \A m \in Passing(c) :
         \/ TrialsOf(c)[m].growth < TrialsOf(c)[n].growth
         \/ TrialsOf(c)[m].growth = TrialsOf(c)[n].growth /\ n <= m

----------------------------------------------------------------------------
Init ==
  /\ plan \in Plans
  /\ declared = "proposed"
  /\ disk = [f \in Files |-> 0]
  /\ final = 0
  /\ inner = [k \in 1 .. plan.folds |-> None]
  /\ freeze = None /\ holdout = None /\ evidence = None /\ report = None
  /\ tampers = 0

Declare ==
  /\ declared = "proposed"
  /\ declared' = IF PlanHolds(plan) THEN "declared" ELSE "refused"
  /\ UNCHANGED <<plan, disk, final, inner, freeze, holdout, evidence, report, tampers>>

(* TrialRegistry runs the trials of the plan and seals them with an outcome; *)
(* anything can become of it.  When each is sealed does not matter here.     *)
Suits(f, c) == (Registry[c].over.is = "selection") = (f = FinalFile)
Seal ==
  /\ declared = "declared" /\ disk[FinalFile] = 0
  /\ disk' \in {sealed \in [Files -> Numbers] : \A f \in Files : Suits(f, sealed[f])}
  /\ UNCHANGED <<plan, declared, final, inner, freeze, holdout, evidence, report, tampers>>

(* Somebody puts another sealed registry in its place.                       *)
Tamper(f, c) ==
  /\ tampers < MaxTampers /\ disk[f] \notin {0, c} /\ Suits(f, c)
  /\ disk' = [disk EXCEPT ![f] = c] /\ tampers' = tampers + 1
  /\ UNCHANGED <<plan, declared, final, inner, freeze, holdout, evidence, report>>

(* FrozenTrialRegistryEvidence.capture, and verify: the file still holds     *)
(* exactly what was captured.                                                *)
CaptureFinal ==
  /\ evidence = None /\ disk[FinalFile] \notin {0, final}
  /\ final' = disk[FinalFile]
  /\ UNCHANGED <<plan, declared, disk, inner, freeze, holdout, evidence, report, tampers>>
CaptureInner(files) ==
  /\ disk[FinalFile] # 0 /\ \A k \in Folds : inner[k] = None
  /\ inner' = [k \in Folds |-> [file |-> files[k], content |-> disk[files[k]]]]
  /\ UNCHANGED <<plan, declared, disk, final, freeze, holdout, evidence, report, tampers>>

FinalVerifies == final # 0 /\ disk[FinalFile] = final
InnerVerifies == \A k \in Folds : inner[k] # None /\ disk[inner[k].file] = inner[k].content

(* What a freeze demands of the final registry, whichever its outcome.       *)
Freezable(c) ==
  /\ Registry[c].binds /\ OneProvenance(c) /\ Configs(c) = FinalInventory
  /\ RuleSelected(c) = Chosen(c)
Frozen(outcome, at) ==
  [outcome |-> outcome, registry |-> final, trial |-> Chosen(final), at |-> at]

(* capture_selection and capture_reject_all, the second for a caller that    *)
(* names the provenance the trials have.                                     *)
CaptureSelection(at) ==
  /\ evidence = None /\ FinalVerifies /\ Chosen(final) # 0 /\ Freezable(final)
  /\ freeze' = Frozen("selection", at)
  /\ UNCHANGED <<plan, declared, disk, final, inner, holdout, evidence, report, tampers>>
CaptureRejectAll(at) ==
  /\ evidence = None /\ FinalVerifies /\ Chosen(final) = 0 /\ Freezable(final)
  /\ freeze' = Frozen("reject_all", at)
  /\ UNCHANGED <<plan, declared, disk, final, inner, holdout, evidence, report, tampers>>

(* Both scenarios are run for the frozen candidate over some days.           *)
RunHoldout(end) ==
  /\ evidence = None /\ freeze # None /\ freeze.outcome = "selection"
  /\ holdout' = [candidate |-> freeze, from |-> plan.blind.start, to |-> end]
  /\ UNCHANGED <<plan, declared, disk, final, inner, freeze, evidence, report, tampers>>

----------------------------------------------------------------------------
(* PromotionProtocolEvidence: the protocol is frozen with the candidate's    *)
(* own date and the holdout is authorised once it is over.                   *)
ProtocolEvident(authorized) ==
  /\ freeze.outcome = "selection"
  /\ ProtocolHolds({plan.selection, plan.nested, plan.blind}, freeze.at, Month)
  /\ Accessible(plan.selection, "select", freeze.at, authorized)
  /\ Accessible(plan.blind, "promote", freeze.at, authorized)

(* A claimed fold: its boundaries and the day its choice was frozen.         *)
Claims ==
  [bounds : {Boundaries(plan, k) : k \in Folds}
              \cup {[Boundaries(plan, 1) EXCEPT !.trainEnd = @ + plan.purge]},
   at : Freezings]
FoldEvident(claim) ==
  LET b == claim.bounds
  IN  /\ b.trainStart < b.trainEnd /\ b.trainEnd <= b.testStart /\ b.testStart < b.testEnd
      /\ b.trainEnd <= claim.at /\ claim.at < b.testStart

(* Mutant: the freeze binds the selected trial but not its registry.         *)
FinalUnbound ==
  /\ FinalVerifies /\ Chosen(final) # 0 /\ Complete(final)
  /\ Covered(final) = [from |-> plan.selection.start, to |-> plan.selection.end]
  /\ Configs(final) = FinalInventory /\ Registry[final].binds
  /\ RuleSelected(final) = Chosen(final)
  /\ freeze.trial = Chosen(final) /\ OneProvenance(final)

(* The final registry: complete, over the whole selection window, and the    *)
(* very one that was frozen.                                                 *)
FinalEvident ==
  /\ FinalVerifies /\ Chosen(final) # 0 /\ Complete(final)
  /\ Covered(final) = [from |-> plan.selection.start, to |-> plan.selection.end]
  /\ Configs(final) = FinalInventory /\ Registry[final].binds
  /\ RuleSelected(final) = Chosen(final)
  /\ freeze.registry = final /\ freeze.trial = Chosen(final) /\ OneProvenance(final)

(* The inner registries: one for each fold, each with its own data, chosen   *)
(* by the same rule ...                                                      *)
InnerEvident ==
  /\ InnerVerifies
  /\ \A k \in Folds :
       LET c == inner[k].content
       IN  /\ Chosen(c) # 0 /\ Complete(c) /\ Configs(c) = NestedInventory
           /\ RuleSelected(c) = Chosen(c) /\ OneProvenance(c) /\ Registry[c].binds
  /\ \A j, k \in Folds : j # k =>
       /\ inner[j].file # inner[k].file /\ inner[j].content # inner[k].content
       /\ DataOf(inner[j].content) # DataOf(inner[k].content)

(* ... on exactly the training window of its fold.                           *)
FoldsEvident(claims) ==
  \A k \in Folds :
    LET b == claims[k].bounds
    IN  /\ b = Boundaries(plan, k)
        /\ Covered(inner[k].content) = [from |-> b.trainStart, to |-> b.trainEnd]
        /\ b.trainEnd - b.trainStart >= plan.train
        /\ b.trainEnd + plan.purge = b.testStart

(* The holdout: the whole blind window, for the frozen candidate, after the  *)
(* last fold and its purge.                                                  *)
HoldoutEvident(claims) ==
  /\ holdout.candidate = freeze
  /\ holdout.from = plan.blind.start /\ holdout.to = plan.blind.end
  /\ plan.selection.end + plan.purge <= claims[1].bounds.testStart
  /\ claims[plan.folds].bounds.testEnd + plan.purge <= plan.blind.start

(* PromotionEvidenceV2.                                                      *)
Assemble(authorized) ==
  /\ evidence = None /\ freeze # None /\ holdout # None
  /\ InnerEvident /\ FinalEvident /\ ProtocolEvident(authorized)
  /\ \E claims \in [Folds -> {claim \in Claims : FoldEvident(claim)}] :
       /\ FoldsEvident(claims) /\ HoldoutEvident(claims)
       /\ evidence' = [claims |-> claims, authorized |-> authorized]
  /\ UNCHANGED <<plan, declared, disk, final, inner, freeze, holdout, report, tampers>>

(* evaluate_offline_to_shadow: every registry is read again; the report      *)
(* never names a target, two reasons against one being fixed.                *)
Evaluate ==
  /\ evidence # None /\ report = None
  /\ FinalVerifies /\ InnerVerifies
  /\ report' = [registry |-> final, candidate |-> freeze, target |-> "none"]
  /\ UNCHANGED <<plan, declared, disk, final, inner, freeze, holdout, evidence, tampers>>

Next ==
  \/ Declare
  \/ Seal
  \/ \E f \in Files, c \in Numbers : Tamper(f, c)
  \/ CaptureFinal
  \/ \E files \in [Folds -> Paths] : CaptureInner(files)
  \/ \E at \in Freezings : CaptureSelection(at) \/ CaptureRejectAll(at)
  \/ \E end \in {plan.blind.end - 1, plan.blind.end} : RunHoldout(end)
  \/ \E authorized \in {plan.blind.end - 1, plan.blind.end} : Assemble(authorized)
  \/ Evaluate

Spec == Init /\ [][Next]_vars

----------------------------------------------------------------------------
Overlap(from, to, start, end) == from < end /\ start < to

(* What a candidate is judged on is fresh: counting the days an outcome may  *)
(* still take, no day that served to choose it is a day of its test, none of *)
(* a fold's test is a day of the holdout, and every fold's choice is dated   *)
(* between the two (promotion_v2.py:309-327, 384-397, 1149-1185).            *)
JudgedDaysAreFresh ==
  evidence # None =>
    LET h == Horizon(plan)
        seen == Covered(final)
        Fresh(from, to, b) == ~ Overlap(from, to + h, b.testStart, b.testEnd)
    IN  /\ ~ Overlap(seen.from, seen.to + h, plan.blind.start, plan.blind.end)
        /\ \A k \in Folds :
             LET b == evidence.claims[k].bounds
                 days == Covered(inner[k].content)
             IN  /\ Fresh(seen.from, seen.to, b) /\ Fresh(days.from, days.to, b)
                 /\ ~ Overlap(b.testStart, b.testEnd + h, plan.blind.start, plan.blind.end)
                 /\ days.to <= evidence.claims[k].at /\ evidence.claims[k].at < b.testStart

(* Every choice the evidence rests on, a rejection of all included, is what  *)
(* the predeclared rule says of the complete predeclared inventory: nothing  *)
(* that was run did better, what did as well was registered later            *)
(* (promotion_v2.py:125-141).                                                *)
ByRule(c, inventory) ==
  /\ Configs(c) = inventory
  /\ IF Chosen(c) = 0 THEN \A n \in DOMAIN TrialsOf(c) : TrialsOf(c)[n].ok => TrialsOf(c)[n].growth < Floor
     ELSE LET t == TrialsOf(c)[Chosen(c)]
          IN  /\ t.ok /\ t.growth >= Floor
              /\ \A n \in DOMAIN TrialsOf(c) : TrialsOf(c)[n].ok =>
                   /\ TrialsOf(c)[n].growth <= t.growth
                   /\ n < Chosen(c) => TrialsOf(c)[n].growth < t.growth
ChoicesFollowTheRule ==
  /\ freeze # None => ByRule(freeze.registry, FinalInventory)
  /\ evidence # None => \A k \in Folds : ByRule(inner[k].content, NestedInventory)

(* The candidate that was frozen, the one the holdout was run for and the    *)
(* one the evidence's registry selects are one, frozen before the holdout    *)
(* began, however the registry changed between the captures                  *)
(* (promotion_v2.py:1068-1103, 1200-1206).                                   *)
OneCandidate ==
  evidence # None =>
    /\ freeze.registry = final /\ holdout.candidate.registry = final
    /\ holdout.candidate.trial = Chosen(final)
    /\ holdout.candidate.at < holdout.from /\ evidence.authorized >= holdout.to
=============================================================================
