--------------------------- MODULE ResearchProtocol ---------------------------
(****************************************************************************)
(* research_protocol.py: data windows with a fixed role, what each role may  *)
(* be used for, the purge that separates them, and the freeze that opens a   *)
(* blind window.  Everything here is a value; Campaign and Promotion are the *)
(* programs that use it.  Time is an integer; a date is a multiple of Day.   *)
(****************************************************************************)
EXTENDS Integers, FiniteSets

Roles == {"research", "selection", "robustness", "blind"}
Purposes == {"fit", "select", "diagnose", "promote"}

Window(role, start, end) == [role |-> role, start |-> start, end |-> end]

(* _ALLOWED_PURPOSES.                                                        *)
Allowed(role) ==
  CASE role = "research" -> {"fit", "diagnose"}
    [] role = "selection" -> {"select"}
    [] role = "robustness" -> {"diagnose"}
    [] role = "blind" -> {"promote"}

(* DataWindow: ordered boundaries on whole months.                           *)
WindowHolds(w, month) == w.start < w.end /\ w.start % month = 0 /\ w.end % month = 0

Disjoint(v, w) == v.end <= w.start \/ w.end <= v.start

(* Not frozen.                                                               *)
Unfrozen == -1

(* ResearchProtocol: windows that do not overlap, and a candidate frozen     *)
(* before every blind window starts.                                         *)
ProtocolHolds(windows, frozenAt, month) ==
  /\ windows # {}
  /\ \A w \in windows : WindowHolds(w, month)
  /\ \A v, w \in windows : v = w \/ Disjoint(v, w)
  /\ frozenAt = Unfrozen \/ \A w \in windows : w.role = "blind" => frozenAt < w.start

(* purge_ms: the longest outcome and the latency before it.                  *)
PurgeOf(holding, label, latency) == (IF holding >= label THEN holding ELSE label) + latency

RoundUp(t, unit) == ((t + unit - 1) \div unit) * unit

(* assert_access.                                                            *)
Accessible(w, purpose, frozenAt, authorizedAt) ==
  /\ purpose \in Allowed(w.role)
  /\ w.role = "blind" => frozenAt # Unfrozen /\ authorizedAt >= w.end
===============================================================================
