-------------------------------- MODULE Drift --------------------------------
(***************************************************************************)
(* UI diagnostics of one provider: the runs and what they found            *)
(* (safeDomDiagnostics.ts, providerDiagnosticsHistoryService.ts), the      *)
(* baseline a later run is compared with                                   *)
(* (providerDiagnosticsBaselineService.ts) and the drift alerts            *)
(* (providerDiagnosticsDriftAlertService.ts).  As with the incidents every *)
(* query is a step of its own and no two of them are in a transaction.     *)
(***************************************************************************)
EXTENDS Naturals, FiniteSets, FiniteSetsExt

CONSTANTS Evaluations, Setters,
          Kinds, Expected,  \* what diagnostics look for, and what has to be there
          MaxBaselines, MaxAlerts, MaxRuns, MaxUpsets

ASSUME DriftAssumption ==
    /\ Kinds # {} /\ IsFiniteSet(Kinds) /\ Expected \subseteq Kinds
    /\ MaxBaselines \in Nat \ {0} /\ MaxAlerts \in Nat \ {0}
    /\ MaxRuns \in Nat /\ MaxUpsets \in Nat

VARIABLES
    baseline,   \* the baselines in the order of createdAt
    setter,     \* a createBaselineFromRun: next await and the run
    alert,      \* the alerts
    evaluation, \* an evaluateAfterDiagnosticsRun: next await, baseline, score, alert
    runs, upsets,
    lastRun     \* history: the latest run compared with each baseline, or Disturbed

driftVars == <<baseline, setter, alert, evaluation, runs, upsets, lastRun>>

Baselines == 1..MaxBaselines
Alerts == 1..MaxAlerts

\* What a run may find: candidates of some kinds, some of them with confidence; a
\* kind's hint is one of two selectors.  A run that fails or meets a login finds
\* nothing and misses nothing.
Runs == {[ok |-> TRUE, detected |-> D, missing |-> Expected \ H, hint |-> V] :
            D \in SUBSET Kinds, H \in SUBSET Kinds, V \in SUBSET Kinds}
Found == {n \in Runs : Expected \ n.missing \subseteq n.detected /\ n.hint \subseteq n.detected}
NoFind == [ok |-> FALSE, detected |-> {}, missing |-> {}, hint |-> {}]
Disturbed == [ok |-> TRUE, detected |-> {}, missing |-> Kinds, hint |-> Kinds]

\* evaluateDrift: what was lost and what is missed weighs most, but a new capability
\* counts as well, and its hint once more.
ChangedHints(b, n) ==
    {k \in b.detected \cup n.detected :
        (k \in b.detected) # (k \in n.detected) \/ (k \in b.hint) # (k \in n.hint)}
DriftScore(b, n) ==
    Min({100, 25 * Cardinality(b.detected \ n.detected)
            + 30 * Cardinality(n.missing \ b.missing)
            + 10 * Cardinality(ChangedHints(b, n))
            + 5 * Cardinality(n.detected \ b.detected)
            + (IF b.ok # n.ok /\ ~n.ok THEN 30 ELSE 0)})
ShouldAlert(score) == score >= 25

Active == {b \in Baselines : baseline[b].active}
OpenAlerts(b) == {a \in Alerts : alert[a].state = "open" /\ alert[a].baseline = b}
Evaluating == {e \in Evaluations : evaluation[e].pc # "idle"}

NoSetter == [pc |-> "idle", run |-> NoFind]
NoEvaluation == [pc |-> "idle", baseline |-> 0, score |-> 0, alerts |-> {}]

DriftInit ==
    /\ baseline = [b \in Baselines |-> [made |-> FALSE, active |-> FALSE, run |-> NoFind]]
    /\ setter = [s \in Setters |-> NoSetter]
    /\ alert = [a \in Alerts |-> [state |-> "none", baseline |-> 0, score |-> 0]]
    /\ evaluation = [e \in Evaluations |-> NoEvaluation]
    /\ runs = 0 /\ upsets = 0
    /\ lastRun = [b \in Baselines |-> Disturbed]

Upset == upsets < MaxUpsets /\ upsets' = upsets + 1

-----------------------------------------------------------------------------
(* Baselines.                                                               *)

DeactivateOthers(s, n) ==
    /\ setter[s].pc = "idle" /\ runs < MaxRuns /\ runs' = runs + 1
    /\ setter' = [setter EXCEPT ![s] = [pc |-> "create", run |-> n]]
    /\ baseline' = [b \in Baselines |-> [baseline[b] EXCEPT !.active = FALSE]]
    /\ UNCHANGED <<alert, evaluation, upsets, lastRun>>

CreateBaseline(s) ==
    /\ setter[s].pc = "create"
    /\ \E b \in Baselines :
          /\ ~baseline[b].made /\ \A c \in 1..(b - 1) : baseline[c].made
          /\ baseline' = [baseline EXCEPT ![b] =
                 [made |-> TRUE, active |-> TRUE, run |-> setter[s].run]]
    /\ setter' = [setter EXCEPT ![s] = NoSetter]
    /\ UNCHANGED <<alert, evaluation, runs, upsets, lastRun>>

\* The user deactivates a baseline, or the creation is rejected: none is left.
Deactivate(b) ==
    /\ Upset
    /\ baseline[b].active
    /\ baseline' = [baseline EXCEPT ![b].active = FALSE]
    /\ UNCHANGED <<setter, alert, evaluation, runs, lastRun>>

SetterFails(s) ==
    /\ Upset
    /\ setter[s].pc = "create"
    /\ setter' = [setter EXCEPT ![s] = NoSetter]
    /\ UNCHANGED <<baseline, alert, evaluation, runs, lastRun>>

-----------------------------------------------------------------------------
(* Evaluations.                                                             *)

\* The run is recorded and compared with the latest active baseline.
Evaluate(e, n) ==
    LET b == Max(Active)
        score == DriftScore(baseline[b].run, n)
    IN
    /\ evaluation[e].pc = "idle" /\ runs < MaxRuns /\ runs' = runs + 1
    /\ Active # {}
    /\ evaluation' = [evaluation EXCEPT ![e] = [pc |-> "find", baseline |-> b, score |-> score,
                                                alerts |-> {}]]
    /\ lastRun' = [lastRun EXCEPT ![b] = IF \E x \in Evaluating : evaluation[x].baseline = b
                                             THEN Disturbed ELSE n]
    /\ UNCHANGED <<baseline, setter, alert, upsets>>

FindAlertsToUpdate(e) ==
    LET v == evaluation[e]
    IN
    /\ v.pc = "find"
    /\ \E A \in IF ShouldAlert(v.score) /\ OpenAlerts(v.baseline) # {}
                THEN {{a} : a \in OpenAlerts(v.baseline)} ELSE {{}} :
          evaluation' = [evaluation EXCEPT ![e].alerts = A,
              ![e].pc = CASE ShouldAlert(v.score) /\ A = {} -> "create"
                          [] A # {} -> "write"
                          [] OTHER -> "idle"]
    /\ UNCHANGED <<baseline, setter, alert, runs, upsets, lastRun>>
FindAlerts(e) ==
    LET v == evaluation[e]
    IN
    /\ v.pc = "find"
    /\ \E A \in IF ShouldAlert(v.score) /\ OpenAlerts(v.baseline) # {}
                THEN {{a} : a \in OpenAlerts(v.baseline)} ELSE {OpenAlerts(v.baseline)} :
          evaluation' = [evaluation EXCEPT ![e].alerts = A,
              ![e].pc = CASE ShouldAlert(v.score) /\ A = {} -> "create"
                          [] A # {} -> "write"
                          [] OTHER -> "idle"]
    /\ UNCHANGED <<baseline, setter, alert, runs, upsets, lastRun>>

\* An update of the alert found, or the resolution of all that were, one by one.
WriteAlert(e) ==
    LET v == evaluation[e]
    IN
    /\ v.pc = "write"
    /\ \E a \in v.alerts :
          /\ alert' = IF ShouldAlert(v.score) THEN [alert EXCEPT ![a].score = v.score]
                      ELSE [alert EXCEPT ![a].state = "resolved"]
          /\ evaluation' = [evaluation EXCEPT ![e] =
                 IF v.alerts = {a} THEN NoEvaluation ELSE [v EXCEPT !.alerts = v.alerts \ {a}]]
    /\ UNCHANGED <<baseline, setter, runs, upsets, lastRun>>

CreateAlert(e) ==
    LET v == evaluation[e]
    IN
    /\ v.pc = "create"
    /\ \E a \in Alerts :
          /\ alert[a].state = "none" /\ \A c \in 1..(a - 1) : alert[c].state # "none"
          /\ alert' = [alert EXCEPT ![a] =
                 [state |-> "open", baseline |-> v.baseline, score |-> v.score]]
    /\ evaluation' = [evaluation EXCEPT ![e] = NoEvaluation]
    /\ UNCHANGED <<baseline, setter, runs, upsets, lastRun>>

\* The diagnostics action ignores a rejected evaluation.
EvaluationFails(e) ==
    /\ Upset
    /\ evaluation[e].pc # "idle"
    /\ evaluation' = [evaluation EXCEPT ![e] = NoEvaluation]
    /\ lastRun' = [lastRun EXCEPT ![evaluation[e].baseline] = Disturbed]
    /\ UNCHANGED <<baseline, setter, alert, runs>>

\* resolveAlert refuses an alert that is resolved already.
ResolveAlert(a) ==
    /\ Upset
    /\ alert[a].state = "open"
    /\ alert' = [alert EXCEPT ![a].state = "resolved"]
    /\ lastRun' = [lastRun EXCEPT ![alert[a].baseline] = Disturbed]
    /\ UNCHANGED <<baseline, setter, evaluation, runs>>

DriftNext ==
    \/ \E s \in Setters : \/ \E n \in Found \cup {NoFind} : DeactivateOthers(s, n)
                          \/ CreateBaseline(s) \/ SetterFails(s)
    \/ \E b \in Baselines : Deactivate(b)
    \/ \E e \in Evaluations : \/ \E n \in Found \cup {NoFind} : Evaluate(e, n)
                              \/ FindAlerts(e) \/ WriteAlert(e) \/ CreateAlert(e)
                              \/ EvaluationFails(e)
    \/ \E a \in Alerts : ResolveAlert(a)

DriftSpec == DriftInit /\ [][DriftNext]_driftVars

-----------------------------------------------------------------------------

\* README.md:222: diagnostics detect selector drift.  Once the evaluation of a
\* run is over, an alert of its baseline is open if the run has lost a capability or
\* misses one that the baseline had, and none is if nothing has changed; overlapping
\* evaluations, rejected ones and the user's resolutions apart.
AlertTellsDrift ==
    \A b \in Baselines :
        LET old == baseline[b].run
            new == lastRun[b]
        IN  new # Disturbed /\ (\A e \in Evaluating : evaluation[e].baseline # b) =>
                /\ ~(old.detected \subseteq new.detected /\ new.missing \subseteq old.missing)
                       => OpenAlerts(b) # {}
                /\ old = new => OpenAlerts(b) = {}
=============================================================================
