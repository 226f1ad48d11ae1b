----------------------------- MODULE Dashboard -----------------------------
(***************************************************************************)
(* The dashboard process (app.py) beside the make commands: its sessions   *)
(* look at the live view (LiveMonitor) or at the backtest page, which      *)
(* shows the summary and the model's metrics next to a verdict on the      *)
(* freshness of the evidence (Evidence).                                   *)
(*                                                                         *)
(* Abstractions.                                                           *)
(*  - load_summary and load_metrics are cached without a ttl: what the     *)
(*    process read first, even that a file is missing, answers for good.   *)
(*    They stand for load_horizon_metrics too.                             *)
(*  - The verdict is cached for a ttl; it is computed in one step.         *)
(***************************************************************************)
EXTENDS LiveMonitor, Evidence

CONSTANT VerdictTtl
ASSUME DashboardAssumption == VerdictTtl \in Nat \ {0}

VARIABLES
  page,     \* where the script of each session stands on the backtest page
  kept,     \* the files the process has read: what it keeps of each
  verdict,  \* the verdict it keeps
  display,  \* the backtest page the last step ended with, if it did
  behind    \* history: the kept files, and those under the verdict, that it does not speak of:
            \* opened for writing since, or of a training the check cannot see

pageVars == <<page, kept, verdict, display, behind>>
vars == <<liveVars, evidenceVars, pageVars>>

Loaded == {"summary", "model"}
Missing == NoText
NoVerdict == [fresh |-> FALSE, fingerprint |-> NoSource, stored |-> NoTime]
NoDisplay == [fresh |-> FALSE, fingerprint |-> NoSource, of |-> [f \in {} |-> NoText]]

\* The variables have the types of the objects they stand for.
TypeOK ==
  /\ LiveTypeOK /\ EvidenceTypeOK
  /\ page \in [Sessions -> {"live", "summary", "verdict", "model", "shown"}]
  /\ DOMAIN kept \subseteq Loaded /\ \A f \in DOMAIN kept : kept[f].source \in Source \cup {NoSource}
  /\ verdict.fresh \in BOOLEAN /\ verdict.fingerprint \in Source \cup {NoSource}
  /\ verdict.fresh => verdict.stored \in Times
  /\ behind \in [{"kept", "verdict"} -> SUBSET Loaded]
  /\ \A s \in Sessions : page[s] \in {"summary", "verdict", "model"} => at[s] = "idle"

Init ==
  /\ LiveInit /\ EvidenceInit
  /\ page = [s \in Sessions |-> "live"] /\ kept = [f \in {} |-> NoText]
  /\ verdict = NoVerdict /\ display = NoDisplay
  /\ behind = [k \in {"kept", "verdict"} |-> {}]
-----------------------------------------------------------------------------
(* The script of the backtest page: load_summary, load_evidence_status, load_metrics. *)
OpenPage(s) ==
  /\ at[s] \in {"idle", "done"} /\ page[s] \in {"live", "shown"}
  /\ page' = [page EXCEPT ![s] = "summary"] /\ at' = [at EXCEPT ![s] = "idle"]
  /\ display' = NoDisplay /\ Quiet
  /\ UNCHANGED <<clock, entries, clears, catalog, call, selected, lock, begun, snapshot, presses,
                 evidenceVars, kept, verdict, behind>>

\* What a script that keeps the file has of it: {} when there is none.
OnDisk(file) == IF file \in DOMAIN reports THEN reports[file] ELSE NoText
Keep(file) ==
  IF file \in DOMAIN kept THEN UNCHANGED <<kept, behind>>
  ELSE /\ kept' = [f \in DOMAIN kept \cup {file} |-> IF f = file THEN OnDisk(f) ELSE kept[f]]
       /\ behind' = [behind EXCEPT !["kept"] = @ \ {file}]
LoadSummary(s) ==
  /\ page[s] = "summary" /\ ("summary" \in DOMAIN kept \/ "summary" \notin torn)
  /\ Keep("summary") /\ page' = [page EXCEPT ![s] = "verdict"] /\ display' = NoDisplay
  /\ Quiet /\ UNCHANGED <<clock, entries, clears, catalog, script, presses, evidenceVars, verdict>>
LoadEvidenceStatus(s) ==
  /\ page[s] = "verdict" /\ page' = [page EXCEPT ![s] = "model"] /\ display' = NoDisplay
  /\ IF verdict.stored # NoTime /\ now - verdict.stored < VerdictTtl
     THEN UNCHANGED <<verdict, behind>>
     ELSE /\ verdict' = [fresh |-> Fresh, stored |-> now,
                         fingerprint |-> IF Fresh THEN Current ELSE NoSource]
          /\ behind' = [behind EXCEPT !["verdict"] = IF tainted THEN {"model"} ELSE {}]
  /\ Quiet /\ UNCHANGED <<clock, entries, clears, catalog, script, presses, evidenceVars, kept>>
LoadMetrics(s) ==
  /\ page[s] = "model" /\ ("model" \in DOMAIN kept \/ "model" \notin torn)
  /\ Keep("model") /\ page' = [page EXCEPT ![s] = "shown"]
  /\ display' = [fresh |-> verdict.fresh, fingerprint |-> verdict.fingerprint, of |-> kept']
  /\ Quiet /\ UNCHANGED <<clock, entries, clears, catalog, script, presses, evidenceVars, verdict>>
\* The file does not parse: the script ends with the exception.
LoadFails(s) ==
  /\ page[s] \in Loaded \ DOMAIN kept /\ page[s] \in torn
  /\ page' = [page EXCEPT ![s] = "shown"] /\ display' = NoDisplay
  /\ Quiet /\ UNCHANGED <<clock, entries, clears, catalog, script, presses, evidenceVars,
                         kept, verdict, behind>>

\* A session on the live view, and one that goes there.
Live(s) ==
  /\ page[s] \in {"live", "shown"} /\ (Select(s) \/ (page[s] = "live" /\ LiveStep(s)))
  /\ page' = [page EXCEPT ![s] = "live"] /\ display' = NoDisplay
  /\ UNCHANGED <<evidenceVars, kept, verdict, behind>>
\* Time passes, or the stations are synchronised.
Around ==
  /\ Tick \/ Sync
  /\ display' = NoDisplay /\ UNCHANGED <<evidenceVars, page, kept, verdict, behind>>
\* A make command goes on, or the source is edited.
Shell ==
  /\ EvidenceNext /\ Quiet /\ display' = NoDisplay
  /\ behind' = [k \in DOMAIN behind |-> behind[k] \cup (torn' \cap Loaded)]
  /\ UNCHANGED <<clock, entries, clears, catalog, script, presses, page, kept, verdict>>

Next ==
  \/ Around \/ Shell
  \/ \E s \in Sessions :
       \/ OpenPage(s) \/ LoadSummary(s) \/ LoadEvidenceStatus(s) \/ LoadMetrics(s) \/ LoadFails(s)
       \/ Live(s)

Spec == Init /\ [][Next]_vars
-----------------------------------------------------------------------------
(***************************************************************************)
(* Properties.                                                             *)
(***************************************************************************)
\* "Evidence fresh" is true of what stands beside it, as long as no script has opened
\* the files since they and the verdict were read: the summary and the model's metrics
\* were made from the source the chip names.  Of a model whose training was under way, cut
\* off or overtaken by an edit when the verdict was taken, the verdict says nothing.
FreshPage ==
  display.fresh =>
    \A f \in DOMAIN display.of \ (behind["kept"] \cup behind["verdict"]) :
      LET shownOf == IF f = "summary" THEN display.of[f].of["metadata"] ELSE display.of[f].source
      IN  display.of[f] # NoText => shownOf = display.fingerprint
=============================================================================
