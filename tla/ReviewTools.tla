---------------------------- MODULE ReviewTools -----------------------------
(***************************************************************************)
(* The tools that gather opinions and evidence and say what they amount to: *)
(* the manifest of an adversarial pass, the in-process fan-out, the panel   *)
(* and the v3 record gate.  A behaviour is one of them at work; the others  *)
(* keep their first state.                                                  *)
(***************************************************************************)
EXTENDS DispatchManifest, FanoutRun, PanelRun, RecordGate

VARIABLE tool

reviewVars == <<manifestVars, fanoutVars, panelVars, gateVars, tool>>

ReviewInit ==
    /\ tool \in {"fv_run", "omp_fanout", "omp_panel", "check_evidence_records"}
    /\ ManifestInit
    /\ tool # "omp_fanout" => fanout = FirstFanout
    /\ FanoutInit
    /\ tool # "omp_panel" => /\ panel = CHOOSE p \in Panels : TRUE
                             /\ evidenceRecords = [c \in Criteria |-> NoEvidence]
    /\ PanelInit
    /\ GateInit

ReviewNext ==
    /\ UNCHANGED tool
    /\ \/ tool = "fv_run" /\ ManifestNext /\ UNCHANGED <<fanoutVars, panelVars, gateVars>>
       \/ tool = "omp_fanout" /\ FanoutNext /\ UNCHANGED <<manifestVars, panelVars, gateVars>>
       \/ tool = "omp_panel" /\ PanelNext /\ UNCHANGED <<manifestVars, fanoutVars, gateVars>>
       \/ /\ tool = "check_evidence_records"
          /\ GateNext /\ UNCHANGED <<manifestVars, fanoutVars, panelVars>>

ReviewSpec == ReviewInit /\ [][ReviewNext]_reviewVars
=============================================================================
