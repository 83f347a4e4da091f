-------------------------- MODULE DeploymentLedger --------------------------
(* What the `deployments` table of one service promises to the Deployments  *)
(* page and to a CI job polling a deployment id, whatever the build tasks   *)
(* behind it do: a row is opened once, at most one pipeline is in progress, *)
(* a row that reached a terminal state never moves again, and the rows      *)
(* disappear only together with the service.                                *)
(*                                                                          *)
(* ServiceDeploy is shown to implement this specification.                  *)
EXTENDS FiniteSets

CONSTANT Rows           \* ids of deployments rows

VARIABLES
  rows,                 \* rows[r]: services' deployments.status, or "none"
  rollbacks,            \* rows opened by a rollback (triggered_by = 'rollback')
  gone                  \* TRUE once the service row has been deleted

ledgerVars == <<rows, rollbacks, gone>>

Terminal == {"success", "failed", "cancelled"}

RowStatus == {"none", "building"} \cup Terminal

LedgerInit ==
  /\ rows = [r \in Rows |-> "none"]
  /\ rollbacks = {}
  /\ gone = FALSE

\* A pipeline opens its row and closes every row still in progress.
OpenPipeline(r) ==
  /\ ~gone
  /\ rows[r] = "none"
  /\ rows' = [q \in Rows |-> IF q = r THEN "building"
                             ELSE IF rows[q] = "building" THEN "cancelled"
                             ELSE rows[q]]
  /\ UNCHANGED <<rollbacks, gone>>

\* A rollback opens its row beside whatever is in progress.
OpenRollback(r) ==
  /\ ~gone
  /\ rows[r] = "none"
  /\ rows' = [rows EXCEPT ![r] = "building"]
  /\ rollbacks' = rollbacks \cup {r}
  /\ UNCHANGED gone

\* A row in progress reaches a terminal state.
CloseRow(r) ==
  /\ rows[r] = "building"
  /\ \E s \in Terminal : rows' = [rows EXCEPT ![r] = s]
  /\ UNCHANGED <<rollbacks, gone>>

\* Deleting the service deletes its rows (ON DELETE CASCADE).
DropLedger ==
  /\ rows' = [r \in Rows |-> "none"]
  /\ rollbacks' = {}
  /\ gone' = TRUE

LedgerNext ==
  \/ \E r \in Rows : OpenPipeline(r) \/ OpenRollback(r) \/ CloseRow(r)
  \/ DropLedger

LedgerSpec == LedgerInit /\ [][LedgerNext]_ledgerVars
=============================================================================
