----------------------------- MODULE MCWebConsole -----------------------------
(* The bounds of the client run: one task that is written twice, the task  *)
(* page and a page without queries, one lost connection.                   *)
EXTENDS WebConsole

MCFamilies == {"tasks"}
MCPages == {"task", "notFound"}
MCForms == {"editTask", "confirmAction", "escalation"}
MCActions == {"cancel", "requeue", "pause", "resolve_retry", "override_merge_order"}
MCMoves == {"IN_DEVELOPMENT"}
MCEntities == {"task-lease"}
MCInitialStatuses == {"ASSIGNED", "QUEUED_FOR_MERGE"}

\* Every form sends the fields its DTO requires.
ASSUME FormsPassValidation ==
  \A n \in DOMAIN Forms :
     ZodValidationPipe(Forms[n].family, Forms[n].method, Forms[n].sends)

ASSUME RoutesHaveWrites
=============================================================================
