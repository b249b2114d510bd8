-------------------------- MODULE MCReviewPipeline --------------------------
(* One task, a change that only the general reviewer sees and one that the *)
(* router also offers to a security reviewer, up to two cycles.          *)
EXTENDS ReviewPipeline, ReviewRouter, TLC

CONSTANTS t1, lead, none

MCTasks == {t1}
MCReviewers == {"general", "security"}

NoCondition == [f \in ConditionFields |-> {}]
MCRules ==
  <<[when |-> [NoCondition EXCEPT !["changed_path_matches"] = {"auth"}],
     require |-> {}, optional |-> {"security"}],
    [when |-> [NoCondition EXCEPT !["task_tag_in"] = {"api"}],
     require |-> {"security"}, optional |-> {}]>>
MCChanges ==
  {[patterns |-> p, tags |-> g, domain |-> "none", risk |-> "low",
    repositoryRequired |-> {}] :
     p \in {{}, {"auth"}}, g \in {{}, {"api"}}}
MCRoutingDecisions == {RouteReview(MCRules, c) : c \in MCChanges}
=============================================================================
