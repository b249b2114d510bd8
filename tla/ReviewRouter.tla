---------------------------- MODULE ReviewRouter ----------------------------
(***************************************************************************)
(* The review router of packages/application: which reviewers a change     *)
(* needs.  The routing input of a change is a record                       *)
(*                                                                         *)
(*   [patterns, tags, domain, risk, repositoryRequired]                    *)
(*                                                                         *)
(* in which patterns is the set of the glob patterns that match one of the *)
(* changed paths (the matching itself is the library picomatch's).  A rule *)
(* is a record [when, require, optional]; a condition field the rule does  *)
(* not give is the empty set.                                              *)
(***************************************************************************)
EXTENDS Sequences, SequencesExt

GENERAL_REVIEWER_TYPE == "general"

ConditionFields == {"changed_path_matches", "task_tag_in", "task_domain_in",
                    "risk_level_in"}

\* What the change offers for a condition field to match.
Offered(field, input) ==
  CASE field = "changed_path_matches" -> input.patterns
    [] field = "task_tag_in" -> input.tags
    [] field = "task_domain_in" -> {input.domain}
    [] field = "risk_level_in" -> {input.risk}

GivenFields(rule) == {f \in ConditionFields : rule.when[f] # {}}

\* evaluateCondition: every given field matches, and one is given.
EvaluateCondition(rule, input) ==
  /\ GivenFields(rule) # {}
  /\ \A f \in GivenFields(rule) : rule.when[f] \cap Offered(f, input) # {}

\* categorizeRules: a rule with several fields is in several tiers.
Tier(rules, fields) ==
  SelectSeq(rules, LAMBDA rule : GivenFields(rule) \cap fields # {})

CategorizeRules(rules) ==
  Tier(rules, {"changed_path_matches"})
    \o Tier(rules, {"task_tag_in", "task_domain_in"})
    \o Tier(rules, {"risk_level_in"})

\* One matched rule: requiring a reviewer takes it off the optional ones.
ApplyRule(decision, rule) ==
  LET required == decision.required \cup rule.require
  IN  [required |-> required,
       optional |-> (decision.optional \ rule.require)
                      \cup (rule.optional \ required)]

\* routeReview: the general reviewer, the repository's own, then the rules
\* in the order of their tiers.
RouteReview(rules, input) ==
  FoldLeft(LAMBDA decision, rule : IF EvaluateCondition(rule, input)
                                   THEN ApplyRule(decision, rule)
                                   ELSE decision,
           [required |-> {GENERAL_REVIEWER_TYPE} \cup input.repositoryRequired,
            optional |-> {}],
           CategorizeRules(rules))

=============================================================================
