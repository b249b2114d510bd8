--------------------------- MODULE ConfigResolver ---------------------------
(***************************************************************************)
(* Hierarchical configuration (packages/config) and the policy snapshot    *)
(* frozen for one run (packages/application).  A layer is                  *)
(*   [layer, source, config], config a function from some policies to      *)
(* functions from some of the policy's fields to values; what a policy     *)
(* leaves out is the JavaScript undefined.  System defaults give every     *)
(* field of every policy.                                                  *)
(***************************************************************************)
EXTENDS Sequences, Naturals

CONSTANTS
  SystemDefaults         \* SYSTEM_DEFAULTS: policy -> field -> value

ConfigLayerPrecedence ==
  <<"system", "environment", "organization", "repository_workflow", "pool",
    "task_type", "task", "operator_override">>

POLICY_NAMES == DOMAIN SystemDefaults

SystemSource == [layer |-> "system", source |-> "system-defaults"]

GetLayerPrecedence(layer) ==
  CHOOSE i \in DOMAIN ConfigLayerPrecedence : ConfigLayerPrecedence[i] = layer

\* validateLayerOrder throws unless precedence never decreases.
ValidLayerOrder(layers) ==
  \A i, j \in DOMAIN layers :
     i < j => GetLayerPrecedence(layers[i].layer)
                <= GetLayerPrecedence(layers[j].layer)

\* The merge functions: every policy field is override ?? base.
MergePolicies(base, override) ==
  [f \in DOMAIN base |-> IF f \in DOMAIN override THEN override[f] ELSE base[f]]

InitFieldSources(policy) == [f \in DOMAIN policy |-> SystemSource]

UpdateFieldSources(sources, override, source) ==
  [f \in DOMAIN sources |->
     IF f \in DOMAIN override THEN source ELSE sources[f]]

\* One layer over the policies resolved so far.
ApplyLayer(state, entry) ==
  [p \in POLICY_NAMES |->
     IF p \notin DOMAIN entry.config THEN state[p]
     ELSE [value |-> MergePolicies(state[p].value, entry.config[p]),
           sources |-> UpdateFieldSources(state[p].sources, entry.config[p],
                         [layer |-> entry.layer, source |-> entry.source])]]

\* Before any layer: every field from the defaults.
InitialState ==
  [p \in POLICY_NAMES |-> [value |-> SystemDefaults[p],
                           sources |-> InitFieldSources(SystemDefaults[p])]]

\* The loop over the layers: what is resolved after each of them.
ResolvedUpTo(layers) ==
  LET upTo[n \in 0 .. Len(layers)] ==
        IF n = 0 THEN InitialState ELSE ApplyLayer(upTo[n - 1], layers[n])
  IN upTo

ResolveConfig(layers) == ResolvedUpTo(layers)[Len(layers)]

ExtractValues(resolved) == [p \in POLICY_NAMES |-> resolved[p].value]

ExtractSources(resolved) == [p \in POLICY_NAMES |-> resolved[p].sources]

\* derivePolicySetId: the most specific layer that is not the defaults.
DerivePolicySetId(layers) ==
  LET named == {i \in DOMAIN layers :
                  layers[i].source \notin {"", "system-defaults"}}
  IN IF named = {} THEN "system-defaults"
     ELSE layers[CHOOSE i \in named : \A j \in named : j <= i].source

\* assembleSnapshot copies the resolved policies.
AssembleSnapshot(values, policySetId) ==
  [policy_set_id |-> policySetId, policies |-> values]

\* The reference: a field has the value of the last layer that sets it, and
\* that layer is its recorded source.
Setters(layers, p, f) ==
  {i \in DOMAIN layers : /\ p \in DOMAIN layers[i].config
                         /\ f \in DOMAIN layers[i].config[p]}

LastSetter(layers, p, f) ==
  LET s == Setters(layers, p, f) IN CHOOSE i \in s : \A j \in s : j <= i

ResolvedAsDocumented(layers, resolved) ==
  \A p \in POLICY_NAMES : \A f \in DOMAIN SystemDefaults[p] :
    IF Setters(layers, p, f) = {}
    THEN /\ resolved[p].value[f] = SystemDefaults[p][f]
         /\ ExtractSources(resolved)[p][f] = SystemSource
    ELSE LET e == layers[LastSetter(layers, p, f)]
         IN /\ resolved[p].value[f] = e.config[p][f]
            /\ ExtractSources(resolved)[p][f] =
                 [layer |-> e.layer, source |-> e.source]
=============================================================================
