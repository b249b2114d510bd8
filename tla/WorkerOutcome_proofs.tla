------------------------ MODULE WorkerOutcome_proofs ------------------------
(***************************************************************************)
(* Theorems about what becomes of a task's runs, for every configuration,  *)
(* every command line and policy, and any number of runs, validations,     *)
(* edits and restarts.                                                     *)
(***************************************************************************)
EXTENDS WorkerOutcome, SequenceTheorems, FiniteSetTheorems,
        WellFoundedInduction, TLAPS

-----------------------------------------------------------------------------
(* The command policy                                                      *)

\* allowed_commands.find: a command that has rules has a first one.
LEMMA FirstRule ==
  ASSUME NEW command, NEW policy, DOMAIN policy.allowed_commands \subseteq Nat,
         RulesFor(command, policy) # {}
  PROVE  \E i \in RulesFor(command, policy) :
           MatchingRule(command, policy) = policy.allowed_commands[i]
<1> DEFINE rules == RulesFor(command, policy)
<1>1. rules \subseteq Nat
  BY DEF RulesFor
<1> HIDE DEF rules
<1> DEFINE less == {ss \in Nat \X Nat : ss[1] < ss[2]}
<1>2. IsWellFoundedOn(less, Nat)
  BY NatLessThanWellFounded, Zenon DEF OpToRel
<1>3. \E i \in rules : \A j \in rules : i <= j
  <2>1. rules # {}
    BY DEF rules
  <2>2. \A i, j \in Nat : <<j, i>> \in less <=> j < i
    OBVIOUS
  <2> HIDE DEF less
  <2>3. PICK i \in rules : \A j \in rules : ~ (<<j, i>> \in less)
    BY <1>1, <1>2, <2>1, WFMin
  <2>4. ASSUME NEW j \in rules PROVE i <= j
    <3>1. ~ (<<j, i>> \in less)
      BY <2>3
    <3>2. ~ (j < i)
      BY <1>1, <2>2, <3>1, Zenon
    <3> QED
      BY <1>1, <3>2
  <2> QED
    BY <2>4
<1> DEFINE m == CHOOSE i \in rules : \A j \in rules : i <= j
<1>4. m \in rules
  BY <1>3
<1>5. MatchingRule(command, policy) = policy.allowed_commands[m]
  BY DEF MatchingRule, rules
<1> QED
  BY <1>4, <1>5 DEF rules

\* A command line's words: the first is the command, the others arguments.
LEMMA ParsedWords ==
  ASSUME NEW raw, raw.tokens \in Seq(STRING), raw.tokens # << >>
  PROVE  LET parsed == ParseCommandString(raw)
         IN /\ parsed.command = raw.tokens[1]
            /\ Len(parsed.args) = Len(raw.tokens) - 1
            /\ DOMAIN parsed.args = 1 .. (Len(raw.tokens) - 1)
            /\ \A i \in 2 .. Len(raw.tokens) : raw.tokens[i] = parsed.args[i - 1]
            /\ \A i \in DOMAIN parsed.args :
                 i + 1 \in 2 .. Len(raw.tokens) /\ parsed.args[i] = raw.tokens[i + 1]
            /\ parsed.args = << >> <=> Len(raw.tokens) = 1
<1>1. ParseCommandString(raw) = [command |-> Head(raw.tokens),
                                 args |-> Tail(raw.tokens)]
  BY DEF ParseCommandString
<1> DEFINE words == raw.tokens
           args == Tail(words)
<1>2. words \in Seq(STRING) /\ words # << >>
  OBVIOUS
<1> HIDE DEF words
<1>3. Len(words) \in Nat \ {0} /\ Head(words) = words[1]
  BY <1>2, EmptySeq
<1>4. /\ args \in Seq(STRING)
      /\ Len(args) = Len(words) - 1
      /\ \A i \in 1 .. Len(args) : args[i] = words[i + 1]
  BY <1>2, HeadTailProperties
<1> HIDE DEF args
<1>5. DOMAIN args = 1 .. Len(args) /\ (args = << >> <=> Len(args) = 0)
  BY <1>4, EmptySeq
<1>6. /\ DOMAIN args = 1 .. (Len(words) - 1)
      /\ \A i \in 2 .. Len(words) : words[i] = args[i - 1]
      /\ \A i \in DOMAIN args :
           i + 1 \in 2 .. Len(words) /\ args[i] = words[i + 1]
      /\ args = << >> <=> Len(words) = 1
  BY <1>3, <1>4, <1>5
<1> QED
  BY <1>1, <1>3, <1>4, <1>6 DEF words, args

\* evaluateCommandPolicy lets nothing through that the policy does not permit:
\* no order of its checks and no rule that comes first opens a gap.
THEOREM AllowedIsPermitted ==
  ASSUME NEW raw, raw.tokens \in Seq(STRING),
         NEW policy, WellFormedCommandPolicy(policy),
         EvaluateCommandPolicy(raw, policy).allowed
  PROVE  Permitted(raw, policy)
<1> DEFINE parsed == ParseCommandString(raw)
<1>1. ViolationReason(raw, policy) = "none"
  BY DEF EvaluateCommandPolicy
<1>2. /\ parsed.command # ""
      /\ ~(~policy.allow_shell_operators /\ raw.operators)
      /\ ~\E p \in policy.denied_patterns : GlobMatch(raw, p)
      /\ AllowlistViolation(parsed, policy) = "none"
      /\ ~ForbiddenArg(parsed, policy)
  BY <1>1 DEF ViolationReason, ContainsShellOperators
<1>3. raw.tokens # << >>
  BY <1>2 DEF ParseCommandString
<1>4. /\ parsed.command = raw.tokens[1]
      /\ DOMAIN parsed.args = 1 .. (Len(raw.tokens) - 1)
      /\ \A i \in 2 .. Len(raw.tokens) : raw.tokens[i] = parsed.args[i - 1]
      /\ parsed.args = << >> <=> Len(raw.tokens) = 1
      /\ Len(raw.tokens) \in Nat \ {0}
  BY <1>3, ParsedWords, EmptySeq
<1> HIDE DEF parsed
<1>5. ASSUME policy.mode = "allowlist"
      PROVE  \E i \in DOMAIN policy.allowed_commands :
               /\ policy.allowed_commands[i].command = raw.tokens[1]
               /\ \/ policy.allowed_commands[i].arg_prefixes = {}
                  \/ Len(raw.tokens) = 1
                  \/ \E p \in policy.allowed_commands[i].arg_prefixes :
                       StartsWith(raw.tokens[2], p)
  <2>1. /\ RulesFor(parsed.command, policy) # {}
        /\ PrefixAllowed(parsed, MatchingRule(parsed.command, policy))
    BY <1>2, <1>5 DEF AllowlistViolation
  <2>2. DOMAIN policy.allowed_commands \subseteq Nat
    BY <1>5 DEF WellFormedCommandPolicy
  <2>3. PICK i \in RulesFor(parsed.command, policy) :
          MatchingRule(parsed.command, policy) = policy.allowed_commands[i]
    BY <2>1, <2>2, FirstRule
  <2>4. PrefixAllowed(parsed, policy.allowed_commands[i])
    BY <2>1, <2>3
  <2>5. parsed.args # << >> => parsed.args[1] = raw.tokens[2]
    <3> SUFFICES ASSUME Len(raw.tokens) # 1 PROVE parsed.args[1] = raw.tokens[2]
      BY <1>4
    <3>1. 2 \in 2 .. Len(raw.tokens)
      BY <1>4
    <3> QED
      BY <1>4, <3>1
  <2>6. /\ i \in DOMAIN policy.allowed_commands
        /\ policy.allowed_commands[i].command = raw.tokens[1]
    BY <1>4 DEF RulesFor
  <2> QED
    BY <1>4, <2>4, <2>5, <2>6 DEF PrefixAllowed
<1>6. ASSUME NEW i \in 2 .. Len(raw.tokens),
             NEW p \in policy.forbidden_arg_patterns
      PROVE  ~RegexMatches(raw.tokens[i], p)
  <2>1. i - 1 \in DOMAIN parsed.args /\ raw.tokens[i] = parsed.args[i - 1]
    BY <1>4
  <2> QED
    BY <1>2, <2>1 DEF ForbiddenArg
<1> QED
  BY <1>2, <1>3, <1>5, <1>6 DEF Permitted

\* And it lets everything through that the policy permits, when the allowlist
\* has one rule per command: find looks at no second rule.
THEOREM PermittedIsAllowed ==
  ASSUME NEW raw, raw.tokens \in Seq(STRING), WordsNotEmpty(raw),
         NEW policy, OneRulePerCommand(policy),
         WellFormedCommandPolicy(policy),
         Permitted(raw, policy)
  PROVE  EvaluateCommandPolicy(raw, policy).allowed
<1> DEFINE parsed == ParseCommandString(raw)
<1>1. /\ raw.tokens # << >>
      /\ raw.operators => policy.allow_shell_operators
      /\ \A p \in policy.denied_patterns : ~GlobMatch(raw, p)
      /\ policy.mode = "allowlist" =>
           \E i \in DOMAIN policy.allowed_commands :
             /\ policy.allowed_commands[i].command = raw.tokens[1]
             /\ \/ policy.allowed_commands[i].arg_prefixes = {}
                \/ Len(raw.tokens) = 1
                \/ \E p \in policy.allowed_commands[i].arg_prefixes :
                     StartsWith(raw.tokens[2], p)
      /\ \A i \in 2 .. Len(raw.tokens), p \in policy.forbidden_arg_patterns :
           ~RegexMatches(raw.tokens[i], p)
  BY DEF Permitted
<1>2. /\ parsed.command = raw.tokens[1]
      /\ DOMAIN parsed.args = 1 .. (Len(raw.tokens) - 1)
      /\ \A i \in DOMAIN parsed.args :
           i + 1 \in 2 .. Len(raw.tokens) /\ parsed.args[i] = raw.tokens[i + 1]
      /\ parsed.args = << >> <=> Len(raw.tokens) = 1
      /\ Len(raw.tokens) \in Nat \ {0}
  BY <1>1, ParsedWords, EmptySeq
<1> HIDE DEF parsed
<1>3. parsed.args # << >> => parsed.args[1] = raw.tokens[2]
  <2> SUFFICES ASSUME Len(raw.tokens) # 1 PROVE parsed.args[1] = raw.tokens[2]
    BY <1>2
  <2>1. 1 \in DOMAIN parsed.args
    BY <1>2
  <2> QED
    BY <1>2, <2>1
<1>4. AllowlistViolation(parsed, policy) = "none"
  <2>1. CASE policy.mode = "allowlist"
    <3>1. PICK i \in DOMAIN policy.allowed_commands :
             /\ policy.allowed_commands[i].command = raw.tokens[1]
             /\ \/ policy.allowed_commands[i].arg_prefixes = {}
                \/ Len(raw.tokens) = 1
                \/ \E p \in policy.allowed_commands[i].arg_prefixes :
                     StartsWith(raw.tokens[2], p)
      BY <1>1, <2>1
    <3>2. i \in RulesFor(parsed.command, policy)
      BY <1>2, <3>1 DEF RulesFor
    <3>3. DOMAIN policy.allowed_commands \subseteq Nat
      BY <2>1 DEF WellFormedCommandPolicy
    <3>4. PICK k \in RulesFor(parsed.command, policy) :
            MatchingRule(parsed.command, policy) = policy.allowed_commands[k]
      BY <3>2, <3>3, FirstRule
    <3>5. k = i
      BY <1>2, <3>1, <3>4 DEF RulesFor, OneRulePerCommand
    <3>6. PrefixAllowed(parsed, policy.allowed_commands[i])
      BY <1>2, <1>3, <3>1 DEF PrefixAllowed
    <3> QED
      BY <2>1, <3>2, <3>4, <3>5, <3>6 DEF AllowlistViolation
  <2>2. CASE policy.mode # "allowlist"
    BY <2>2 DEF AllowlistViolation
  <2> QED
    BY <2>1, <2>2
<1>5. ~ForbiddenArg(parsed, policy)
  BY <1>1, <1>2 DEF ForbiddenArg
<1>6. parsed.command # ""
  <2>1. 1 \in DOMAIN raw.tokens
    BY <1>2
  <2> QED
    BY <1>2, <2>1 DEF WordsNotEmpty
<1>7. ViolationReason(raw, policy) = "none"
  BY <1>1, <1>4, <1>5, <1>6 DEF ViolationReason, ContainsShellOperators, parsed
<1> QED
  BY <1>7 DEF EvaluateCommandPolicy

-----------------------------------------------------------------------------
(* The configuration                                                       *)

\* A set of naturals that is not empty has a least element.
LEMMA LeastNatural ==
  ASSUME NEW S \in SUBSET Nat, S # {}
  PROVE  \E m \in S : \A n \in S : m <= n
<1>1. IsWellFoundedOn(OpToRel(<, Nat), Nat)
  BY NatLessThanWellFounded
<1>2. PICK m \in S : \A n \in S : ~(<<n, m>> \in OpToRel(<, Nat))
  BY <1>1, WFMin
<1>3. \A n \in S : ~(n < m)
  BY <1>2 DEF OpToRel
<1> QED
  BY <1>3

\* f is what the loop over ls has resolved after each of n layers.
ResolutionOf(f, ls, n) ==
  f = [m \in 0 .. n |-> IF m = 0 THEN InitialState
                        ELSE ApplyLayer(f[m - 1], ls[m])]

\* The loop over the layers has a result after each of them.
LEMMA ResolutionExists ==
  ASSUME NEW ls, Len(ls) \in Nat
  PROVE  \E f : ResolutionOf(f, ls, Len(ls))
<1> DEFINE Without == {n \in Nat : ~\E f : ResolutionOf(f, ls, n)}
<1>1. SUFFICES Without = {}
  OBVIOUS
<1>2. SUFFICES ASSUME NEW n \in Without, \A k \in Without : n <= k
               PROVE  FALSE
  BY LeastNatural
<1>3. n # 0
  <2>1. ResolutionOf([m \in 0 .. 0 |-> InitialState], ls, 0)
    BY DEF ResolutionOf
  <2> QED
    BY <2>1
<1>4. n - 1 \in Nat /\ n - 1 \notin Without
  BY <1>2, <1>3
<1>5. PICK f : ResolutionOf(f, ls, n - 1)
  BY <1>4
<1> DEFINE g == [m \in 0 .. n |-> IF m = n THEN ApplyLayer(f[n - 1], ls[n])
                                  ELSE f[m]]
<1>6. \A m \in 0 .. n : g[m] = IF m = 0 THEN InitialState
                               ELSE ApplyLayer(g[m - 1], ls[m])
  <2>1. \A m \in 0 .. (n - 1) : f[m] = IF m = 0 THEN InitialState
                                       ELSE ApplyLayer(f[m - 1], ls[m])
    BY <1>5 DEF ResolutionOf
  <2>2. \A m \in 0 .. (n - 1) : g[m] = f[m]
    OBVIOUS
  <2>3. g[n] = ApplyLayer(f[n - 1], ls[n])
    OBVIOUS
  <2> HIDE DEF g
  <2>4. g[n - 1] = f[n - 1]
    BY <1>4, <2>2
  <2> QED
    BY <1>3, <1>4, <2>1, <2>2, <2>3, <2>4
<1>7. ResolutionOf(g, ls, n)
  <2>1. g = [m \in 0 .. n |-> g[m]]
    OBVIOUS
  <2> HIDE DEF g
  <2> QED
    BY <1>6, <2>1 DEF ResolutionOf
<1> QED
  BY <1>7

LEMMA ResolvedSteps ==
  ASSUME NEW ls, Len(ls) \in Nat
  PROVE  LET f == ResolvedUpTo(ls)
         IN /\ f[0] = InitialState
            /\ \A m \in 1 .. Len(ls) : f[m] = ApplyLayer(f[m - 1], ls[m])
<1> DEFINE f == ResolvedUpTo(ls)
<1>1. ResolutionOf(f, ls, Len(ls))
  <2>1. \E h : ResolutionOf(h, ls, Len(ls))
    BY ResolutionExists
  <2>2. f = CHOOSE h : ResolutionOf(h, ls, Len(ls))
    BY DEF ResolvedUpTo, ResolutionOf
  <2> QED
    BY <2>1, <2>2
<1> HIDE DEF f
<1>2. \A m \in 0 .. Len(ls) : f[m] = IF m = 0 THEN InitialState
                                     ELSE ApplyLayer(f[m - 1], ls[m])
  BY <1>1 DEF ResolutionOf
<1>3. f[0] = InitialState /\ \A m \in 1 .. Len(ls) : f[m] = ApplyLayer(f[m - 1], ls[m])
  BY <1>2
<1> QED
  BY <1>3 DEF f

\* After n layers a field has the value of the last of them that sets it,
\* and that layer for its source.
Fields(p) == DOMAIN SystemDefaults[p]

SetBefore(ls, n, p, f) == {i \in 1 .. n : i \in Setters(ls, p, f)}

FieldResolved(ls, n, r, p, f) ==
  \/ /\ SetBefore(ls, n, p, f) = {}
     /\ r.value[f] = SystemDefaults[p][f]
     /\ r.sources[f] = SystemSource
  \/ \E i \in SetBefore(ls, n, p, f) :
       /\ \A j \in SetBefore(ls, n, p, f) : j <= i
       /\ r.value[f] = ls[i].config[p][f]
       /\ r.sources[f] = [layer |-> ls[i].layer, source |-> ls[i].source]

PolicyResolved(ls, n, r, p) ==
  /\ DOMAIN r.value = Fields(p) /\ DOMAIN r.sources = Fields(p)
  /\ \A f \in Fields(p) : FieldResolved(ls, n, r, p, f)

\* One round of the loop.
LEMMA LayerResolves ==
  ASSUME NEW ls, Len(ls) \in Nat, DOMAIN ls = 1 .. Len(ls), NEW n \in 1 .. Len(ls),
         NEW st, NEW p \in POLICY_NAMES, PolicyResolved(ls, n - 1, st[p], p)
  PROVE  PolicyResolved(ls, n, ApplyLayer(st, ls[n])[p], p)
<1> DEFINE r == ApplyLayer(st, ls[n])[p]
           source == [layer |-> ls[n].layer, source |-> ls[n].source]
<1>0. \A f : SetBefore(ls, n, p, f) =
              SetBefore(ls, n - 1, p, f) \cup ({n} \cap Setters(ls, p, f))
  BY DEF SetBefore
<1>1. CASE p \notin DOMAIN ls[n].config
  <2>1. r = st[p]
    BY <1>1 DEF ApplyLayer
  <2>2. \A f : n \notin Setters(ls, p, f)
    BY <1>1 DEF Setters
  <2>3. \A f : SetBefore(ls, n, p, f) = SetBefore(ls, n - 1, p, f)
    BY <1>0, <2>2
  <2> QED
    BY <2>1, <2>3 DEF PolicyResolved, FieldResolved
<1>2. CASE p \in DOMAIN ls[n].config
  <2> DEFINE o == ls[n].config[p]
  <2>1. r = [value |-> MergePolicies(st[p].value, o),
             sources |-> UpdateFieldSources(st[p].sources, o, source)]
    BY <1>2 DEF ApplyLayer
  <2> HIDE DEF r
  <2>2. /\ r.value = [f \in Fields(p) |-> IF f \in DOMAIN o THEN o[f] ELSE st[p].value[f]]
        /\ r.sources = [f \in Fields(p) |-> IF f \in DOMAIN o THEN source
                                             ELSE st[p].sources[f]]
    BY <2>1 DEF MergePolicies, UpdateFieldSources, PolicyResolved
  <2>3. DOMAIN r.value = Fields(p) /\ DOMAIN r.sources = Fields(p)
    BY <2>2
  <2>4. ASSUME NEW f \in Fields(p) PROVE FieldResolved(ls, n, r, p, f)
    <3>1. n \in Setters(ls, p, f) <=> f \in DOMAIN o
      BY <1>2 DEF Setters
    <3>2. CASE f \in DOMAIN o
      <4>1. r.value[f] = o[f] /\ r.sources[f] = source
        BY <2>2, <3>2
      <4>2. n \in SetBefore(ls, n, p, f)
        BY <3>1, <3>2 DEF SetBefore
      <4>3. \A j \in SetBefore(ls, n, p, f) : j <= n
        BY DEF SetBefore
      <4> QED
        BY <4>1, <4>2, <4>3 DEF FieldResolved
    <3>3. CASE f \notin DOMAIN o
      <4>1. SetBefore(ls, n, p, f) = SetBefore(ls, n - 1, p, f)
        BY <1>0, <3>1, <3>3
      <4>2. r.value[f] = st[p].value[f] /\ r.sources[f] = st[p].sources[f]
        BY <2>2, <3>3
      <4>3. FieldResolved(ls, n - 1, st[p], p, f)
        BY DEF PolicyResolved
      <4> QED
        BY <4>1, <4>2, <4>3 DEF FieldResolved
    <3> QED
      BY <3>2, <3>3
  <2> QED
    BY <2>3, <2>4 DEF PolicyResolved, r
<1> QED
  BY <1>1, <1>2

\* resolveConfig does what the documentation of the layers says, however
\* many layers there are.
THEOREM ConfigResolves ==
  ASSUME NEW ls, Len(ls) \in Nat, DOMAIN ls = 1 .. Len(ls)
  PROVE  ResolvedAsDocumented(ls, ResolveConfig(ls))
<1> DEFINE up == ResolvedUpTo(ls)
           Bad(p) == {n \in 0 .. Len(ls) : ~PolicyResolved(ls, n, up[n][p], p)}
<1>1. up[0] = InitialState /\ \A m \in 1 .. Len(ls) : up[m] = ApplyLayer(up[m - 1], ls[m])
  BY ResolvedSteps
<1> HIDE DEF up
<1>2. ASSUME NEW p \in POLICY_NAMES PROVE Bad(p) = {}
  <2>1. SUFFICES ASSUME NEW n \in Bad(p), \A k \in Bad(p) : n <= k
                 PROVE  FALSE
    <3>1. Bad(p) \in SUBSET Nat
      OBVIOUS
    <3> HIDE DEF Bad
    <3> QED
      BY <3>1, LeastNatural
  <2>2. n # 0
    <3>1. up[0][p] = [value |-> SystemDefaults[p],
                      sources |-> InitFieldSources(SystemDefaults[p])]
      BY <1>1 DEF InitialState
    <3>2. DOMAIN up[0][p].value = Fields(p) /\ DOMAIN up[0][p].sources = Fields(p)
      BY <3>1 DEF InitFieldSources, Fields
    <3>3. \A f \in Fields(p) : FieldResolved(ls, 0, up[0][p], p, f)
      BY <3>1 DEF InitFieldSources, Fields, FieldResolved, SetBefore
    <3>4. PolicyResolved(ls, 0, up[0][p], p)
      BY <3>2, <3>3 DEF PolicyResolved
    <3> QED
      BY <3>4
  <2>3. n \in 1 .. Len(ls) /\ n - 1 \in 0 .. Len(ls) /\ n - 1 \notin Bad(p)
    BY <2>1, <2>2
  <2>4. PolicyResolved(ls, n - 1, up[n - 1][p], p)
    BY <2>3
  <2>5. PolicyResolved(ls, n, ApplyLayer(up[n - 1], ls[n])[p], p)
    BY <2>3, <2>4, LayerResolves
  <2>6. PolicyResolved(ls, n, up[n][p], p)
    BY <1>1, <2>3, <2>5
  <2> QED
    BY <2>6
<1>3. ASSUME NEW p \in POLICY_NAMES, NEW f \in DOMAIN SystemDefaults[p]
      PROVE  FieldResolved(ls, Len(ls), ResolveConfig(ls)[p], p, f)
  <2>1. Len(ls) \in 0 .. Len(ls)
    OBVIOUS
  <2>2. PolicyResolved(ls, Len(ls), up[Len(ls)][p], p)
    BY <1>2, <2>1
  <2> QED
    BY <2>2 DEF PolicyResolved, Fields, ResolveConfig, up
<1>4. ASSUME NEW p \in POLICY_NAMES, NEW f \in DOMAIN SystemDefaults[p]
      PROVE  IF Setters(ls, p, f) = {}
             THEN /\ ResolveConfig(ls)[p].value[f] = SystemDefaults[p][f]
                  /\ ExtractSources(ResolveConfig(ls))[p][f] = SystemSource
             ELSE LET e == ls[LastSetter(ls, p, f)]
                  IN /\ ResolveConfig(ls)[p].value[f] = e.config[p][f]
                     /\ ExtractSources(ResolveConfig(ls))[p][f] =
                          [layer |-> e.layer, source |-> e.source]
  <2>1. SetBefore(ls, Len(ls), p, f) = Setters(ls, p, f)
    BY DEF SetBefore, Setters
  <2>2. ExtractSources(ResolveConfig(ls))[p][f] = ResolveConfig(ls)[p].sources[f]
    BY DEF ExtractSources
  <2>3. Setters(ls, p, f) \subseteq Nat
    BY DEF Setters
  <2>4. ASSUME NEW i \in Setters(ls, p, f), \A j \in Setters(ls, p, f) : j <= i
        PROVE  LastSetter(ls, p, f) = i
    <3>1. /\ LastSetter(ls, p, f) \in Setters(ls, p, f)
          /\ \A j \in Setters(ls, p, f) : j <= LastSetter(ls, p, f)
      BY <2>4 DEF LastSetter
    <3> QED
      BY <2>3, <2>4, <3>1
  <2>5. FieldResolved(ls, Len(ls), ResolveConfig(ls)[p], p, f)
    BY <1>3
  <2>6. CASE Setters(ls, p, f) = {}
    BY <2>1, <2>2, <2>5, <2>6 DEF FieldResolved
  <2>7. CASE Setters(ls, p, f) # {}
    <3>1. PICK i \in Setters(ls, p, f) :
            /\ \A j \in Setters(ls, p, f) : j <= i
            /\ ResolveConfig(ls)[p].value[f] = ls[i].config[p][f]
            /\ ResolveConfig(ls)[p].sources[f] =
                 [layer |-> ls[i].layer, source |-> ls[i].source]
      BY <2>1, <2>5, <2>7 DEF FieldResolved
    <3>2. LastSetter(ls, p, f) = i
      BY <2>4, <3>1
    <3> QED
      BY <2>2, <2>7, <3>1, <3>2
  <2> QED
    BY <2>6, <2>7
<1> QED
  BY <1>4 DEF ResolvedAsDocumented

-----------------------------------------------------------------------------
(* The file scope                                                          *)

\* g lists the c positions in K in their order.
Enumerates(g, c, K) ==
  /\ c \in Nat /\ g \in [1 .. c -> K]
  /\ \A j, k \in 1 .. c : j < k => g[j] < g[k]
  /\ \A i \in K : \E k \in 1 .. c : g[k] = i

\* Every set of positions has such a list.
LEMMA EnumerationExists ==
  ASSUME NEW n \in Nat, NEW K \in SUBSET (1 .. n)
  PROVE  \E c, g : Enumerates(g, c, K)
<1> DEFINE Without == {m \in Nat : \E P \in SUBSET (1 .. m) :
                                     ~\E c, g : Enumerates(g, c, P)}
<1>1. SUFFICES Without = {}
  OBVIOUS
<1>2. SUFFICES ASSUME NEW m \in Without, \A k \in Without : m <= k
               PROVE  FALSE
  <2>1. Without \in SUBSET Nat
    OBVIOUS
  <2> QED
    BY <2>1, LeastNatural
<1>3. PICK P \in SUBSET (1 .. m) : ~\E c, g : Enumerates(g, c, P)
  OBVIOUS
<1>4. m # 0
  <2>1. ASSUME m = 0 PROVE Enumerates(<< >>, 0, P)
    <3>1. P = {} /\ 1 .. 0 = {}
      BY <2>1
    <3>2. << >> \in [1 .. 0 -> P]
      BY <3>1
    <3> QED
      BY <3>1, <3>2 DEF Enumerates
  <2> QED
    BY <1>3, <2>1
<1>5. m - 1 \in Nat /\ m - 1 \notin Without
  BY <1>2, <1>4
<1> DEFINE Q == P \ {m}
<1>6. Q \in SUBSET (1 .. (m - 1))
  BY <1>3, <1>5
<1>7. PICK c, g : Enumerates(g, c, Q)
  BY <1>5, <1>6
<1>8. m \in P
  BY <1>3, <1>7
<1> DEFINE h == [k \in 1 .. (c + 1) |-> IF k = c + 1 THEN m ELSE g[k]]
<1>9. Enumerates(h, c + 1, P)
  <2>1. /\ c \in Nat /\ g \in [1 .. c -> Q]
        /\ \A j, k \in 1 .. c : j < k => g[j] < g[k]
        /\ \A i \in Q : \E k \in 1 .. c : g[k] = i
    BY <1>7 DEF Enumerates
  <2>2. \A k \in 1 .. c : h[k] = g[k] /\ h[k] \in Q /\ h[k] < m
    <3>1. \A i \in Q : i < m
      BY <1>6
    <3> HIDE DEF Q
    <3> QED
      BY <2>1, <3>1
  <2>3. h[c + 1] = m
    BY <2>1
  <2>4. \A k \in 1 .. (c + 1) : k = c + 1 \/ k \in 1 .. c
    BY <2>1
  <2>5. h = [k \in 1 .. (c + 1) |-> h[k]]
    OBVIOUS
  <2> HIDE DEF h, Q
  <2>6. Q \subseteq P
    BY DEF Q
  <2>7. h \in [1 .. (c + 1) -> P]
    BY <1>8, <2>2, <2>3, <2>4, <2>5, <2>6
  <2>8. \A j, k \in 1 .. (c + 1) : j < k => h[j] < h[k]
    BY <2>1, <2>2, <2>3, <2>4
  <2>9. \A i \in P : \E k \in 1 .. (c + 1) : h[k] = i
    <3>1. \A i \in P : i = m \/ i \in Q
      BY DEF Q
    <3>2. c + 1 \in 1 .. (c + 1) /\ 1 .. c \subseteq 1 .. (c + 1)
      BY <2>1
    <3> QED
      BY <2>1, <2>2, <2>3, <3>1, <3>2
  <2> QED
    BY <2>1, <2>7, <2>8, <2>9 DEF Enumerates
<1> QED
  BY <1>3, <1>9

\* And only one, which Nth gives.
LEMMA EnumerationUnique ==
  ASSUME NEW n \in Nat, NEW K \in SUBSET (1 .. n), NEW c, NEW g, Enumerates(g, c, K)
  PROVE  Cardinality(K) = c /\ \A k \in 1 .. c : Nth(K, k) = g[k]
<1>1. /\ c \in Nat /\ g \in [1 .. c -> K]
      /\ \A j, k \in 1 .. c : j < k => g[j] < g[k]
      /\ \A i \in K : \E k \in 1 .. c : g[k] = i
  BY DEF Enumerates
<1>2. K \subseteq Nat
  OBVIOUS
<1>3. \A j, k \in 1 .. c : g[j] = g[k] => j = k
  <2> SUFFICES ASSUME NEW j \in 1 .. c, NEW k \in 1 .. c, g[j] = g[k], j # k
               PROVE  FALSE
    OBVIOUS
  <2>1. j < k \/ k < j
    OBVIOUS
  <2>2. g[j] < g[k] \/ g[k] < g[j]
    BY <1>1, <2>1
  <2>3. g[j] \in Nat /\ g[k] \in Nat
    BY <1>1, <1>2
  <2> QED
    BY <2>2, <2>3
<1>4. ASSUME NEW k \in 1 .. c PROVE RankIn(K, g[k]) = k
  <2> DEFINE U == {j \in K : j <= g[k]}
             h == [m \in 1 .. k |-> g[m]]
  <2>1. \A m \in 1 .. k : m \in 1 .. c /\ h[m] = g[m]
    BY <1>1
  <2>2. \A m \in 1 .. k : g[m] \in U
    <3> TAKE m \in 1 .. k
    <3>1. m \in 1 .. c /\ (m < k \/ m = k)
      BY <2>1
    <3>2. g[m] \in K /\ g[m] \in Nat /\ g[k] \in Nat
      BY <1>1, <1>2, <3>1
    <3>3. g[m] < g[k] \/ g[m] = g[k]
      BY <1>1, <3>1
    <3> QED
      BY <3>2, <3>3
  <2>3. \A j \in U : \E m \in 1 .. k : h[m] = j
    <3> TAKE j \in U
    <3>1. PICK m \in 1 .. c : g[m] = j
      BY <1>1
    <3>2. g[m] <= g[k] /\ g[m] \in Nat /\ g[k] \in Nat
      BY <1>1, <1>2, <3>1
    <3>3. ~(k < m)
      BY <1>1, <3>2
    <3>4. m \in 1 .. k
      BY <1>1, <3>3
    <3> QED
      BY <2>1, <3>1, <3>4
  <2>4. h \in [1 .. k -> U]
    BY <2>2
  <2> HIDE DEF h, U
  <2>5. \A j, m \in 1 .. k : h[j] = h[m] => j = m
    BY <1>3, <2>1
  <2>6. h \in Bijection(1 .. k, U)
    BY <2>3, <2>4, <2>5 DEF Bijection, Injection, IsInjective, Surjection
  <2>7. ExistsBijection(1 .. k, U)
    BY <2>6 DEF ExistsBijection
  <2>8. IsFiniteSet(1 .. k) /\ Cardinality(1 .. k) = k
    BY <1>1, FS_Interval
  <2>9. Cardinality(U) = k
    BY <2>7, <2>8, FS_Bijection
  <2> QED
    BY <2>9 DEF RankIn, U
<1>5. ASSUME NEW k \in 1 .. c PROVE Nth(K, k) = g[k]
  <2>1. g[k] \in K /\ RankIn(K, g[k]) = k
    BY <1>1, <1>4
  <2>2. \A i \in K : RankIn(K, i) = k => i = g[k]
    BY <1>1, <1>4
  <2> QED
    BY <2>1, <2>2 DEF Nth
<1>6. Cardinality(K) = c
  <2>1. g \in Bijection(1 .. c, K)
    BY <1>1, <1>3 DEF Bijection, Injection, IsInjective, Surjection
  <2>2. ExistsBijection(1 .. c, K)
    BY <2>1 DEF ExistsBijection
  <2>3. IsFiniteSet(1 .. c) /\ Cardinality(1 .. c) = c
    BY <1>1, FS_Interval
  <2> QED
    BY <2>2, <2>3, FS_Bijection
<1> QED
  BY <1>5, <1>6

\* r has the elements of s at the positions g lists.
Listed(r, s, c, g) == r = [k \in 1 .. c |-> s[g[k]]]

\* What filtering an array gives, from the list of the kept positions.
LEMMA FilterIs ==
  ASSUME NEW n \in Nat, NEW K \in SUBSET (1 .. n), NEW c, NEW g, Enumerates(g, c, K),
         NEW s
  PROVE  Listed(Filter(s, K), s, c, g)
<1>1. Cardinality(K) = c /\ \A k \in 1 .. c : Nth(K, k) = g[k]
  BY EnumerationUnique
<1> QED
  BY <1>1 DEF Filter, Listed

\* r is q without d leading segments, which are s, and then begins with
\* another one or has one segment.
Drops(r, q, s, d) ==
  /\ d \in Nat /\ d < Len(q)
  /\ r \in Seq(STRING) /\ Len(r) + d = Len(q)
  /\ \A k \in 1 .. Len(r) : r[k] = q[k + d]
  /\ \A i \in 1 .. d : q[i] = s
  /\ Len(r) = 1 \/ r[1] # s

\* What DropLeading leaves out, and what it leaves.
LEMMA DropLeadingIs ==
  ASSUME NEW q \in Seq(STRING), q # << >>, NEW s
  PROVE  \E d : Drops(DropLeading(q, s), q, s, d)
<1> DEFINE stays == {i \in 1 .. Len(q) : i = Len(q) \/ q[i] # s}
           m == CHOOSE i \in stays : \A j \in stays : i <= j
<1>1. Len(q) \in Nat /\ Len(q) # 0
  BY EmptySeq
<1>2. stays \in SUBSET Nat /\ stays # {}
  BY <1>1
<1>3. m \in stays /\ \A j \in stays : m <= j
  <2> HIDE DEF stays
  <2>1. \E i \in stays : \A j \in stays : i <= j
    BY <1>2, LeastNatural
  <2> QED
    BY <2>1
<1>4. DropLeading(q, s) = SubSeq(q, m, Len(q))
  BY DEF DropLeading
<1> HIDE DEF m
<1>5. m \in 1 .. Len(q) /\ (m = Len(q) \/ q[m] # s)
  BY <1>3
<1>6. \A i \in 1 .. (m - 1) : q[i] = s
  <2> TAKE i \in 1 .. (m - 1)
  <2>1. i \in 1 .. Len(q) /\ ~(m <= i)
    BY <1>1, <1>5
  <2>2. i \notin stays
    BY <1>3, <2>1
  <2> QED
    BY <2>1, <2>2
<1>7. /\ SubSeq(q, m, Len(q)) \in Seq(STRING)
      /\ Len(SubSeq(q, m, Len(q))) = Len(q) - m + 1
      /\ \A k \in 1 .. (Len(q) - m + 1) : SubSeq(q, m, Len(q))[k] = q[m + k - 1]
  <2>1. m \in 1 .. (Len(q) + 1) /\ Len(q) \in (m - 1) .. Len(q) /\ m <= Len(q)
    BY <1>1, <1>5
  <2> QED
    BY <1>1, <1>5, <2>1, SubSeqProperties
<1> DEFINE r == DropLeading(q, s)
           d == m - 1
<1>8. d \in Nat /\ d < Len(q) /\ Len(q) - m + 1 = Len(q) - d
  BY <1>1, <1>5
<1>9. r \in Seq(STRING) /\ Len(r) + d = Len(q)
  BY <1>1, <1>4, <1>5, <1>7
<1>10. \A k \in 1 .. Len(r) : r[k] = q[k + d]
  <2> TAKE k \in 1 .. Len(r)
  <2>1. k \in 1 .. (Len(q) - m + 1) /\ m + k - 1 = k + d
    BY <1>1, <1>5, <1>9
  <2> QED
    BY <1>4, <1>7, <2>1
<1>11. Len(r) = 1 \/ r[1] # s
  <2>1. 1 \in 1 .. Len(r) /\ 1 + d = m
    BY <1>1, <1>5, <1>9
  <2>2. r[1] = q[m]
    BY <1>10, <2>1
  <2>3. m = Len(q) => Len(r) = 1
    <3>1. Len(r) \in Nat /\ Len(r) = Len(q) - (m - 1)
      BY <1>1, <1>4, <1>7, LenProperties
    <3> HIDE DEF r, d
    <3>2. ASSUME m = Len(q) PROVE Len(q) - (m - 1) = 1
      BY <1>1, <3>2
    <3> QED
      BY <3>1, <3>2
  <2> QED
    BY <1>5, <2>2, <2>3
<1> QED
  BY <1>6, <1>8, <1>9, <1>10, <1>11 DEF Drops

\* r has the segments of p at increasing positions that end with the last one
\* and leave out nothing but empty segments and dots; only the last segment
\* of r may be empty.
Normalizes(r, p, c, g) ==
  /\ c \in Nat \ {0} /\ g \in [1 .. c -> 1 .. Len(p)]
  /\ \A j, k \in 1 .. c : j < k => g[j] < g[k]
  /\ g[c] = Len(p)
  /\ r \in Seq(STRING) /\ Listed(r, p, c, g)
  /\ \A k \in 1 .. c : k < c => p[g[k]] \notin {"", "."}
  /\ \A i \in 1 .. Len(p) : p[i] \notin {"", "."} => \E k \in 1 .. c : g[k] = i

\* r has the segments of p at increasing positions, the first and the last
\* among them; only these two may be empty, and no other is left out.
Collapses(r, p, c, h) ==
  /\ c \in Nat \ {0} /\ h \in [1 .. c -> 1 .. Len(p)]
  /\ \A j, k \in 1 .. c : j < k => h[j] < h[k]
  /\ h[1] = 1 /\ h[c] = Len(p)
  /\ r \in Seq(STRING) /\ Len(r) = c
  /\ \A k \in 1 .. c : r[k] = p[h[k]]
  /\ \A k \in 1 .. c : p[h[k]] = "" => k \in {1, c}
  /\ \A i \in 1 .. Len(p) : p[i] # "" => \E k \in 1 .. c : h[k] = i

\* The segments repeated slashes leave.
LEMMA CollapseIs ==
  ASSUME NEW p \in Seq(STRING), p # << >>
  PROVE  \E c, h : Collapses(CollapseSlashes(p), p, c, h)
<1> DEFINE n == Len(p)
           K == {i \in DOMAIN p : p[i] # "" \/ i \in {1, Len(p)}}
<1>1. n \in Nat /\ n # 0 /\ DOMAIN p = 1 .. n
  BY EmptySeq
<1>2. /\ K \in SUBSET (1 .. n) /\ 1 \in K /\ n \in K
      /\ \A i \in 1 .. n : p[i] # "" => i \in K
      /\ \A i \in K : p[i] = "" => i \in {1, n}
  <2>1. \A i : i \in K <=> i \in 1 .. n /\ (p[i] # "" \/ i = 1 \/ i = n)
    BY <1>1
  <2> HIDE DEF K, n
  <2>2. 1 \in 1 .. n /\ n \in 1 .. n
    BY <1>1
  <2> QED
    BY <2>1, <2>2
<1>3. CollapseSlashes(p) = Filter(p, K)
  BY DEF CollapseSlashes
<1>4. \A i \in 1 .. n : p[i] \in STRING
  BY <1>1, ElementOfSeq
<1> HIDE DEF K, n
<1>5. PICK c, h : Enumerates(h, c, K)
  BY <1>1, <1>2, EnumerationExists
<1>6. /\ c \in Nat /\ h \in [1 .. c -> K]
      /\ \A j, k \in 1 .. c : j < k => h[j] < h[k]
      /\ \A i \in K : \E k \in 1 .. c : h[k] = i
  BY <1>5 DEF Enumerates
<1> DEFINE r == CollapseSlashes(p)
<1>7. r = [k \in 1 .. c |-> p[h[k]]]
  <2>1. Listed(Filter(p, K), p, c, h)
    BY <1>1, <1>2, <1>5, FilterIs
  <2> QED
    BY <1>3, <2>1 DEF Listed
<1> HIDE DEF r
<1>8. \A k \in 1 .. c : h[k] \in 1 .. n
  BY <1>2, <1>6
<1>9. r \in [1 .. c -> STRING] /\ \A k \in 1 .. c : r[k] = p[h[k]]
  BY <1>4, <1>7, <1>8
<1>10. r \in Seq(STRING) /\ Len(r) = c
  BY <1>6, <1>9
<1>11. c # 0 /\ 1 \in 1 .. c /\ c \in 1 .. c
  <2>1. PICK k \in 1 .. c : h[k] = 1
    BY <1>2, <1>6
  <2> QED
    BY <1>6, <2>1
<1>12. h[1] = 1
  <2>1. PICK k \in 1 .. c : h[k] = 1
    BY <1>2, <1>6
  <2>2. 1 <= h[1] /\ h[1] \in Nat
    BY <1>8, <1>11, <1>1
  <2>3. ~(1 < k)
    BY <1>6, <1>11, <2>1, <2>2
  <2> QED
    BY <2>1, <2>3
<1>13. h[c] = n
  <2>1. PICK k \in 1 .. c : h[k] = n
    BY <1>2, <1>6
  <2>2. h[c] <= n /\ h[c] \in Nat
    BY <1>8, <1>11, <1>1
  <2>3. ~(k < c)
    BY <1>1, <1>6, <1>11, <2>1, <2>2
  <2> QED
    BY <1>6, <2>1, <2>3
<1>14. ASSUME NEW k \in 1 .. c, p[h[k]] = "" PROVE k \in {1, c}
  <2>1. h[k] = 1 \/ h[k] = n
    BY <1>2, <1>6, <1>14
  <2>2. k = 1 \/ 1 < k
    OBVIOUS
  <2>3. k = c \/ k < c
    BY <1>6
  <2>4. 1 < k => h[1] < h[k]
    BY <1>6, <1>11
  <2>5. k < c => h[k] < h[c]
    BY <1>6, <1>11
  <2>6. h[k] \in Nat
    BY <1>1, <1>8
  <2> QED
    BY <1>1, <1>12, <1>13, <2>1, <2>2, <2>3, <2>4, <2>5, <2>6
<1>15. \A i \in 1 .. n : p[i] # "" => \E k \in 1 .. c : h[k] = i
  BY <1>2, <1>6
<1>16. c \in Nat \ {0} /\ h \in [1 .. c -> 1 .. n]
  BY <1>6, <1>8, <1>11
<1>17. Collapses(r, p, c, h)
  BY <1>6, <1>9, <1>10, <1>12, <1>13, <1>14, <1>15, <1>16 DEF Collapses, n
<1> QED
  BY <1>17 DEF r

\* normalizePath, when dots stand at the start of a path only and it does not
\* end with one.
LEMMA NormalizePathIs ==
  ASSUME NEW p \in Seq(STRING), p # << >>, DotsLead(p), Last(p) # "."
  PROVE  \E c, g : Normalizes(NormalizePath(p), p, c, g)
<1> DEFINE n == Len(p)
           q == CollapseSlashes(p)
           q1 == DropLeading(q, ".")
           q2 == DropLeading(q1, "")
<1>1. n \in Nat /\ n # 0 /\ DOMAIN p = 1 .. n /\ p[n] # "."
  BY EmptySeq DEF Last
<1>2. NormalizePath(p) = q2
  BY DEF NormalizePath
<1> HIDE DEF q
<1>3. PICK c, h : Collapses(q, p, c, h)
  BY CollapseIs DEF q
<1>4. /\ c \in Nat \ {0} /\ h \in [1 .. c -> 1 .. n]
      /\ \A j, k \in 1 .. c : j < k => h[j] < h[k]
      /\ h[1] = 1 /\ h[c] = n
      /\ q \in Seq(STRING) /\ Len(q) = c
      /\ \A k \in 1 .. c : q[k] = p[h[k]]
      /\ \A k \in 1 .. c : p[h[k]] = "" => k \in {1, c}
      /\ \A i \in 1 .. n : p[i] # "" => \E k \in 1 .. c : h[k] = i
  BY <1>3 DEF Collapses
<1> HIDE DEF n
<1>c. c \in Nat /\ c # 0 /\ Len(q) = c /\ q \in Seq(STRING)
  BY <1>4
<1>5. q # << >>
  BY <1>c, EmptySeq
<1> HIDE DEF q1
<1>6. PICK d1 : Drops(q1, q, ".", d1)
  BY <1>c, <1>5, DropLeadingIs DEF q1
<1>7. /\ q1 \in Seq(STRING) /\ q1 # << >>
      /\ d1 \in Nat /\ Len(q1) \in Nat \ {0} /\ Len(q1) + d1 = c
  <2>1. d1 \in Nat /\ d1 < Len(q) /\ q1 \in Seq(STRING) /\ Len(q1) + d1 = Len(q)
    BY <1>6 DEF Drops
  <2>2. Len(q1) \in Nat
    BY <2>1, LenProperties
  <2>3. Len(q1) # 0
    BY <1>c, <2>1, <2>2
  <2> QED
    BY <1>c, <2>1, <2>2, <2>3, EmptySeq
<1> HIDE DEF q2
<1>8. PICK d2 : Drops(q2, q1, "", d2)
  BY <1>7, DropLeadingIs DEF q2
<1> DEFINE d == d1 + d2
           e == Len(q2)
           g == [k \in 1 .. e |-> h[k + d]]
<1>9. /\ q2 \in Seq(STRING) /\ d2 \in Nat /\ d \in Nat
      /\ e \in Nat \ {0} /\ e + d2 = Len(q1) /\ e + d = c
  <2>1. d2 \in Nat /\ d2 < Len(q1) /\ q2 \in Seq(STRING) /\ Len(q2) + d2 = Len(q1)
    BY <1>8 DEF Drops
  <2>2. Len(q2) \in Nat
    BY <2>1, LenProperties
  <2> QED
    BY <1>7, <2>1, <2>2
<1>10. /\ \A k \in 1 .. e : g[k] = h[k + d]
       /\ g = [k \in 1 .. e |-> g[k]]
  OBVIOUS
<1>11. \A k \in 1 .. e : k + d \in 1 .. c /\ k + d > d1 /\ q2[k] = q[k + d]
  <2> TAKE k \in 1 .. e
  <2> HIDE DEF e
  <2>1. k + d2 \in 1 .. Len(q1) /\ (k + d2) + d1 = k + d
    BY <1>7, <1>9
  <2>2. q2[k] = q1[k + d2] /\ q1[k + d2] = q[(k + d2) + d1]
    BY <1>6, <1>8, <2>1 DEF Drops, e
  <2>3. k + d \in 1 .. c /\ k + d > d1
    BY <1>c, <1>7, <1>9
  <2> QED
    BY <2>1, <2>2, <2>3
<1> HIDE DEF g, e
<1>12. ASSUME NEW t \in 1 .. c, t > d1, q[t] = "." PROVE t = c
  <2>1. ASSUME NEW i \in 1 .. c, i <= t PROVE q[i] = "."
    <3>1. h[i] \in 1 .. n /\ h[t] \in 1 .. n /\ p[h[t]] = "."
      BY <1>4, <1>12
    <3>2. i < t => h[i] < h[t]
      BY <1>4
    <3>3. i < t => p[h[i]] = "."
      BY <1>1, <3>1, <3>2 DEF DotsLead
    <3>4. i < t \/ i = t
      BY <1>c, <2>1
    <3> QED
      BY <1>4, <1>12, <3>3, <3>4
  <2>2. 1 \in 1 .. Len(q1) /\ 1 + d1 \in 1 .. c /\ 1 + d1 <= t
    BY <1>c, <1>7, <1>12
  <2>3. q1[1] = q[1 + d1]
    BY <1>6, <2>2 DEF Drops
  <2>4. Len(q1) = 1
    BY <1>6, <2>1, <2>2, <2>3 DEF Drops
  <2> QED
    BY <1>c, <1>7, <1>12, <2>4
<1>13. ASSUME NEW k \in 1 .. e, k < e PROVE p[g[k]] \notin {"", "."}
  <2>1. k + d \in 1 .. c /\ k + d > d1 /\ k + d # c
    BY <1>9, <1>11, <1>13
  <2>2. q[k + d] = p[g[k]]
    BY <1>4, <1>10, <2>1
  <2>3. q[k + d] # "."
    BY <1>12, <2>1
  <2>4. ASSUME q[k + d] = "" PROVE FALSE
    <3>1. k + d \in {1, c}
      BY <1>4, <2>1, <2>2, <2>4
    <3>2. k = 1 /\ k + d = 1
      BY <1>9, <2>1, <3>1
    <3>3. q2[1] = ""
      BY <1>11, <2>4, <3>2
    <3>4. Len(q2) = 1
      BY <1>8, <3>3 DEF Drops
    <3> QED
      BY <1>13, <3>2, <3>4 DEF e
  <2> QED
    BY <2>2, <2>3, <2>4
<1>14. ASSUME NEW i \in 1 .. n, p[i] \notin {"", "."}
       PROVE  \E k \in 1 .. e : g[k] = i
  <2>1. PICK t \in 1 .. c : h[t] = i
    BY <1>4, <1>14
  <2>2. q[t] \notin {"", "."}
    BY <1>4, <1>14, <2>1
  <2>3. t \notin 1 .. d1
    BY <1>6, <2>2 DEF Drops
  <2>4. t - d1 \in 1 .. Len(q1) /\ (t - d1) + d1 = t
    BY <1>c, <1>7, <2>3
  <2>5. q1[t - d1] = q[t]
    BY <1>6, <2>4 DEF Drops
  <2>6. t - d1 \notin 1 .. d2
    BY <1>8, <2>2, <2>5 DEF Drops
  <2>7. t - d \in 1 .. e /\ (t - d) + d = t
    BY <1>c, <1>7, <1>9, <2>4, <2>6 DEF d
  <2>8. g[t - d] = h[t]
    BY <1>10, <2>7
  <2> QED
    BY <2>1, <2>7, <2>8
<1> HIDE DEF d
<1>15. g \in [1 .. e -> 1 .. n]
  <2>1. h \in [1 .. c -> 1 .. n]
    BY <1>4
  <2>2. \A k \in 1 .. e : g[k] \in 1 .. n
    BY <1>10, <1>11, <2>1
  <2> QED
    BY <1>10, <2>2
<1>16. \A j, k \in 1 .. e : j < k => g[j] < g[k]
  <2> SUFFICES ASSUME NEW j \in 1 .. e, NEW k \in 1 .. e, j < k PROVE g[j] < g[k]
    OBVIOUS
  <2>1. j + d \in 1 .. c /\ k + d \in 1 .. c /\ j + d < k + d
    BY <1>9, <1>11
  <2> QED
    BY <1>4, <1>10, <2>1
<1>17. g[e] = n
  <2>1. e \in 1 .. e
    BY <1>9
  <2> QED
    BY <1>4, <1>9, <1>10, <2>1
<1>18. Listed(q2, p, e, g)
  <2>1. q2 = [k \in 1 .. e |-> q2[k]]
    BY <1>9 DEF e
  <2>2. \A k \in 1 .. c : q[k] = p[h[k]]
    BY <1>4
  <2>3. \A k \in 1 .. e : q2[k] = p[g[k]]
    BY <1>10, <1>11, <2>2
  <2> QED
    BY <2>1, <2>3 DEF Listed
<1>19. Normalizes(q2, p, e, g)
  <2>1. q2 \in Seq(STRING)
    BY <1>8 DEF Drops
  <2> QED
    BY <1>9, <1>13, <1>14, <1>15, <1>16, <1>17, <1>18, <2>1 DEF Normalizes, n
<1> QED
  BY <1>2, <1>19

\* The path "": one segment, and that is empty.
LEMMA OneSegment ==
  ASSUME NEW x, NEW m, m = <<x>>
  PROVE  Len(m) = 1 /\ m[1] = x
OBVIOUS

LEMMA NotBlank ==
  ASSUME NEW m, m[1] # ""
  PROVE  m # <<"">>
BY OneSegment

LEMMA NoSegment ==
  ASSUME NEW x, NEW m, Len(m) = 0
  PROVE  m # <<x>>
OBVIOUS

\* The positions of the segments that name something.
Plain(p) == {i \in DOMAIN p : p[i] \notin {"", "."}}

\* A file as git names it is not changed by normalizePath but for leading dots
\* and repeated slashes: what is left is what it names.
LEMMA FileMeans ==
  ASSUME NEW p, NamesFile(p)
  PROVE  /\ NormalizePath(p) = Meaning(p) /\ Meaning(p) \in Seq(STRING)
         /\ Meaning(p) # << >> /\ Meaning(p) # <<"">>
<1>1. /\ p \in Seq(STRING) /\ p # << >> /\ DotsLead(p)
      /\ p[Len(p)] \notin {"", "."} /\ Last(p) # "."
  BY DEF NamesFile, Last
<1>2. PICK c, g : Normalizes(NormalizePath(p), p, c, g)
  BY <1>1, NormalizePathIs
<1>3. /\ c \in Nat \ {0} /\ g \in [1 .. c -> 1 .. Len(p)]
      /\ \A j, k \in 1 .. c : j < k => g[j] < g[k]
      /\ g[c] = Len(p)
      /\ \A k \in 1 .. c : k < c => p[g[k]] \notin {"", "."}
      /\ \A i \in 1 .. Len(p) : p[i] \notin {"", "."} => \E k \in 1 .. c : g[k] = i
  BY <1>2 DEF Normalizes
<1>4. NormalizePath(p) \in Seq(STRING) /\ Listed(NormalizePath(p), p, c, g)
  BY <1>2 DEF Normalizes
<1>5. Len(p) \in Nat /\ DOMAIN p = 1 .. Len(p)
  BY <1>1, LenProperties
<1>6. \A k \in 1 .. c : g[k] \in Plain(p)
  <2> TAKE k \in 1 .. c
  <2>0. c \in Nat
    BY <1>2 DEF Normalizes
  <2>1. k < c \/ k = c
    BY <2>0
  <2>2. p[g[k]] \notin {"", "."} /\ g[k] \in 1 .. Len(p)
    BY <1>1, <1>3, <2>1
  <2> QED
    BY <1>5, <2>2 DEF Plain
<1>7. g \in [1 .. c -> Plain(p)]
  BY <1>3, <1>6
<1>8. \A i \in Plain(p) : \E k \in 1 .. c : g[k] = i
  BY <1>3, <1>5 DEF Plain
<1>9. Enumerates(g, c, Plain(p))
  BY <1>3, <1>7, <1>8 DEF Enumerates
<1>10. Plain(p) \in SUBSET (1 .. Len(p))
  BY <1>5 DEF Plain
<1>11. Listed(Filter(p, Plain(p)), p, c, g)
  BY <1>5, <1>9, <1>10, FilterIs
<1>12. NormalizePath(p) = Filter(p, Plain(p))
  BY <1>4, <1>11 DEF Listed
<1>13. Meaning(p) = Filter(p, Plain(p))
  BY DEF Meaning, Plain
<1>14. Len(Meaning(p)) # 0 /\ Meaning(p)[1] # ""
  <2>1. c \in Nat /\ c # 0
    BY <1>2 DEF Normalizes
  <2>2. 1 \in 1 .. c
    BY <2>1
  <2>3. Meaning(p) = [k \in 1 .. c |-> p[g[k]]]
    BY <1>11, <1>13 DEF Listed
  <2>4. Meaning(p)[1] = p[g[1]] /\ 1 \in DOMAIN Meaning(p)
    BY <2>2, <2>3
  <2>5. p[g[1]] # ""
    BY <1>6, <2>2 DEF Plain
  <2>6. Meaning(p) \in Seq(STRING)
    BY <1>4, <1>12, <1>13
  <2>7. Len(Meaning(p)) \in Nat /\ 1 \in 1 .. Len(Meaning(p))
    BY <2>4, <2>6, LenProperties
  <2>8. Len(Meaning(p)) # 0
    BY <2>7
  <2> QED
    BY <2>4, <2>5, <2>8
<1>15. Meaning(p) # << >> /\ Meaning(p) # <<"">>
  <2>1. Meaning(p) # << >>
    <3>1. \A m : Len(m) # 0 => m # << >>
      OBVIOUS
    <3> QED
      BY <1>14, <3>1
  <2>2. Meaning(p) # <<"">>
    BY <1>14, NotBlank
  <2> QED
    BY <2>1, <2>2
<1> QED
  BY <1>4, <1>12, <1>13, <1>15

\* A root is written with or without its leading dots and trailing slash:
\* normalizeRoot leaves what it names.
LEMMA RootMeans ==
  ASSUME NEW p, NamesDirectory(p)
  PROVE  /\ NormalizeRoot(p) = Meaning(p) /\ Meaning(p) \in Seq(STRING)
         /\ Meaning(p) # <<"">>
<1>1. /\ p \in Seq(STRING) /\ p # << >> /\ DotsLead(p)
      /\ p[Len(p)] # "." /\ Last(p) # "."
  BY DEF NamesDirectory, Last
<1> DEFINE q == NormalizePath(p)
<1>2. PICK c, g : Normalizes(q, p, c, g)
  BY <1>1, NormalizePathIs
<1>3. /\ c \in Nat \ {0} /\ g \in [1 .. c -> 1 .. Len(p)]
      /\ \A j, k \in 1 .. c : j < k => g[j] < g[k]
      /\ g[c] = Len(p)
      /\ \A k \in 1 .. c : k < c => p[g[k]] \notin {"", "."}
      /\ \A i \in 1 .. Len(p) : p[i] \notin {"", "."} => \E k \in 1 .. c : g[k] = i
  BY <1>2 DEF Normalizes
<1>c. c \in Nat /\ c # 0 /\ c \in 1 .. c
  <2>1. c \in Nat /\ c # 0
    BY <1>2 DEF Normalizes
  <2> QED
    BY <2>1
<1>4. q \in Seq(STRING) /\ Listed(q, p, c, g)
  BY <1>2 DEF Normalizes
<1>5. Len(p) \in Nat /\ DOMAIN p = 1 .. Len(p)
  BY <1>1, LenProperties
<1>6. Len(q) = c /\ q = [k \in 1 .. c |-> p[g[k]]]
  <2>1. q = [k \in 1 .. c |-> p[g[k]]]
    BY <1>4 DEF Listed
  <2> HIDE DEF q
  <2>2. DOMAIN q = 1 .. c
    BY <2>1
  <2> QED
    BY <1>c, <1>4, <2>1, <2>2, LenProperties
<1> HIDE DEF q
<1>7. q # << >> /\ Last(q) = p[Len(p)]
  <2>1. q[c] = p[g[c]]
    BY <1>c, <1>6
  <2> QED
    BY <1>c, <1>3, <1>4, <1>6, <2>1, EmptySeq DEF Last
<1> DEFINE b == IF p[Len(p)] = "" THEN c - 1 ELSE c
           f == [k \in 1 .. b |-> g[k]]
           r == NormalizeRoot(p)
<1>b. /\ p[Len(p)] = "" => b = c - 1
      /\ p[Len(p)] # "" => b = c
  OBVIOUS
<1>f. f = [k \in 1 .. b |-> f[k]] /\ \A k \in 1 .. b : f[k] = g[k]
  OBVIOUS
<1> HIDE DEF b, f
<1>8. b \in Nat /\ b <= c /\ \A k \in 1 .. b : k \in 1 .. c
  <2>1. b = c - 1 \/ b = c
    BY <1>b
  <2> QED
    BY <1>c, <2>1
<1>9. r \in Seq(STRING) /\ Listed(r, p, b, f)
  <2>1. CASE p[Len(p)] = ""
    <3>1. r = SubSeq(q, 1, c - 1)
      BY <1>6, <1>7, <2>1 DEF NormalizeRoot, Front, q
    <3> HIDE DEF r
    <3>2. /\ 1 \in Int /\ c - 1 \in Int /\ (1 <= c - 1 \/ c - 1 = 0)
          /\ \A i \in 1 .. (c - 1) : i \in 1 .. Len(q)
      BY <1>c, <1>6
    <3>3. \A i \in 1 .. (c - 1) : q[i] \in STRING
      BY <1>4, <3>2, ElementOfSeq
    <3>4. /\ r \in Seq(STRING)
          /\ Len(r) = IF 1 <= c - 1 THEN (c - 1) - 1 + 1 ELSE 0
          /\ \A i \in 1 .. ((c - 1) - 1 + 1) : r[i] = q[1 + i - 1]
      BY <3>1, <3>2, <3>3, SubSeqProperties
    <3>5. b = c - 1
      BY <1>b, <2>1
    <3>11. (c - 1) - 1 + 1 = c - 1 /\ \A i \in 1 .. (c - 1) : 1 + i - 1 = i
      BY <1>c
    <3>6. Len(r) = b /\ \A i \in 1 .. b : r[i] = q[i]
      BY <1>c, <3>2, <3>4, <3>5, <3>11
    <3>7. r = [k \in 1 .. b |-> r[k]]
      BY <3>4, <3>6, LenProperties
    <3>9. \A k \in 1 .. b : q[k] = p[g[k]]
      BY <1>6, <1>8
    <3>10. \A k \in 1 .. b : r[k] = p[f[k]]
      BY <1>f, <3>6, <3>9
    <3> QED
      BY <3>4, <3>7, <3>10 DEF Listed
  <2>2. CASE p[Len(p)] # ""
    <3>1. r = q
      BY <1>7, <2>2 DEF NormalizeRoot, q
    <3>2. b = c
      BY <1>b, <2>2
    <3>3. f = g
      BY <1>3, <1>f, <3>2
    <3> HIDE DEF r
    <3> QED
      BY <1>4, <3>1, <3>2, <3>3
  <2> QED
    BY <2>1, <2>2
<1>10. ASSUME NEW k \in 1 .. b PROVE f[k] = g[k] /\ g[k] \in Plain(p)
  <2>1. f[k] = g[k]
    BY <1>f
  <2>2. k \in 1 .. c
    BY <1>8
  <2>3. k < c \/ (k = c /\ p[Len(p)] # "")
    <3>1. k = c => b # c - 1
      BY <1>c, <1>8
    <3>2. k < c \/ k = c
      BY <1>c, <2>2
    <3> QED
      BY <1>b, <3>1, <3>2
  <2>4. p[g[k]] \notin {"", "."} /\ g[k] \in 1 .. Len(p)
    BY <1>1, <1>3, <2>2, <2>3
  <2> QED
    BY <1>5, <2>1, <2>4 DEF Plain
<1>11. \A i \in Plain(p) : \E k \in 1 .. b : f[k] = i
  <2> TAKE i \in Plain(p)
  <2>1. i \in 1 .. Len(p) /\ p[i] \notin {"", "."}
    BY <1>5 DEF Plain
  <2>2. PICK k \in 1 .. c : g[k] = i
    BY <1>3, <2>1
  <2>3. k = c => p[Len(p)] # ""
    BY <1>3, <2>1, <2>2
  <2>4. k \in 1 .. b
    <3>1. k # c \/ b = c
      BY <1>b, <2>3
    <3>2. b = c \/ b = c - 1
      BY <1>b
    <3> QED
      BY <1>c, <3>1, <3>2
  <2> QED
    BY <1>10, <2>2, <2>4
<1> HIDE DEF r
<1>12. Enumerates(f, b, Plain(p))
  <2>1. f \in [1 .. b -> Plain(p)]
    BY <1>10, <1>f
  <2>2. \A j, k \in 1 .. b : j < k => f[j] < f[k]
    BY <1>3, <1>8, <1>10
  <2> QED
    BY <1>8, <1>11, <2>1, <2>2 DEF Enumerates
<1>13. Plain(p) \in SUBSET (1 .. Len(p))
  BY <1>5 DEF Plain
<1>14. Listed(Filter(p, Plain(p)), p, b, f)
  BY <1>5, <1>12, <1>13, FilterIs
<1>15. r = Filter(p, Plain(p))
  BY <1>9, <1>14 DEF Listed
<1>16. Meaning(p) = Filter(p, Plain(p))
  BY DEF Meaning, Plain
<1>17. r # <<"">>
  <2>1. r = [k \in 1 .. b |-> p[f[k]]]
    BY <1>9 DEF Listed
  <2>2. Len(r) = b
    BY <1>8, <1>9, <2>1, LenProperties
  <2>3. ASSUME b # 0 PROVE r[1] # ""
    <3>1. 1 \in 1 .. b
      BY <1>8, <2>3
    <3>2. r[1] = p[f[1]]
      BY <2>1, <3>1
    <3>3. p[f[1]] # ""
      BY <1>10, <3>1 DEF Plain
    <3> QED
      BY <3>2, <3>3
  <2>4. CASE b = 0
    BY <2>2, <2>4, NoSegment
  <2>5. CASE b # 0
    BY <2>3, <2>5, NotBlank
  <2> QED
    BY <2>4, <2>5
<1> QED
  BY <1>9, <1>15, <1>16, <1>17 DEF r

\* startsWith on the normalized paths is what it means to lie below a root.
LEMMA UnderIsBelow ==
  ASSUME NEW p, NamesFile(p), NEW roots, \A r \in roots : NamesDirectory(r)
  PROVE  Under(NormalizePath(p), roots) <=> Below(p, roots)
<1> DEFINE q == NormalizePath(p)
<1>1. q = Meaning(p) /\ q \in Seq(STRING)
  BY FileMeans
<1> HIDE DEF q
<1>2. ASSUME NEW raw \in roots
      PROVE  (/\ ~EmptyPath(NormalizeRoot(raw))
              /\ Len(q) > Len(NormalizeRoot(raw))
              /\ IsPrefix(NormalizeRoot(raw), q))
             <=> (Meaning(raw) # << >> /\ IsStrictPrefix(Meaning(raw), q))
  <2> DEFINE r == Meaning(raw)
  <2>1. NormalizeRoot(raw) = r /\ r \in Seq(STRING) /\ r # <<"">>
    BY RootMeans
  <2> HIDE DEF r
  <2>2. EmptyPath(r) <=> r = << >>
    BY <2>1 DEF EmptyPath
  <2>3. Len(r) \in Nat /\ Len(q) \in Nat
    BY <1>1, <2>1, LenProperties
  <2>4. SubSeq(r, 1, Len(r)) = r /\ SubSeq(q, 1, Len(q)) = q
    BY <1>1, <2>1, SubSeqFull
  <2>5. IsPrefix(r, q) => (Len(q) > Len(r) <=> r # q)
    <3> SUFFICES ASSUME IsPrefix(r, q) PROVE Len(q) > Len(r) <=> r # q
      OBVIOUS
    <3>1. Len(r) <= Len(q) /\ SubSeq(r, 1, Len(r)) = SubSeq(q, 1, Len(r))
      BY DEF IsPrefix
    <3>2. ASSUME Len(r) = Len(q) PROVE r = q
      BY <2>4, <3>1, <3>2
    <3>3. Len(q) > Len(r) <=> Len(r) # Len(q)
      BY <2>3, <3>1
    <3> QED
      BY <3>2, <3>3
  <2> QED
    BY <2>1, <2>2, <2>5 DEF IsStrictPrefix, r
<1>3. Under(q, roots) <=>
        \E raw \in roots : /\ ~EmptyPath(NormalizeRoot(raw))
                           /\ Len(q) > Len(NormalizeRoot(raw))
                           /\ IsPrefix(NormalizeRoot(raw), q)
  BY DEF Under
<1>4. Below(p, roots) <=>
        \E raw \in roots : Meaning(raw) # << >> /\ IsStrictPrefix(Meaning(raw), q)
  BY <1>1 DEF Below
<1> QED
  BY <1>2, <1>3, <1>4 DEF q

\* checkReadAccess and checkWriteAccess decide as the documentation of the file
\* scope policy says, whatever their order of tests.
THEOREM AccessAsDocumented ==
  ASSUME NEW p, NamesFile(p), NEW policy, WellFormedScope(policy)
  PROVE  /\ CheckReadAccess(p, policy).allowed <=> ReadPermitted(p, policy)
         /\ CheckWriteAccess(p, policy).allowed <=> WritePermitted(p, policy)
<1> DEFINE q == NormalizePath(p)
           deny == Under(q, policy.deny_roots)
           write == Under(q, policy.write_roots)
           read == Under(q, policy.read_roots)
<1>1. Meaning(p) # << >> /\ ~EmptyPath(q)
  BY FileMeans DEF EmptyPath
<1>2. /\ deny <=> Below(p, policy.deny_roots)
      /\ write <=> Below(p, policy.write_roots)
      /\ read <=> Below(p, policy.read_roots)
  <2>1. /\ \A r \in policy.deny_roots : NamesDirectory(r)
        /\ \A r \in policy.write_roots : NamesDirectory(r)
        /\ \A r \in policy.read_roots : NamesDirectory(r)
    BY DEF WellFormedScope
  <2> QED
    BY <2>1, UnderIsBelow
<1> DEFINE match == ClassifyPath(q, policy)
<1>3. /\ match = "deny_root" <=> deny
      /\ match = "read_root" <=> ~deny /\ ~write /\ read
      /\ match = "outside" <=> ~deny /\ ~write /\ ~read
  BY DEF ClassifyPath
<1> HIDE DEF deny, write, read
<1>4. CheckReadAccess(p, policy).allowed <=>
        ~deny /\ (match # "outside" \/ policy.allow_read_outside_scope)
  BY <1>1, <1>3 DEF CheckReadAccess
<1>5. CheckWriteAccess(p, policy).allowed <=>
        /\ ~deny /\ match # "read_root"
        /\ match # "outside" \/ policy.allow_write_outside_scope
  BY <1>1, <1>3 DEF CheckWriteAccess
<1> HIDE DEF match, q
<1>6. ReadPermitted(p, policy) <=>
        ~deny /\ (write \/ read \/ policy.allow_read_outside_scope)
  BY <1>1, <1>2 DEF ReadPermitted
<1>7. WritePermitted(p, policy) <=>
        ~deny /\ (write \/ (~read /\ policy.allow_write_outside_scope))
  BY <1>1, <1>2 DEF WritePermitted
<1> QED
  BY <1>3, <1>4, <1>5, <1>6, <1>7

-----------------------------------------------------------------------------
(* The inductive invariant                                                 *)

Contents == [run : Nat, defect : Defects \cup {"absent", "garbled"}]
CheckStatuses == {"passed", "failed", "error", "skipped"}

\* The parts of the state the argument looks into.
OutcomeTypeOK ==
  /\ layers \in Layers
  /\ run \in Nat
  /\ file \in Contents /\ stdout \in Contents
  /\ latest = [p \in ProfileNames |-> latest[p]]

\* A snapshot's policies have the shape the schemas ask for.
SnapshotWellFormed == snap # NoSnapshot => WellFormedPolicies(snap.policies)

\* It holds what resolveConfig made of layers that were configured then.
SnapshotResolved ==
  snap # NoSnapshot =>
    /\ snap.layers \in Layers /\ ValidLayerOrder(snap.layers)
    /\ snap.resolved = ResolveConfig(snap.layers)
    /\ snap.policies = ExtractValues(snap.resolved)

\* Only a run that got its snapshot ends, and only one that exited on its own
\* has its output accepted.
AcceptedRunHasPolicies ==
  /\ worker \in {"exited", "crashed"} => snap # NoSnapshot
  /\ verdict = "accepted" => worker = "exited"

\* The recovery in progress is a record and points to stored artifacts.
RecoveryResolves ==
  /\ refs \subseteq store
  /\ recovery # NoRecovery =>
       /\ recovery = [step |-> recovery.step, refs |-> recovery.refs]
       /\ recovery.refs \subseteq store

\* A check's outcome: skipped without a command, passed only if permitted.
OutcomeJustified(v, i) ==
  IF GetAllChecks(v.spec)[i] \in DOMAIN v.spec.commands
  THEN /\ v.outcomes[i] \in {"passed", "failed", "error"}
       /\ v.outcomes[i] = "passed" =>
            Permitted(v.spec.commands[GetAllChecks(v.spec)[i]], v.policy)
  ELSE v.outcomes[i] = "skipped"

ValidationRunOK(v) ==
  /\ v = [profile |-> v.profile, spec |-> v.spec, policy |-> v.policy,
          outcomes |-> v.outcomes]
  /\ WellFormedProfile(v.spec)
  /\ WellFormedCommandPolicy(v.policy)
  /\ v.outcomes \in Seq(CheckStatuses)
  /\ \A i \in 1 .. Len(v.outcomes) : OutcomeJustified(v, i)

\* The run in progress, and the one the gate will look at.
ValidationJustified ==
  /\ vrun # NoValidation => ValidationRunOK(vrun)
  /\ latest["default-dev"].status = "passed" => Green(latest["default-dev"])

OutcomeInv ==
  /\ OutcomeTypeOK
  /\ SnapshotWellFormed
  /\ SnapshotResolved
  /\ AcceptedRunHasPolicies
  /\ RecoveryResolves
  /\ ValidationJustified

\* What may stand in the result file or between the delimiters.
LEMMA ContentTypes ==
  /\ NoContent \in Contents
  /\ Garbled \in Contents
  /\ \A n \in Nat, d \in Defects : [run |-> n, defect |-> d] \in Contents
BY DEF NoContent, Garbled, Contents, Defects

LEMMA OutcomeInvInitial == Init => OutcomeInv
<1> SUFFICES ASSUME Init PROVE OutcomeInv
  OBVIOUS
<1> USE DEF Init
<1>1. OutcomeTypeOK
  BY OutcomeAssumption, ContentTypes DEF OutcomeTypeOK
<1>2. latest["default-dev"].status = "none"
  BY DEF ProfileNames, NoResult
<1> QED
  BY <1>1, <1>2 DEF OutcomeInv, SnapshotWellFormed, SnapshotResolved,
     AcceptedRunHasPolicies, RecoveryResolves, ValidationJustified

-----------------------------------------------------------------------------
(* Each part of the invariant is preserved                                 *)

\* extractPacket and what the worker leaves are contents.
LEMMA TypeKept ==
  ASSUME OutcomeInv, [Next]_vars
  PROVE  OutcomeTypeOK'
<1> USE DEF OutcomeInv, OutcomeTypeOK
<1>1. CASE WorkerEnds
  <2>1. file' \in Contents
    BY <1>1, ContentTypes DEF WorkerEnds
  <2>2. stdout' \in Contents
    BY <1>1, ContentTypes DEF WorkerEnds, Defects
  <2> QED
    BY <1>1, <2>1, <2>2 DEF WorkerEnds, configVars, validationVars
<1>2. CASE BeginRun
  <2>1. stdout' \in Contents /\ run' \in Nat
    BY <1>2, ContentTypes DEF BeginRun
  <2> QED
    BY <1>2, <2>1 DEF BeginRun, configVars, validationVars
<1>3. CASE FinishValidation
  BY <1>3 DEF FinishValidation, configVars, outputVars
<1>4. CASE Configure
  BY <1>4 DEF Configure, outputVars, validationVars
<1>5. CASE \/ GeneratePolicySnapshot \/ ValidateOutput \/ StoreLog
           \/ RecoverFromCrash \/ RecordRefs
  BY <1>5 DEF GeneratePolicySnapshot, ValidateOutput, StoreLog, RecoverFromCrash,
     RecordRefs, configVars, outputVars, validationVars
<1>6. CASE Capture \/ CaptureSkips \/ NothingCaptured
  BY <1>6 DEF Capture, CaptureSkips, NothingCaptured, Capturing, configVars,
     outputVars, validationVars
<1>7. CASE Restart \/ StartValidation \/ RunCheck \/ CompleteDevelopment
  BY <1>7 DEF Restart, StartValidation, RunCheck, CompleteDevelopment,
     configVars, outputVars, validationVars
<1>8. CASE UNCHANGED vars
  BY <1>8 DEF vars, configVars, outputVars, validationVars
<1> QED
  BY <1>1, <1>2, <1>3, <1>4, <1>5, <1>6, <1>7, <1>8 DEF Next

\* generatePolicySnapshot is the only step that makes a snapshot.
LEMMA SnapshotKept ==
  ASSUME OutcomeInv, [Next]_vars
  PROVE  SnapshotWellFormed' /\ SnapshotResolved'
<1> USE DEF SnapshotWellFormed, SnapshotResolved
<1>1. CASE GeneratePolicySnapshot
  <2>1. ValidLayerOrder(layers) /\ layers \in Layers
    BY <1>1 DEF GeneratePolicySnapshot, OutcomeInv, OutcomeTypeOK
  <2>2. WellFormedPolicies(ExtractValues(ResolveConfig(layers)))
    BY <2>1, ConfigAssumption
  <2>3. /\ snap'.policies = ExtractValues(ResolveConfig(layers))
        /\ snap'.resolved = ResolveConfig(layers)
        /\ snap'.layers = layers
    BY <1>1 DEF GeneratePolicySnapshot, AssembleSnapshot
  <2> QED
    BY <2>1, <2>2, <2>3
<1>2. CASE BeginRun
  BY <1>2 DEF BeginRun
<1>3. ASSUME snap' = snap PROVE SnapshotWellFormed' /\ SnapshotResolved'
  BY <1>3 DEF OutcomeInv
<1>4. ASSUME Next, ~GeneratePolicySnapshot, ~BeginRun PROVE snap' = snap
  BY <1>4 DEF Next, Configure, WorkerEnds, ValidateOutput, StoreLog,
     RecoverFromCrash, Capture, CaptureSkips, NothingCaptured, Capturing,
     RecordRefs, Restart, StartValidation, RunCheck, FinishValidation,
     CompleteDevelopment
<1> QED
  BY <1>1, <1>2, <1>3, <1>4 DEF vars

\* Only recoverFromCrash, its steps and validateOutput give a verdict, and
\* only validateOutput accepts.
LEMMA AcceptedRunKept ==
  ASSUME OutcomeInv, [Next]_vars
  PROVE  AcceptedRunHasPolicies'
<1> USE DEF OutcomeInv, AcceptedRunHasPolicies
<1>1. CASE BeginRun
  BY <1>1 DEF BeginRun
<1>2. CASE GeneratePolicySnapshot
  BY <1>2 DEF GeneratePolicySnapshot, verdictVars
<1>3. CASE WorkerEnds
  BY <1>3 DEF WorkerEnds, verdictVars
<1>4. CASE ValidateOutput
  BY <1>4 DEF ValidateOutput
<1>5. CASE RecoverFromCrash
  BY <1>5 DEF RecoverFromCrash
<1>6. CASE Capture \/ CaptureSkips \/ NothingCaptured \/ RecordRefs
  BY <1>6 DEF Capture, CaptureSkips, NothingCaptured, Capturing, RecordRefs
<1>7. CASE \/ Configure \/ StoreLog \/ Restart \/ StartValidation \/ RunCheck
           \/ FinishValidation \/ CompleteDevelopment
  BY <1>7 DEF Configure, StoreLog, Restart, StartValidation, RunCheck,
     FinishValidation, CompleteDevelopment, verdictVars
<1>8. CASE UNCHANGED vars
  BY <1>8 DEF vars, verdictVars
<1> QED
  BY <1>1, <1>2, <1>3, <1>4, <1>5, <1>6, <1>7, <1>8 DEF Next

\* A reference is noted in the step that stored the file, and what is stored
\* stays until the next run.
LEMMA RecoveryKept ==
  ASSUME OutcomeInv, [Next]_vars
  PROVE  RecoveryResolves'
<1> USE DEF OutcomeInv, RecoveryResolves
<1>1. CASE BeginRun
  BY <1>1 DEF BeginRun
<1>2. CASE StoreLog
  BY <1>2 DEF StoreLog, StoreArtifact
<1>3. CASE RecoverFromCrash
  BY <1>3 DEF RecoverFromCrash
<1>4. CASE Capture
  <2>1. PICK stored \in BOOLEAN :
          /\ store' = StoreArtifact(store, recovery.step, stored)
          /\ recovery' = [step |-> NextStep(recovery.step),
                          refs |-> recovery.refs \union CaptureRef(stored)]
    BY <1>4 DEF Capture
  <2>2. recovery # NoRecovery /\ refs' = refs
    BY <1>4 DEF Capture, Capturing
  <2>3. /\ store \subseteq store'
        /\ CaptureRef(stored) \subseteq store'
    BY <2>1 DEF StoreArtifact, CaptureRef
  <2>4. /\ recovery'.refs = recovery.refs \union CaptureRef(stored)
        /\ recovery' = [step |-> recovery'.step, refs |-> recovery'.refs]
    BY <2>1
  <2> QED
    BY <2>2, <2>3, <2>4
<1>5. CASE CaptureSkips
  <2>1. /\ recovery # NoRecovery /\ refs' = refs /\ store' = store
        /\ recovery' = [recovery EXCEPT !.step = NextStep(@)]
    BY <1>5 DEF CaptureSkips, Capturing
  <2>2. recovery' = [step |-> NextStep(recovery.step), refs |-> recovery.refs]
    BY <2>1
  <2> QED
    BY <2>1, <2>2
<1>6. CASE NothingCaptured \/ RecordRefs \/ Restart
  BY <1>6 DEF NothingCaptured, Capturing, RecordRefs, Restart
<1>7. CASE \/ Configure \/ GeneratePolicySnapshot \/ WorkerEnds
           \/ ValidateOutput \/ StartValidation \/ RunCheck
           \/ FinishValidation \/ CompleteDevelopment
  BY <1>7 DEF Configure, GeneratePolicySnapshot, WorkerEnds, ValidateOutput,
     StartValidation, RunCheck, FinishValidation, CompleteDevelopment, storeVars
<1>8. CASE UNCHANGED vars
  BY <1>8 DEF vars, storeVars
<1> QED
  BY <1>1, <1>2, <1>3, <1>4, <1>5, <1>6, <1>7, <1>8 DEF Next

\* executeCheck: a check passes only with a command its policy permits.
LEMMA CheckOutcome ==
  ASSUME NEW command, command.tokens \in Seq(STRING),
         NEW policy, WellFormedCommandPolicy(policy), NEW exitCode
  PROVE  /\ ExecuteCheck(command, policy, exitCode) \in {"passed", "failed", "error"}
         /\ ExecuteCheck(command, policy, exitCode) = "passed" =>
              Permitted(command, policy)
<1>1. ExecuteCheck(command, policy, exitCode) \in {"passed", "failed", "error"}
  BY DEF ExecuteCheck
<1>2. ASSUME ExecuteCheck(command, policy, exitCode) = "passed"
      PROVE  EvaluateCommandPolicy(command, policy).allowed
  <2>1. ExecuteCommand(command, policy, exitCode) = "completed"
    BY <1>2 DEF ExecuteCheck
  <2> QED
    BY <2>1 DEF ExecuteCommand
<1> QED
  BY <1>1, <1>2, AllowedIsPermitted

\* getAllChecks puts the required checks first.
LEMMA RequiredFirst ==
  ASSUME NEW profile, WellFormedProfile(profile)
  PROVE  /\ Len(profile.required_checks) \in Nat
         /\ Len(GetAllChecks(profile)) \in Nat
         /\ Len(profile.required_checks) <= Len(GetAllChecks(profile))
         /\ \A i \in 1 .. Len(profile.required_checks) :
              GetAllChecks(profile)[i] = profile.required_checks[i]
<1> DEFINE r == profile.required_checks
           o == profile.optional_checks
<1>1. r \in Seq(STRING) /\ o \in Seq(STRING)
  BY DEF WellFormedProfile
<1>2. GetAllChecks(profile) = r \o o
  BY DEF GetAllChecks
<1> HIDE DEF r, o
<1>3. /\ Len(r) \in Nat /\ Len(o) \in Nat
      /\ Len(r \o o) = Len(r) + Len(o)
      /\ \A i \in 1 .. Len(r) : (r \o o)[i] = r[i]
  BY <1>1, ConcatProperties, LenProperties
<1> QED
  BY <1>2, <1>3 DEF r

\* The verdict of a finished run is green only over green required checks.
LEMMA PassedIsGreen ==
  ASSUME NEW v, ValidationRunOK(v),
         Len(v.outcomes) = Len(GetAllChecks(v.spec)),
         ComputeOverallStatus(v) = "passed"
  PROVE  Green(ValidationResult(v))
<1> DEFINE result == ValidationResult(v)
<1>1. /\ result.spec = v.spec /\ result.policy = v.policy
      /\ result.status = "passed"
      /\ result.packet.status = "success"
      /\ result.packet.checks = [i \in DOMAIN v.outcomes |-> MapCheckStatus(v.outcomes[i])]
  BY DEF ValidationResult, EmitPacket
<1>2. result # NoResult
  BY <1>1 DEF NoResult
<1>3. ASSUME NEW i \in 1 .. Len(v.spec.required_checks)
      PROVE  IF v.spec.required_checks[i] \in DOMAIN v.spec.commands
             THEN /\ result.packet.checks[i] = "passed"
                  /\ Permitted(v.spec.commands[v.spec.required_checks[i]], v.policy)
             ELSE ~v.spec.fail_on_skipped_required_check
  <2>1. /\ Len(v.spec.required_checks) \in Nat
        /\ Len(v.spec.required_checks) <= Len(v.outcomes)
        /\ Len(v.outcomes) \in Nat
        /\ GetAllChecks(v.spec)[i] = v.spec.required_checks[i]
    BY RequiredFirst DEF ValidationRunOK
  <2>2. i \in 1 .. Len(v.outcomes)
    BY <2>1
  <2>3. i \in DOMAIN v.outcomes /\ i <= Len(v.spec.required_checks)
    BY <2>1, <2>2 DEF ValidationRunOK
  <2>4. i \in RequiredOutcomes(v)
    BY <2>3 DEF RequiredOutcomes
  <2>5. /\ v.outcomes[i] \notin FailingStatuses
        /\ v.spec.fail_on_skipped_required_check => v.outcomes[i] # "skipped"
    BY <2>4 DEF ComputeOverallStatus
  <2>6. OutcomeJustified(v, i)
    BY <2>2 DEF ValidationRunOK
  <2>7. CASE v.spec.required_checks[i] \in DOMAIN v.spec.commands
    <3>1. /\ v.outcomes[i] = "passed"
          /\ Permitted(v.spec.commands[v.spec.required_checks[i]], v.policy)
      BY <2>1, <2>5, <2>6, <2>7 DEF OutcomeJustified, FailingStatuses
    <3>2. result.packet.checks[i] = "passed"
      BY <1>1, <2>3, <3>1 DEF MapCheckStatus
    <3> QED
      BY <2>7, <3>1, <3>2
  <2>8. CASE v.spec.required_checks[i] \notin DOMAIN v.spec.commands
    BY <2>1, <2>5, <2>6, <2>8 DEF OutcomeJustified
  <2> QED
    BY <2>7, <2>8
<1> HIDE DEF result
<1>4. Green(result)
  BY <1>1, <1>2, <1>3 DEF Green
<1> QED
  BY <1>4 DEF result

\* A validation run keeps the policy and the profile it started with.
LEMMA ValidationKept ==
  ASSUME OutcomeInv, [Next]_vars
  PROVE  ValidationJustified'
<1> USE DEF OutcomeInv, ValidationJustified
<1>1. CASE StartValidation
  <2>1. /\ vrun' = NoValidation \/ ValidationRunOK(vrun')
    <3>1. PICK context \in SelectionContexts :
            /\ SelectProfile(context) # "none"
            /\ vrun' = [profile |-> SelectProfile(context),
                        spec |-> Profiles[SelectProfile(context)],
                        policy |-> snap.policies["command_policy"],
                        outcomes |-> << >>]
      BY <1>1 DEF StartValidation
    <3>2. SelectProfile(context) \in DOMAIN Profiles
      BY <3>1 DEF SelectProfile
    <3>3. snap # NoSnapshot
      BY <1>1 DEF StartValidation, AcceptedRunHasPolicies
    <3>4. /\ WellFormedCommandPolicy(snap.policies["command_policy"])
          /\ WellFormedProfile(Profiles[SelectProfile(context)])
      BY <3>2, <3>3 DEF SnapshotWellFormed, WellFormedPolicies, Profiles
    <3>5. << >> \in Seq(CheckStatuses) /\ Len(<< >>) = 0
      BY EmptySeq
    <3> QED
      BY <3>1, <3>4, <3>5 DEF ValidationRunOK
  <2>2. latest' = latest
    BY <1>1 DEF StartValidation
  <2> QED
    BY <2>1, <2>2
<1>2. CASE RunCheck
  <2>1. /\ vrun # NoValidation
        /\ ValidationRunOK(vrun)
        /\ latest' = latest
        /\ Len(vrun.outcomes) < Len(GetAllChecks(vrun.spec))
    BY <1>2 DEF RunCheck
  <2>2. PICK status \in
               IF NextCheck \notin DOMAIN vrun.spec.commands THEN {"skipped"}
               ELSE {ExecuteCheck(vrun.spec.commands[NextCheck], vrun.policy, x) :
                       x \in ExitCodes}
                    \union {"error"} :
          vrun' = [vrun EXCEPT !.outcomes = Append(@, status)]
    BY <1>2 DEF RunCheck
  <2>3. IF NextCheck \in DOMAIN vrun.spec.commands
        THEN /\ status \in {"passed", "failed", "error"}
             /\ status = "passed" =>
                  Permitted(vrun.spec.commands[NextCheck], vrun.policy)
        ELSE status = "skipped"
    <3>1. CASE NextCheck \in DOMAIN vrun.spec.commands
      <4>1. /\ vrun.spec.commands[NextCheck].tokens \in Seq(STRING)
            /\ WellFormedCommandPolicy(vrun.policy)
        BY <2>1, <3>1 DEF ValidationRunOK, WellFormedProfile
      <4>2. CASE status = "error"
        BY <3>1, <4>2
      <4>3. ASSUME NEW x \in ExitCodes,
                   status = ExecuteCheck(vrun.spec.commands[NextCheck], vrun.policy, x)
            PROVE  /\ status \in {"passed", "failed", "error"}
                   /\ status = "passed" =>
                        Permitted(vrun.spec.commands[NextCheck], vrun.policy)
        BY <4>1, <4>3, CheckOutcome
      <4> QED
        BY <2>2, <3>1, <4>2, <4>3
    <3>2. CASE NextCheck \notin DOMAIN vrun.spec.commands
      BY <2>2, <3>2
    <3> QED
      BY <3>1, <3>2
  <2>4. status \in CheckStatuses
    BY <2>3 DEF CheckStatuses
  <2>5. /\ vrun' = [profile |-> vrun.profile, spec |-> vrun.spec,
                    policy |-> vrun.policy,
                    outcomes |-> Append(vrun.outcomes, status)]
    BY <2>1, <2>2 DEF ValidationRunOK
  <2>6. /\ Append(vrun.outcomes, status) \in Seq(CheckStatuses)
        /\ Len(Append(vrun.outcomes, status)) = Len(vrun.outcomes) + 1
        /\ Len(vrun.outcomes) \in Nat
        /\ \A i \in 1 .. Len(vrun.outcomes) :
             Append(vrun.outcomes, status)[i] = vrun.outcomes[i]
        /\ Append(vrun.outcomes, status)[Len(vrun.outcomes) + 1] = status
    <3> DEFINE o == vrun.outcomes
    <3>1. o \in Seq(CheckStatuses)
      BY <2>1 DEF ValidationRunOK
    <3> HIDE DEF o
    <3>2. /\ Append(o, status) \in Seq(CheckStatuses)
          /\ Len(Append(o, status)) = Len(o) + 1
          /\ Len(o) \in Nat
          /\ \A i \in 1 .. Len(o) : Append(o, status)[i] = o[i]
          /\ Append(o, status)[Len(o) + 1] = status
      BY <2>4, <3>1, AppendProperties, LenProperties
    <3> QED
      BY <3>2 DEF o
  <2>7. ASSUME NEW i \in 1 .. (Len(vrun.outcomes) + 1)
        PROVE  OutcomeJustified(vrun', i)
    <3>1. CASE i \in 1 .. Len(vrun.outcomes)
      <4>1. OutcomeJustified(vrun, i)
        BY <2>1, <3>1 DEF ValidationRunOK
      <4> QED
        BY <2>5, <2>6, <3>1, <4>1 DEF OutcomeJustified
    <3>2. CASE i = Len(vrun.outcomes) + 1
      BY <2>3, <2>5, <2>6, <3>2 DEF OutcomeJustified, NextCheck
    <3> QED
      BY <2>6, <3>1, <3>2
  <2>8. ValidationRunOK(vrun')
    BY <2>1, <2>5, <2>6, <2>7 DEF ValidationRunOK
  <2> QED
    BY <2>1, <2>8
<1>3. CASE FinishValidation
  <2>1. /\ ValidationRunOK(vrun)
        /\ Len(vrun.outcomes) = Len(GetAllChecks(vrun.spec))
        /\ latest' = [latest EXCEPT ![vrun.profile] = ValidationResult(vrun)]
        /\ vrun' = NoValidation
    BY <1>3 DEF FinishValidation
  <2>2. latest'["default-dev"] = IF vrun.profile = "default-dev"
                                 THEN ValidationResult(vrun)
                                 ELSE latest["default-dev"]
    BY <2>1 DEF OutcomeTypeOK, ProfileNames
  <2>3. ValidationResult(vrun).status = ComputeOverallStatus(vrun)
    BY DEF ValidationResult
  <2> QED
    BY <2>1, <2>2, <2>3, PassedIsGreen
<1>4. CASE Restart
  BY <1>4 DEF Restart
<1>5. CASE BeginRun
  BY <1>5 DEF BeginRun, validationVars
<1>6. CASE \/ Configure \/ GeneratePolicySnapshot \/ WorkerEnds
           \/ ValidateOutput \/ StoreLog \/ RecoverFromCrash \/ RecordRefs
           \/ CompleteDevelopment
  BY <1>6 DEF Configure, GeneratePolicySnapshot, WorkerEnds, ValidateOutput,
     StoreLog, RecoverFromCrash, RecordRefs, CompleteDevelopment, validationVars
<1>7. CASE Capture \/ CaptureSkips \/ NothingCaptured
  BY <1>7 DEF Capture, CaptureSkips, NothingCaptured, Capturing, validationVars
<1>8. CASE UNCHANGED vars
  BY <1>8 DEF vars, validationVars
<1> QED
  BY <1>1, <1>2, <1>3, <1>4, <1>5, <1>6, <1>7, <1>8 DEF Next

-----------------------------------------------------------------------------
(* The theorems                                                            *)

\* The whole invariant holds of every execution: snapshots, output, recovery
\* and validation of a task's runs, with restarts and failing stores.
THEOREM OutcomeInvariant == OutcomeSpec => []OutcomeInv
<1>1. OutcomeInv /\ [Next]_vars => OutcomeInv'
  <2> SUFFICES ASSUME OutcomeInv, [Next]_vars PROVE OutcomeInv'
    OBVIOUS
  <2>1. /\ OutcomeTypeOK' /\ SnapshotWellFormed' /\ SnapshotResolved'
        /\ AcceptedRunHasPolicies'
    BY TypeKept, SnapshotKept, AcceptedRunKept
  <2>2. RecoveryResolves' /\ ValidationJustified'
    BY RecoveryKept, ValidationKept
  <2> QED
    BY <2>1, <2>2 DEF OutcomeInv
<1> QED
  BY <1>1, OutcomeInvInitial, PTL DEF OutcomeSpec

\* A run's snapshot holds what the configured layers say, each field from the
\* last layer that sets it, and evaluateCommandPolicy, checkReadAccess and
\* validatePostRunDiff decide by it as documented, for any layers, commands and
\* files; the rules must not repeat a command nor the roots hide a dot.
THEOREM PoliciesDecideAsDocumentedHolds ==
  ASSUME UnambiguousConfiguration
  PROVE  OutcomeSpec => []PoliciesDecideAsDocumented
<1>1. OutcomeInv => PoliciesDecideAsDocumented
  <2> SUFFICES ASSUME OutcomeInv, snap # NoSnapshot
               PROVE  LET command == snap.policies["command_policy"]
                          scope == snap.policies["file_scope_policy"]
                      IN /\ ResolvedAsDocumented(snap.layers, snap.resolved)
                         /\ \A c \in Commands :
                              EvaluateCommandPolicy(c, command).allowed
                                <=> Permitted(c, command)
                         /\ \A diff \in Diffs :
                              /\ ValidatePostRunDiff(diff, scope)
                                   <=> \A f \in diff : WritePermitted(f, scope)
                              /\ \A f \in diff :
                                   CheckReadAccess(f, scope).allowed
                                     <=> ReadPermitted(f, scope)
    BY DEF PoliciesDecideAsDocumented
  <2> DEFINE command == snap.policies["command_policy"]
             scope == snap.policies["file_scope_policy"]
  <2>1. /\ snap.layers \in Layers /\ ValidLayerOrder(snap.layers)
        /\ snap.resolved = ResolveConfig(snap.layers)
        /\ snap.policies = ExtractValues(snap.resolved)
        /\ WellFormedPolicies(snap.policies)
    BY DEF OutcomeInv, SnapshotResolved, SnapshotWellFormed
  <2>2. ResolvedAsDocumented(snap.layers, snap.resolved)
    <3>1. /\ Len(snap.layers) \in Nat
          /\ DOMAIN snap.layers = 1 .. Len(snap.layers)
      BY <2>1, InputAssumption
    <3>2. ResolvedAsDocumented(snap.layers, ResolveConfig(snap.layers))
      BY <3>1, ConfigResolves
    <3> QED
      BY <2>1, <3>2
  <2>3. /\ OneRulePerCommand(command) /\ WellFormedScope(scope)
        /\ WellFormedCommandPolicy(command)
    BY <2>1 DEF UnambiguousConfiguration, WellFormedPolicies
  <2> HIDE DEF command, scope
  <2>4. ASSUME NEW c \in Commands
        PROVE  EvaluateCommandPolicy(c, command).allowed <=> Permitted(c, command)
    <3>1. c.tokens \in Seq(STRING) /\ WordsNotEmpty(c)
      BY InputAssumption
    <3>2. EvaluateCommandPolicy(c, command).allowed => Permitted(c, command)
      BY <2>3, <3>1, AllowedIsPermitted
    <3>3. Permitted(c, command) => EvaluateCommandPolicy(c, command).allowed
      BY <2>3, <3>1, PermittedIsAllowed
    <3>4. /\ EvaluateCommandPolicy(c, command).allowed \in BOOLEAN
          /\ Permitted(c, command) \in BOOLEAN
      BY DEF EvaluateCommandPolicy, Permitted
    <3> QED
      BY <3>2, <3>3, <3>4
  <2>5. ASSUME NEW diff \in Diffs, NEW f \in diff
        PROVE  /\ CheckReadAccess(f, scope).allowed <=> ReadPermitted(f, scope)
               /\ CheckWriteAccess(f, scope).allowed <=> WritePermitted(f, scope)
    <3>1. NamesFile(f)
      BY InputAssumption
    <3> QED
      BY <2>3, <3>1, AccessAsDocumented
  <2>6. ASSUME NEW diff \in Diffs
        PROVE  ValidatePostRunDiff(diff, scope)
                 <=> \A f \in diff : WritePermitted(f, scope)
    <3>1. ValidatePostRunDiff(diff, scope)
            <=> \A f \in diff : CheckWriteAccess(f, scope).allowed
      BY DEF ValidatePostRunDiff, DiffViolations
    <3> QED
      BY <2>5, <3>1
  <2> QED
    BY <2>2, <2>4, <2>5, <2>6 DEF command, scope
<1> QED
  BY <1>1, OutcomeInvariant, PTL

\* The crash recovery never holds or records a reference to a file that was
\* not stored whole, whichever of its steps fail or are cut off.
THEOREM RefsResolveHolds == OutcomeSpec => []RefsResolve
<1>1. OutcomeInv => RefsResolve
  BY DEF OutcomeInv, RecoveryResolves, RefsResolve, Exists
<1> QED
  BY <1>1, OutcomeInvariant, PTL

\* checkGate lets a task out of development only over a validation run whose
\* required checks all ran permitted commands and passed.
THEOREM GateOpensOnGreenHolds == OutcomeSpec => GateOpensOnGreen
<1>1. OutcomeInv /\ [Next]_vars =>
        [task # "DEV_COMPLETE" /\ task' = "DEV_COMPLETE" =>
           Green(latest["default-dev"])]_vars
  <2> SUFFICES ASSUME OutcomeInv, Next, task # "DEV_COMPLETE",
                      task' = "DEV_COMPLETE"
               PROVE  Green(latest["default-dev"])
    OBVIOUS
  <2>1. CASE CompleteDevelopment
    <3>1. CheckGate("IN_DEVELOPMENT", "DEV_COMPLETE")
      BY <2>1 DEF CompleteDevelopment
    <3>2. latest["default-dev"].status = "passed"
      BY <3>1 DEF CheckGate, GatedTransitions
    <3> QED
      BY <3>2 DEF OutcomeInv, ValidationJustified
  <2>2. CASE BeginRun
    BY <2>2 DEF BeginRun
  <2>3. ASSUME ~CompleteDevelopment, ~BeginRun PROVE task' = task
    BY <2>3 DEF Next, Configure, GeneratePolicySnapshot, WorkerEnds,
       ValidateOutput, StoreLog, RecoverFromCrash, Capture, CaptureSkips,
       NothingCaptured, Capturing, RecordRefs, Restart, StartValidation,
       RunCheck, FinishValidation
  <2> QED
    BY <2>1, <2>2, <2>3
<1> QED
  BY <1>1, OutcomeInvariant, PTL DEF OutcomeSpec, GateOpensOnGreen
=============================================================================
