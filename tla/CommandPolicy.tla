--------------------------- MODULE CommandPolicy ---------------------------
(***************************************************************************)
(* The command policy of packages/domain: which command line a worker or a *)
(* validation check may execute, and the wrapper of packages/              *)
(* infrastructure that enforces it.  A command line is                     *)
(*   [tokens |-> its words, operators |-> whether its text has a shell     *)
(*    operator],                                                           *)
(* and text matching is left to three relations the instance supplies.     *)
(***************************************************************************)
EXTENDS Sequences, Naturals

CONSTANTS
  StartsWith(_, _),      \* String.prototype.startsWith on two words
  GlobMatch(_, _),       \* globMatch: the command line against a pattern
  RegexMatches(_, _)     \* RegExp.test on an argument

\* splitting on white space: a blank line has the empty command.
ParseCommandString(raw) ==
  IF raw.tokens = << >> THEN [command |-> "", args |-> << >>]
  ELSE [command |-> Head(raw.tokens), args |-> Tail(raw.tokens)]

ContainsShellOperators(raw) == raw.operators

\* policy.allowed_commands.find: the first rule for the command.
RulesFor(command, policy) ==
  {i \in DOMAIN policy.allowed_commands :
     policy.allowed_commands[i].command = command}

MatchingRule(command, policy) ==
  LET rules == RulesFor(command, policy)
  IN policy.allowed_commands[CHOOSE i \in rules : \A j \in rules : i <= j]

PrefixAllowed(parsed, rule) ==
  \/ rule.arg_prefixes = {}
  \/ parsed.args = << >>
  \/ \E p \in rule.arg_prefixes : StartsWith(parsed.args[1], p)

AllowlistViolation(parsed, policy) ==
  IF policy.mode # "allowlist" THEN "none"
  ELSE IF RulesFor(parsed.command, policy) = {} THEN "not_in_allowlist"
  ELSE IF ~PrefixAllowed(parsed, MatchingRule(parsed.command, policy))
       THEN "arg_prefix_not_allowed"
  ELSE "none"

ForbiddenArg(parsed, policy) ==
  \E i \in DOMAIN parsed.args, p \in policy.forbidden_arg_patterns :
     RegexMatches(parsed.args[i], p)

\* The checks in the order the code makes them; "none" allows the command.
ViolationReason(raw, policy) ==
  LET parsed == ParseCommandString(raw)
  IN IF parsed.command = "" THEN "invalid_command"
     ELSE IF ~policy.allow_shell_operators /\ ContainsShellOperators(raw)
          THEN "shell_operators_denied"
     ELSE IF \E p \in policy.denied_patterns : GlobMatch(raw, p)
          THEN "matches_denied_pattern"
     ELSE IF AllowlistViolation(parsed, policy) # "none"
          THEN AllowlistViolation(parsed, policy)
     ELSE IF ForbiddenArg(parsed, policy) THEN "forbidden_arg_pattern"
     ELSE "none"

EvaluateCommandPolicy(raw, policy) ==
  LET reason == ViolationReason(raw, policy)
  IN [allowed |-> reason = "none", reason |-> reason,
      action |-> IF reason = "none" THEN "none" ELSE policy.on_violation]

\* executeCommand: a denied command never reaches the process runner; the
\* exit code of an allowed one is null when the timeout killed it.
ExitCodes == {"zero", "nonzero", "null"}

ExecuteCommand(raw, policy, exitCode) ==
  IF ~EvaluateCommandPolicy(raw, policy).allowed THEN "PolicyViolationError"
  ELSE IF exitCode # "zero" THEN "CommandExecutionError"
  ELSE "completed"

\* What the policy's documentation says of a permitted command, without the
\* order of the checks.
Permitted(raw, policy) ==
  LET command == raw.tokens[1]
  IN /\ raw.tokens # << >>
     /\ raw.operators => policy.allow_shell_operators
     /\ \A p \in policy.denied_patterns : ~GlobMatch(raw, p)
     /\ policy.mode = "allowlist" =>
          \E i \in DOMAIN policy.allowed_commands :
             LET rule == policy.allowed_commands[i]
             IN /\ rule.command = command
                /\ \/ rule.arg_prefixes = {}
                   \/ Len(raw.tokens) = 1
                   \/ \E p \in rule.arg_prefixes :
                         StartsWith(raw.tokens[2], p)
     /\ \A i \in 2..Len(raw.tokens), p \in policy.forbidden_arg_patterns :
           ~RegexMatches(raw.tokens[i], p)

\* What splitting on white space leaves: no word of a line is empty.
WordsNotEmpty(raw) == \A i \in DOMAIN raw.tokens : raw.tokens[i] # ""

\* find looks at no second rule for a command.
OneRulePerCommand(policy) ==
  \A i, j \in DOMAIN policy.allowed_commands :
    policy.allowed_commands[i].command = policy.allowed_commands[j].command => i = j
=============================================================================
