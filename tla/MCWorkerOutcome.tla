-------------------------- MODULE MCWorkerOutcome --------------------------
(* Two runs of one task under the shipped defaults, cut down to the fields  *)
(* and commands that matter, and the layers an operator may put over them.  *)
EXTENDS WorkerOutcome

MCStartsWith(word, prefix) ==
  \/ word = prefix
  \/ <<word, prefix>> \in {<<"test:unit", "test">>}

MCRegexMatches(word, pattern) == <<word, pattern>> = <<"/etc/hosts", "^/etc/">>

MCGlobMatch(raw, pattern) ==
  pattern = "sudo *" /\ Len(raw.tokens) > 1 /\ raw.tokens[1] = "sudo"

Line(tokens) == [tokens |-> tokens, operators |-> FALSE]

MCCommands ==
  {Line(<< >>), Line(<<"pnpm">>), Line(<<"pnpm", "test">>),
   Line(<<"pnpm", "test:unit">>), Line(<<"pnpm", "publish">>),
   Line(<<"sudo", "pnpm">>), Line(<<"sudo">>), Line(<<"cat", "/etc/hosts">>),
   Line(<<"cat", "README.md">>), Line(<<"rm", "-rf">>),
   [tokens |-> <<"pnpm", "test">>, operators |-> TRUE]}

Pnpm(prefixes) == [command |-> "pnpm", arg_prefixes |-> prefixes]
Cat == [command |-> "cat", arg_prefixes |-> {}]

DevProfile ==
  [required_checks |-> <<"test", "lint">>, optional_checks |-> << >>,
   commands |-> [c \in {"test", "lint", "build"} |-> Line(<<"pnpm", c>>)],
   fail_on_skipped_required_check |-> TRUE]

MergeProfile ==
  [DevProfile EXCEPT !.required_checks = <<"test">>,
                     !.optional_checks = <<"build">>]

MCSystemDefaults ==
  [command_policy |->
     [mode |-> "allowlist", allow_shell_operators |-> FALSE,
      allowed_commands |-> <<Pnpm({"test", "lint", "build"}), Cat>>,
      denied_patterns |-> {"sudo *"}, forbidden_arg_patterns |-> {"^/etc/"},
      on_violation |-> "fail_run"],
   file_scope_policy |->
     [read_roots |-> {<<"apps", "">>, <<"docs", "">>},
      write_roots |-> {<<"apps", "">>}, deny_roots |-> {<<"secrets", "">>},
      allow_read_outside_scope |-> TRUE, allow_write_outside_scope |-> FALSE],
   validation_policy |->
     [profiles |-> [p \in ProfileNames |->
        IF p = "default-dev" THEN DevProfile ELSE MergeProfile]]]

Layer(l, s, c) == [layer |-> l, source |-> s, config |-> c]

\* A pool whose workers may only test and read no secrets; a task whose lint
\* has no command and may be skipped; an operator who lets everything through;
\* a repository whose roots are written with leading slashes and a dot.
PoolLayer ==
  Layer("pool", "pool-1",
        [command_policy |-> [allowed_commands |-> <<Pnpm({"test"}), Cat>>],
         file_scope_policy |-> [deny_roots |-> {<<"", "secrets">>}]])
TaskLayer ==
  Layer("task", "task-1",
        [validation_policy |-> [profiles |-> [p \in {"default-dev"} |->
           [DevProfile EXCEPT !.commands = [c \in {"test"} |-> Line(<<"pnpm", c>>)],
                              !.fail_on_skipped_required_check = FALSE]]]])
OperatorLayer ==
  Layer("operator_override", "op-1",
        [command_policy |-> [mode |-> "denylist", allow_shell_operators |-> TRUE],
         file_scope_policy |-> [allow_write_outside_scope |-> TRUE]])
RepositoryLayer ==
  Layer("repository_workflow", "",
        [file_scope_policy |-> [deny_roots |-> {<<"", "apps", "keys">>},
                                write_roots |-> {<<".", "", "apps">>, <<"docs", "">>}]])

MCLayers ==
  {<< >>, <<PoolLayer, TaskLayer>>,
   <<RepositoryLayer, OperatorLayer>>, <<OperatorLayer, PoolLayer>>}

\* Every layer sequence finds a file in it that it decides differently.
MCDiffs ==
  {{<<"apps", "a.ts">>, <<"secrets", "s">>, <<"docs", "b.md">>, <<"c.md">>}}

\* These layers, too.
ASSUME LayersUnambiguous == UnambiguousConfiguration
=============================================================================
