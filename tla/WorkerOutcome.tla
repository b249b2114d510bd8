--------------------------- MODULE WorkerOutcome ---------------------------
(***************************************************************************)
(* What becomes of one task's runs: the policy snapshot a run is given,    *)
(* the output it leaves, the validation of that output, the recovery of    *)
(* what a crashed worker left behind, the validation run with its checks,  *)
(* and the gate between IN_DEVELOPMENT and DEV_COMPLETE.  These services   *)
(* of packages/application are independent of each other: each operation   *)
(* may be called whenever its own conditions hold, except that validation  *)
(* runs are started for accepted output only.                              *)
(*                                                                         *)
(* The workspace, with its outputs directory, is that of the task and is   *)
(* reused by the next attempt.  Artifacts live under a path that names the *)
(* run, so only the current run's are kept; ArtifactStore writes a         *)
(* temporary file and renames it.                                          *)
(***************************************************************************)
EXTENDS CommandPolicy, FileScopePolicy, ConfigResolver, FiniteSets

CONSTANTS
  MaxRuns,               \* bound: attempts of the task
  MaxValidations,        \* bound: validation runs
  MaxEdits,              \* bound: edits of the configuration
  MaxRestarts,           \* bound: restarts of the control plane
  Layers,                \* the layer sequences an operator may configure
  Diffs,                 \* sets of files a worker may leave modified
  Commands               \* command lines a worker may ask for

ASSUME OutcomeAssumption ==
  /\ MaxRuns \in Nat /\ MaxValidations \in Nat /\ MaxEdits \in Nat
  /\ MaxRestarts \in Nat
  /\ << >> \in Layers

\* What the schemas of packages/schemas ask of a command policy and of a
\* validation profile: the lists are lists, a command is split into words.
WellFormedCommandPolicy(policy) ==
  policy.mode = "allowlist" => DOMAIN policy.allowed_commands \subseteq Nat

WellFormedProfile(profile) ==
  /\ profile.required_checks \in Seq(STRING)
  /\ profile.optional_checks \in Seq(STRING)
  /\ \A c \in DOMAIN profile.commands :
        profile.commands[c].tokens \in Seq(STRING)

WellFormedPolicies(policies) ==
  /\ WellFormedCommandPolicy(policies["command_policy"])
  /\ \A p \in DOMAIN policies["validation_policy"]["profiles"] :
        WellFormedProfile(policies["validation_policy"]["profiles"][p])

\* Whatever an operator configures resolves to policies of that shape.
ASSUME ConfigAssumption ==
  \A l \in Layers :
     ValidLayerOrder(l) => WellFormedPolicies(ExtractValues(ResolveConfig(l)))

\* The configured layers are an array, a command line is split on white space,
\* and a diff has the paths git prints.
ASSUME InputAssumption ==
  /\ \A l \in Layers : Len(l) \in Nat /\ DOMAIN l = 1 .. Len(l)
  /\ \A c \in Commands : c.tokens \in Seq(STRING) /\ WordsNotEmpty(c)
  /\ \A diff \in Diffs : \A f \in diff : NamesFile(f)

\* What nothing in the code asks for: an allowlist with one rule per command,
\* and roots with dots at their start only.
UnambiguousConfiguration ==
  \A l \in Layers :
     ValidLayerOrder(l) =>
       LET policies == ExtractValues(ResolveConfig(l))
       IN /\ OneRulePerCommand(policies["command_policy"])
          /\ WellFormedScope(policies["file_scope_policy"])

VARIABLES
  layers,      \* the configured layers
  edits,       \* edits made so far
  restarts,    \* restarts so far
  run,         \* attempt number of the current run, 0 before the first
  worker,      \* "none", "working", "exited", "crashed"
  snap,        \* the current run's policy snapshot
  file,        \* content of outputs/result-packet.json
  stdout,      \* content between the stdout delimiters
  changed,     \* files modified in the worktree
  verdict,     \* what validateOutput said of the current run
  failures,    \* SchemaFailureTrackerPort: consecutive failures of the profile
  vrun,        \* the validation run in progress
  latest,      \* findLatestByTaskAndProfile
  vcount,      \* validation runs made
  task,        \* the task's status
  store,       \* the artifacts stored for the current run
  recovery,    \* the crash recovery in progress
  refs         \* partial artifact refs on the lease

configVars == <<layers, edits, restarts>>
outputVars == <<file, stdout, changed>>
verdictVars == <<verdict, failures>>
validationVars == <<vrun, latest, vcount>>
storeVars == <<store, recovery, refs>>
vars == <<configVars, run, worker, snap, outputVars, verdictVars,
          validationVars, task, storeVars>>

-----------------------------------------------------------------------------
(* State *)

\* What is wrong with a packet, if anything: no version or another major
\* version, a version that is no version (or JSON null for a packet), a
\* missing array, a missing text field; "artifact" is a sound packet that
\* refers to an artifact, which may not exist.
Defects == {"none", "version", "malformed", "array", "text", "artifact"}

Packets == [run : 1..MaxRuns, defect : Defects]

NoContent == [run |-> 0, defect |-> "absent"]
Garbled == [run |-> 0, defect |-> "garbled"]

NoSnapshot == [policy_set_id |-> "none"]
NoValidation == [profile |-> "none"]
NoResult == [status |-> "none"]
NoRecovery == [step |-> "none"]

\* What the crash recovery and the log writer store for one run.
Artifacts == {"log", "diff", "output", "invalid", "snapshot"}

ProfileNames == {"default-dev", "merge-gate"}

Init ==
  /\ layers = << >> /\ edits = 0 /\ restarts = 0
  /\ run = 0 /\ worker = "none" /\ snap = NoSnapshot
  /\ file = NoContent /\ stdout = NoContent /\ changed = {}
  /\ verdict = "none" /\ failures = 0
  /\ vrun = NoValidation /\ vcount = 0
  /\ latest = [p \in ProfileNames |-> NoResult]
  /\ task = "READY"
  /\ store = {}
  /\ recovery = NoRecovery /\ refs = {}

-----------------------------------------------------------------------------
(* Configuration and the run's snapshot *)

\* An operator changes a layer; runs that have their snapshot keep it.
Configure ==
  /\ edits < MaxEdits /\ recovery = NoRecovery
  /\ edits' = edits + 1
  /\ layers' \in Layers \ {layers} /\ UNCHANGED restarts
  /\ UNCHANGED <<run, worker, snap, outputVars, verdictVars, validationVars,
                 task, storeVars>>

\* The next attempt of the task, or its rework after a review: a new lease,
\* a new process, and the same workspace, reused when its worktree is clean.
BeginRun ==
  /\ run < MaxRuns
  /\ worker # "working" /\ recovery = NoRecovery /\ vrun = NoValidation
  /\ run' = run + 1
  /\ worker' = "working" /\ task' = "IN_DEVELOPMENT"
  /\ snap' = NoSnapshot /\ stdout' = NoContent /\ changed' = {}
  /\ verdict' = "none" /\ refs' = {} /\ store' = {}
  /\ UNCHANGED <<configVars, file, failures, validationVars, recovery>>

\* Layers out of order make resolveConfig throw: no snapshot.
GeneratePolicySnapshot ==
  /\ worker = "working" /\ snap = NoSnapshot
  /\ ValidLayerOrder(layers)
  /\ LET resolved == ResolveConfig(layers)
         assembled == AssembleSnapshot(ExtractValues(resolved),
                                       DerivePolicySetId(layers))
     IN snap' = [policy_set_id |-> assembled.policy_set_id,
                 policies |-> assembled.policies,
                 resolved |-> resolved, layers |-> layers]
  /\ UNCHANGED <<configVars, run, worker, outputVars, verdictVars,
                 validationVars, task, storeVars>>

\* The worker's process ends, by itself or not, and leaves what it leaves.
WorkerEnds ==
  /\ worker = "working" /\ snap # NoSnapshot
  /\ file' \in {file, Garbled} \union {[run |-> run, defect |-> d] : d \in Defects}
  /\ \/ /\ worker' = "crashed" /\ stdout' = NoContent
     \/ /\ worker' = "exited"
        /\ stdout' \in {NoContent, [run |-> run, defect |-> "none"]}
  /\ changed' \in {{}} \union Diffs
  /\ UNCHANGED <<configVars, run, snap, verdictVars, validationVars, task,
                 storeVars>>

-----------------------------------------------------------------------------
(* The output validator *)

\* extractPacket: the file when it has content, the delimiters otherwise.
ExtractPacket == IF file # NoContent THEN file ELSE stdout

\* attemptSchemaRepair fills in missing arrays and nothing else.
AttemptSchemaRepair(c) == IF c.defect = "array" THEN [c EXCEPT !.defect = "none"] ELSE c

SchemaValid(c) == c.defect \in {"none", "artifact"}

\* The packets in the model name their task; the run they name is compared
\* when the caller's context has one: its runId is optional.
VerifyIds(c, withRunId) == withRunId => c.run = run

Exists(path) == path \in store

VerifyArtifacts(c) == c.defect = "artifact" => Exists("log")

\* The steps of validateOutput, in order.  parseSchemaVersion throws on what
\* is no version, and so does reading a field of null.
Verdict(c, withRunId) ==
  LET repaired == AttemptSchemaRepair(c)
  IN IF c = NoContent THEN "no_packet_found"
     ELSE IF c = Garbled THEN "json_parse_error"
     ELSE IF c.defect = "malformed" THEN "threw"
     ELSE IF c.defect = "version" THEN "version_incompatible"
     ELSE IF ~SchemaValid(repaired) THEN "schema_validation_failed"
     ELSE IF ~VerifyIds(repaired, withRunId) THEN "id_mismatch"
     ELSE IF ~VerifyArtifacts(repaired) THEN "artifacts_missing"
     ELSE "accepted"

\* recordFailureAndReject counts, resetFailures clears, a throw does neither.
TrackFailures(v) ==
  IF v = "accepted" THEN 0
  ELSE IF v = "threw" THEN failures
  ELSE failures + 1

ValidateOutput ==
  /\ worker = "exited" /\ verdict = "none"
  /\ \E withRunId \in BOOLEAN : verdict' = Verdict(ExtractPacket, withRunId)
  /\ failures' = TrackFailures(verdict')
  /\ UNCHANGED <<configVars, run, worker, snap, outputVars, validationVars,
                 task, storeVars>>

-----------------------------------------------------------------------------
(* The artifact store and the recovery of a crashed worker *)

\* storeArtifact writes path.tmp and renames it over the path: the path has
\* its whole content or, when any of that fails, the temporary file is
\* removed and the path is as it was.
StoreArtifact(st, a, succeeds) == IF succeeds THEN st \union {a} ELSE st

\* storeLog, for a log the result packet refers to.
StoreLog ==
  /\ worker = "exited" /\ verdict = "none"
  /\ ExtractPacket.defect = "artifact" /\ "log" \notin store
  /\ store' = StoreArtifact(store, "log", TRUE)
  /\ UNCHANGED <<configVars, run, worker, snap, outputVars, verdictVars,
                 validationVars, task, recovery, refs>>

RecoverySteps == <<"diff", "output", "invalid", "snapshot", "refs">>

NextStep(step) ==
  RecoverySteps[1 + CHOOSE i \in DOMAIN RecoverySteps : RecoverySteps[i] = step]

\* recoverFromCrash: a result packet the validator accepts ends the recovery.
RecoverFromCrash ==
  /\ worker = "crashed" /\ verdict = "none" /\ recovery = NoRecovery
  /\ IF file \notin {NoContent, Garbled} /\ SchemaValid(file)
     THEN verdict' = "result_found" /\ UNCHANGED recovery
     ELSE /\ recovery' = [step |-> "diff", refs |-> {}]
          /\ UNCHANGED verdict
  /\ UNCHANGED <<configVars, run, worker, snap, outputVars, failures,
                 validationVars, task, store, refs>>

HasAnyWork == changed # {} \/ recovery.refs # {}

\* Whether a step has something to store.
ToCapture(step) ==
  CASE step = "diff" -> changed # {}
    [] step \in {"output", "invalid"} -> file # NoContent
    [] step = "snapshot" -> HasAnyWork

Capturing ==
  /\ recovery # NoRecovery
  /\ recovery.step # "refs"
  /\ UNCHANGED <<configVars, run, worker, snap, outputVars, failures,
                 validationVars, task, refs>>

\* Fault: the ref is noted although storing failed.
CaptureRefFault(stored) == {recovery.step}

\* The ref of a stored artifact; safeAsync turns a failure into no ref.
CaptureRef(stored) == IF stored THEN {recovery.step} ELSE {}

Capture ==
  /\ Capturing /\ ToCapture(recovery.step)
  /\ \E stored \in BOOLEAN :
       /\ store' = StoreArtifact(store, recovery.step, stored)
       /\ recovery' = [step |-> NextStep(recovery.step),
                       refs |-> recovery.refs \union CaptureRef(stored)]
  /\ UNCHANGED verdict

\* Nothing to store, or reading it failed; with no work at all the recovery
\* ends before the snapshot.
CaptureSkips ==
  /\ Capturing
  /\ recovery.step # "snapshot"
  /\ recovery' = [recovery EXCEPT !.step = NextStep(@)]
  /\ UNCHANGED <<store, verdict>>

NothingCaptured ==
  /\ Capturing /\ recovery.step = "snapshot" /\ ~HasAnyWork
  /\ recovery' = NoRecovery /\ verdict' = "nothing_captured"
  /\ UNCHANGED store

\* updatePartialArtifactRefs; its failure is swallowed too.
RecordRefs ==
  /\ recovery # NoRecovery /\ recovery.step = "refs"
  /\ refs' \in {refs, recovery.refs}
  /\ recovery' = NoRecovery /\ verdict' = "partial_captured"
  /\ UNCHANGED <<configVars, run, worker, snap, outputVars, failures,
                 validationVars, task, store>>

\* The control plane dies: what was in memory is gone, files stay.
Restart ==
  /\ restarts < MaxRestarts
  /\ recovery # NoRecovery \/ vrun # NoValidation
  /\ restarts' = restarts + 1
  /\ recovery' = NoRecovery /\ vrun' = NoValidation
  /\ UNCHANGED <<layers, edits, run, worker, snap, outputVars, verdictVars,
                 latest, vcount, task, store, refs>>

-----------------------------------------------------------------------------
(* The validation run and the gate *)

GetSystemDefaultProfileName(stage) ==
  IF stage = "development" THEN "default-dev" ELSE "merge-gate"

\* The task's own profile, then the workflow's, then the task type's.
ResolveProfileName(context) ==
  LET set == {i \in 1..3 : context.names[i] # ""}
  IN IF set = {} THEN GetSystemDefaultProfileName(context.stage)
     ELSE context.names[CHOOSE i \in set : \A j \in set : i <= j]

SelectionContexts ==
  [names : {<<"", "", "">>, <<"", "merge-gate", "default-dev">>,
            <<"default-dev", "", "merge-gate">>},
   stage : {"development", "merge"}]

Profiles == snap.policies["validation_policy"]["profiles"]

\* A profile the policy does not have raises MissingValidationProfileError.
SelectProfile(context) ==
  LET name == ResolveProfileName(context)
  IN IF name \in DOMAIN Profiles THEN name ELSE "none"

GetAllChecks(profile) == profile.required_checks \o profile.optional_checks

\* runValidation itself looks neither at the worker nor at the verdict on its
\* output; that it is called for accepted output only is an assumption of this
\* composition, which no application wires.
StartValidation ==
  /\ verdict = "accepted" /\ vrun = NoValidation /\ vcount < MaxValidations
  /\ \E context \in SelectionContexts :
       LET name == SelectProfile(context)
       IN /\ name # "none"
          /\ vrun' = [profile |-> name, spec |-> Profiles[name],
                      policy |-> snap.policies["command_policy"],
                      outcomes |-> << >>]
  /\ vcount' = vcount + 1
  /\ UNCHANGED <<configVars, run, worker, snap, outputVars, verdictVars,
                 latest, task, storeVars>>

\* executeCheck: a denied command, or one that cannot be started, is an
\* error; a nonzero exit or a kill by the timeout is a failure.
ExecuteCheck(command, policy, exitCode) ==
  CASE ExecuteCommand(command, policy, exitCode) = "completed" -> "passed"
    [] ExecuteCommand(command, policy, exitCode) = "CommandExecutionError" -> "failed"
    [] OTHER -> "error"

NextCheck == GetAllChecks(vrun.spec)[Len(vrun.outcomes) + 1]

RunCheck ==
  /\ vrun # NoValidation
  /\ Len(vrun.outcomes) < Len(GetAllChecks(vrun.spec))
  /\ \E status \in
       IF NextCheck \notin DOMAIN vrun.spec.commands THEN {"skipped"}
       ELSE {ExecuteCheck(vrun.spec.commands[NextCheck], vrun.policy, x) :
               x \in ExitCodes}
            \union {"error"} :
       vrun' = [vrun EXCEPT !.outcomes = Append(@, status)]
  /\ UNCHANGED <<configVars, run, worker, snap, outputVars, verdictVars,
                 latest, vcount, task, storeVars>>

\* Fault: a check that could not be run does not count.
FailingStatusesFault == {"failed"}

FailingStatuses == {"failed", "error"}

RequiredOutcomes(v) == {i \in DOMAIN v.outcomes : i <= Len(v.spec.required_checks)}

ComputeOverallStatus(v) ==
  IF \/ \E i \in RequiredOutcomes(v) : v.outcomes[i] \in FailingStatuses
     \/ /\ v.spec.fail_on_skipped_required_check
        /\ \E i \in RequiredOutcomes(v) : v.outcomes[i] = "skipped"
  THEN "failed" ELSE "passed"

\* emitPacket: the packet's vocabulary has no "error".
MapCheckStatus(status) == IF status = "error" THEN "failed" ELSE status

EmitPacket(v) ==
  [status |-> IF ComputeOverallStatus(v) = "passed" THEN "success" ELSE "failed",
   checks |-> [i \in DOMAIN v.outcomes |-> MapCheckStatus(v.outcomes[i])]]

\* The run as it is stored, with its verdict and its packet.
ValidationResult(v) ==
  [profile |-> v.profile, spec |-> v.spec, policy |-> v.policy,
   outcomes |-> v.outcomes, status |-> ComputeOverallStatus(v),
   packet |-> EmitPacket(v)]

FinishValidation ==
  /\ vrun # NoValidation
  /\ Len(vrun.outcomes) = Len(GetAllChecks(vrun.spec))
  /\ latest' = [latest EXCEPT ![vrun.profile] = ValidationResult(vrun)]
  /\ vrun' = NoValidation
  /\ UNCHANGED <<configVars, run, worker, snap, outputVars, verdictVars,
                 vcount, task, storeVars>>

GatedTransitions ==
  {[from |-> "IN_DEVELOPMENT", to |-> "DEV_COMPLETE", profile |-> "default-dev"],
   [from |-> "POST_MERGE_VALIDATION", to |-> "DONE", profile |-> "merge-gate"]}

\* checkGate: the latest run of the gate's own profile decides.
CheckGate(from, to) ==
  \A g \in GatedTransitions :
     g.from = from /\ g.to = to => latest[g.profile].status = "passed"

CompleteDevelopment ==
  /\ task = "IN_DEVELOPMENT" /\ verdict = "accepted"
  /\ CheckGate("IN_DEVELOPMENT", "DEV_COMPLETE")
  /\ task' = "DEV_COMPLETE"
  /\ UNCHANGED <<configVars, run, worker, snap, outputVars, verdictVars,
                 validationVars, storeVars>>

-----------------------------------------------------------------------------
Next ==
  \/ Configure \/ BeginRun \/ GeneratePolicySnapshot \/ WorkerEnds
  \/ ValidateOutput
  \/ StoreLog \/ RecoverFromCrash \/ Capture
  \/ CaptureSkips \/ NothingCaptured \/ RecordRefs \/ Restart
  \/ StartValidation \/ RunCheck \/ FinishValidation \/ CompleteDevelopment

OutcomeSpec == Init /\ [][Next]_vars

-----------------------------------------------------------------------------
(* Properties *)

\* The policies a run starts under decide as they are documented, whatever
\* layers were configured: each field has the value of the most specific layer
\* that set it and names that layer as its source, a command line is allowed
\* exactly when the command policy permits it, a worktree diff is valid exactly
\* when every modified file may be written, and a file may be read accordingly.
\* Checks resolveConfig, evaluateCommandPolicy, checkReadAccess and
\* validatePostRunDiff against references that know nothing of the order in
\* which the code tests.
PoliciesDecideAsDocumented ==
  worker = "working" /\ snap # NoSnapshot =>
    LET command == snap.policies["command_policy"]
        scope == snap.policies["file_scope_policy"]
    IN /\ ResolvedAsDocumented(snap.layers, snap.resolved)
       /\ \A c \in Commands :
            EvaluateCommandPolicy(c, command).allowed <=> Permitted(c, command)
       /\ \A diff \in Diffs :
            /\ ValidatePostRunDiff(diff, scope)
                 <=> \A f \in diff : WritePermitted(f, scope)
            /\ \A f \in diff :
                 CheckReadAccess(f, scope).allowed <=> ReadPermitted(f, scope)

\* A validation run in which every required check ended well: it ran a command
\* that run's own policy permits and exited with zero, or it had no command
\* and the profile tolerates that.  The packet emitted for the run says so too.
Green(v) ==
  /\ v # NoResult /\ v.packet.status = "success"
  /\ \A i \in 1..Len(v.spec.required_checks) :
       LET check == v.spec.required_checks[i]
       IN IF check \in DOMAIN v.spec.commands
          THEN /\ v.packet.checks[i] = "passed"
               /\ Permitted(v.spec.commands[check], v.policy)
          ELSE ~v.spec.fail_on_skipped_required_check

\* A task leaves development only over a green validation run of the gate's
\* profile.  Configuration edited while the run went on changes nothing; a
\* later validation run may fail, which takes nothing back.
GateOpensOnGreen ==
  [][task # "DEV_COMPLETE" /\ task' = "DEV_COMPLETE" =>
       Green(latest["default-dev"])]_vars

\* Every artifact ref the crash recovery holds or has recorded on the lease
\* resolves to a whole file, although storing may fail at any step, the
\* failures are swallowed, and the control plane may die half way and repeat
\* the recovery.
RefsResolve ==
  \A a \in refs \union (IF recovery = NoRecovery THEN {} ELSE recovery.refs) :
     Exists(a)
=============================================================================
