---------------------------- MODULE TaskDiscovery ----------------------------
(***************************************************************************)
(* The discovery step of an import: from the files of a directory to the   *)
(* manifest the user confirms.  A backlog.json is parsed entry by entry;   *)
(* Markdown files go to a language model one by one, those it fails on to  *)
(* the deterministic parser, then the index orders them and a remote       *)
(* classifier, called in batches with retries, gives them a status.        *)
(*                                                                         *)
(* What the services outside answer is a free choice.  A file is what the  *)
(* parsers find in it: its base name, the reference in that name, whether  *)
(* there is a title, and the status its author wrote.                      *)
(***************************************************************************)
EXTENDS Naturals, Sequences, ArrayFilter

CONSTANTS
  Documents,    \* files as the parsers see them: [name, ref, titled, status]
  References,   \* references of file names, indexes and the model's answers
  Inputs,       \* directories: [json, files, indexed, index, format]
  MaxRetries,   \* retries of one classifier call
  BatchSize,    \* tasks of one classifier call
  NoReference   \* a file name without reference

ReadStatuses == {"BACKLOG", "DONE"}

ASSUME DiscoveryAssumption ==
  /\ MaxRetries \in Nat
  /\ BatchSize \in Nat \ {0}
  /\ NoReference \notin References
  /\ \A d \in Documents : d.ref \in References \cup {NoReference}
  /\ Inputs \subseteq [json : BOOLEAN, files : Seq(Documents), indexed : BOOLEAN,
                       index : Seq(References), format : {"backlog", "flat", "unknown"}]

VARIABLES
  input,      \* the directory
  phase,      \* where the discovery is
  next,       \* the next file for the language model
  failed,     \* base names of the files it failed on
  found,      \* the tasks so far: [file, ref, status, by]
  ordered,    \* the tasks in the order of the index
  unclassified,  \* the tasks that need a classification, in order
  results,    \* classifications so far: [of, status]
  position,   \* where the current batch starts
  attempt,    \* attempts at the current batch
  reported,   \* files a warning was written about
  manifest    \* the tasks offered to the user

discoveryVars == <<input, phase, next, failed, found, ordered, unclassified, results,
                   position, attempt, reported, manifest>>

Files == input.files
FileIds == DOMAIN Files
Name(i) == Files[i].name
Names == {Name(i) : i \in FileIds}

DiscoveryInit ==
  /\ input \in Inputs
  /\ phase = "start"
  /\ next = 1
  /\ failed = {}
  /\ found = <<>>
  /\ ordered = <<>>
  /\ unclassified = <<>>
  /\ results = <<>>
  /\ position = 0
  /\ attempt = 0
  /\ reported = {}
  /\ manifest = <<>>

-----------------------------------------------------------------------------
(* What the parsers see in a file.                                         *)

\* extractTitle: a heading, or an ID in the metadata.
ExtractTitle(i) == Files[i].titled

\* extractExternalRef: the reference at the start of the base name.
ExtractExternalRef(i) == Files[i].ref

\* parseMetadataTable, parseBoldMetadata: the status the author wrote.
MetadataStatus(i) == Files[i].status

\* deterministicFallback: the author's status, if it is a known word.
DeterministicFallback(i) == [of |-> i, status |-> MetadataStatus(i)]

FoundTask(i, ref, status, by) ==
  [file |-> i, ref |-> ref, status |-> status, by |-> by]

\* parseTaskFile: no title, no task.  The author's status goes to the
\* metadata; the task itself has none yet.
ParseTaskFile(i) == FoundTask(i, ExtractExternalRef(i), "BACKLOG", "parser")

-----------------------------------------------------------------------------
(* json-task-parser *)

\* detectJsonFormat, for a file that can be read and parsed at all.
Recognised == input.format \in {"backlog", "flat"}

\* mapBacklogTask, mapFlatTask: an entry without a title (or type) is refused.
MapsToTask(i) == Recognised /\ ExtractTitle(i)

\* parseJsonTasks: an unreadable, invalid or unrecognised file gives an empty
\* manifest and a warning, otherwise every entry is mapped or reported.
ParseJsonTasks ==
  /\ phase = "start" /\ input.json
  /\ phase' = "done"
  /\ LET mapped == {i \in FileIds : MapsToTask(i)}
         entries == [i \in FileIds |-> FoundTask(i, Files[i].ref, "BACKLOG", "json")]
     IN  /\ manifest' = Filter(entries, mapped)
         /\ reported' = FileIds \ mapped
  /\ UNCHANGED <<input, next, failed, found, ordered, unclassified, results, position,
                 attempt>>

-----------------------------------------------------------------------------
(* llm-task-extractor *)

\* No extractor is configured, or there are no files.
SkipLlm ==
  /\ phase = "start" /\ ~input.json
  /\ failed' = Names
  /\ phase' = "fallback"
  /\ UNCHANGED <<input, next, found, ordered, unclassified, results, position,
                 attempt, reported, manifest>>

\* The client or the session cannot be started: every file has failed.
LlmUnavailable ==
  /\ phase = "start" /\ ~input.json /\ Files # <<>>
  /\ failed' = Names
  /\ phase' = "fallback"
  /\ UNCHANGED <<input, next, found, ordered, unclassified, results, position,
                 attempt, reported, manifest>>

StartLlm ==
  /\ phase = "start" /\ ~input.json /\ Files # <<>>
  /\ phase' = "extract"
  /\ UNCHANGED <<input, next, failed, found, ordered, unclassified, results, position,
                 attempt, reported, manifest>>

\* parseLlmResponse: a valid task, with the reference and the status the model
\* answers.  It is asked for the reference in the file name, but nothing
\* compares them; only the source is set by the code.
ParseLlmResponse(i) ==
  {FoundTask(i, r, s, "llm") : r \in References \cup {NoReference}, s \in ReadStatuses}

\* Fault: a file without a valid task is not recorded as failed.
ExtractFileFault ==
  /\ phase = "extract" /\ next \in FileIds
  /\ next' = next + 1
  /\ \/ \E t \in ParseLlmResponse(next) : found' = Append(found, t)
     \/ UNCHANGED found
  /\ UNCHANGED <<input, phase, failed, ordered, unclassified, results, position,
                 attempt, reported, manifest>>

\* One file of the session: a valid task, or a failure of any kind.
ExtractFile ==
  /\ phase = "extract" /\ next \in FileIds
  /\ next' = next + 1
  /\ \/ /\ \E t \in ParseLlmResponse(next) : found' = Append(found, t)
        /\ UNCHANGED failed
     \/ /\ failed' = failed \cup {Name(next)}
        /\ UNCHANGED found
  /\ UNCHANGED <<input, phase, ordered, unclassified, results, position, attempt,
                 reported, manifest>>

EndLlm ==
  /\ phase = "extract" /\ next \notin FileIds
  /\ phase' = "fallback"
  /\ UNCHANGED <<input, next, failed, found, ordered, unclassified, results, position,
                 attempt, reported, manifest>>

-----------------------------------------------------------------------------
(* markdown-task-parser: fallback and ordering.                            *)

\* The last task with a reference; Map.set keeps the place of the first.
Winner(ts, ref) ==
  ts[CHOOSE i \in DOMAIN ts : /\ ts[i].ref = ref
                              /\ \A j \in DOMAIN ts : ts[j].ref = ref => j <= i]

\* applyOrdering: the references of the index (one taken is deleted), then the
\* others in the order they were found, then the tasks without one.
ApplyOrdering(ts, index) ==
  LET Listed(r) == \E i \in DOMAIN index : index[i] = r
      named == Filter(index, {i \in DOMAIN index :
                 /\ \E j \in DOMAIN ts : ts[j].ref = index[i]
                 /\ \A j \in 1 .. i - 1 : index[j] # index[i]})
      rest == Filter(ts, {i \in DOMAIN ts :
                /\ ts[i].ref # NoReference /\ ~Listed(ts[i].ref)
                /\ \A j \in 1 .. i - 1 : ts[j].ref # ts[i].ref})
  IN  [k \in DOMAIN named |-> Winner(ts, named[k])]
        \o [k \in DOMAIN rest |-> Winner(ts, rest[k].ref)]
        \o Filter(ts, {i \in DOMAIN ts : ts[i].ref = NoReference})

\* The files the language model did not handle, told apart by base name.
IsFallback(i) == Name(i) \in failed

\* The deterministic parser takes what is left; then the index is applied, and
\* the tasks of those files (tasksNeedingClassification) go to the classifier.
Fallback ==
  LET parsed == Filter([i \in FileIds |-> ParseTaskFile(i)],
                       {i \in FileIds : IsFallback(i) /\ ExtractTitle(i)})
      all == found \o parsed
  IN  /\ phase = "fallback"
      /\ found' = all
      /\ ordered' = IF input.indexed THEN ApplyOrdering(all, input.index) ELSE all
      /\ unclassified' =
           Filter(ordered', {i \in DOMAIN ordered' : IsFallback(ordered'[i].file)})
      /\ reported' = {i \in FileIds : IsFallback(i) /\ ~ExtractTitle(i)}
      /\ phase' = "classify"
      /\ UNCHANGED <<input, next, failed, results, position, attempt, manifest>>

-----------------------------------------------------------------------------
(* ai-task-classifier *)

BatchEnd ==
  IF position + BatchSize < Len(unclassified) THEN position + BatchSize
  ELSE Len(unclassified)

Batch == SubSeq(unclassified, position + 1, BatchEnd)

\* Fault: a short answer is taken as it is.
ClassifyBatchFault(k, s) ==
  [j \in 1 .. (IF k < Len(Batch) THEN k ELSE Len(Batch)) |->
     DeterministicFallback(Batch[j].file)]

\* classifyBatch: the service answers with k results for the batch, of status
\* s; missing ones are filled by the fallback, surplus ones cut off.
ClassifyBatch(k, s) ==
  [j \in DOMAIN Batch |-> IF j <= k THEN [of |-> Batch[j].file, status |-> s]
                          ELSE DeterministicFallback(Batch[j].file)]

FallbackResults(ts) == [j \in DOMAIN ts |-> DeterministicFallback(ts[j].file)]

InClassify == phase = "classify" /\ position < Len(unclassified)

\* No classifier is passed: the tasks keep what the parser gave them.
NoClassifier ==
  /\ InClassify /\ position = 0 /\ attempt = 0
  /\ phase' = "unclassified"
  /\ UNCHANGED <<input, next, failed, found, ordered, unclassified, results, position,
                 attempt, reported, manifest>>

\* There is no token: the fallback for all.
NoToken ==
  /\ InClassify /\ position = 0 /\ attempt = 0
  /\ results' = FallbackResults(unclassified)
  /\ position' = Len(unclassified)
  /\ UNCHANGED <<input, phase, next, failed, found, ordered, unclassified, attempt,
                 reported, manifest>>

BatchAnswered ==
  /\ InClassify
  /\ \E k \in 0 .. BatchSize + 1 : \E s \in ReadStatuses :
       results' = results \o ClassifyBatch(k, s)
  /\ position' = BatchEnd
  /\ attempt' = 0
  /\ UNCHANGED <<input, phase, next, failed, found, ordered, unclassified, reported,
                 manifest>>

\* Fault: after the last retry the count starts again.
BatchRetriedFault ==
  /\ InClassify
  /\ attempt' = (attempt + 1) % (MaxRetries + 1)
  /\ UNCHANGED <<input, phase, next, failed, found, ordered, unclassified, results, position,
                 reported, manifest>>

\* 429 or 503: wait and try again.
BatchRetried ==
  /\ InClassify /\ attempt < MaxRetries
  /\ attempt' = attempt + 1
  /\ UNCHANGED <<input, phase, next, failed, found, ordered, unclassified, results, position,
                 reported, manifest>>

\* Any other error, or the retries are used up.
BatchFailed ==
  /\ InClassify
  /\ results' = results \o FallbackResults(Batch)
  /\ position' = BatchEnd
  /\ attempt' = 0
  /\ UNCHANGED <<input, phase, next, failed, found, ordered, unclassified, reported,
                 manifest>>

-----------------------------------------------------------------------------
(* markdown-task-parser: the manifest.                                     *)

\* classificationBySource: the last result filed under the task's base name.
\* Results and tasks are put together by their position.
Classification(t) ==
  LET own == {i \in DOMAIN unclassified :
                i \in DOMAIN results /\ Name(unclassified[i].file) = Name(t.file)}
  IN  IF own = {} THEN [of |-> t.file, status |-> t.status]
      ELSE results[CHOOSE i \in own : \A j \in own : j <= i]

Classified(t) ==
  IF IsFallback(t.file) THEN [t EXCEPT !.status = Classification(t).status] ELSE t

\* Finished tasks are left out of the manifest and reported.
BuildManifest ==
  LET classified == [i \in DOMAIN ordered |-> Classified(ordered[i])]
      active == {i \in DOMAIN ordered : classified[i].status # "DONE"}
  IN  /\ phase \in {"classify", "unclassified"} /\ ~InClassify
      /\ manifest' = Filter(classified, active)
      /\ reported' = reported \cup {ordered[i].file : i \in DOMAIN ordered \ active}
      /\ phase' = "done"
      /\ UNCHANGED <<input, next, failed, found, ordered, unclassified, results, position,
                     attempt>>

DiscoveryStep ==
  \/ ParseJsonTasks
  \/ SkipLlm \/ LlmUnavailable \/ StartLlm \/ ExtractFile \/ EndLlm
  \/ Fallback
  \/ NoClassifier \/ NoToken \/ BatchAnswered \/ BatchRetried \/ BatchFailed
  \/ BuildManifest

DiscoveryNext == DiscoveryStep \/ (phase = "done" /\ UNCHANGED discoveryVars)

DiscoverySpec ==
  DiscoveryInit /\ [][DiscoveryNext]_discoveryVars /\ WF_discoveryVars(DiscoveryStep)

-----------------------------------------------------------------------------
(* Properties *)

DistinctNames == \A i, j \in FileIds : Name(i) = Name(j) => i = j

\* The user hears of a file: its task is offered, or a warning names it.
Heard(i) == i \in reported \/ \E k \in DOMAIN manifest : manifest[k].file = i

\* No file disappears: the user hears of it, or the order of an index made
\* its task give way to a later one with the same reference, of which the user
\* hears (the model may have answered it for both).  Nor is a task offered
\* twice, unless two files share a base name.
NoFileLost ==
  phase = "done" =>
    /\ \A i \in FileIds :
         \/ Heard(i)
         \/ /\ input.indexed
            /\ \E k, l \in DOMAIN found :
                 /\ found[k].file = i /\ k < l /\ Heard(found[l].file)
                 /\ found[k].ref = found[l].ref /\ found[k].ref # NoReference
    /\ DistinctNames => \A k, l \in DOMAIN manifest :
                          manifest[k].file = manifest[l].file => k = l

\* Every classification belongs to its task, whatever batches were answered
\* short, retried or replaced by the fallback.
ClassifiedAsItself ==
  (phase = "classify" /\ ~InClassify) =>
    /\ Len(results) = Len(unclassified)
    /\ DistinctNames => \A i \in DOMAIN unclassified :
                          Classification(unclassified[i]).of = unclassified[i].file

\* The discovery ends, also when the services never answer.
DiscoveryEnds == <>(phase = "done")
=============================================================================
