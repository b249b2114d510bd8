-------------------------- MODULE FileScopePolicy --------------------------
(***************************************************************************)
(* The file scope policy of packages/domain.  A path is the sequence of    *)
(* its segments as they stand between slashes: "" before a leading, after  *)
(* a trailing or between two slashes, "." for the current directory.       *)
(***************************************************************************)
EXTENDS Sequences, Naturals, SequencesExt, ArrayFilter

\* Repeated slashes: an empty segment survives at the two ends only.
CollapseSlashes(p) ==
  Filter(p, {i \in DOMAIN p : p[i] # "" \/ i \in {1, Len(p)}})

\* The first segment that is not s, on.
DropLeading(p, s) ==
  LET stays == {i \in 1..Len(p) : i = Len(p) \/ p[i] # s}
  IN IF p = << >> THEN p
     ELSE SubSeq(p, CHOOSE i \in stays : \A j \in stays : i <= j, Len(p))

NormalizePath(raw) ==
  DropLeading(DropLeading(CollapseSlashes(raw), "."), "")

EmptyPath(p) == p \in {<< >>, <<"">>}

\* normalizeRoot ends a root with a slash: its segments without the last "".
NormalizeRoot(raw) ==
  LET p == NormalizePath(raw)
  IN IF p # << >> /\ Last(p) = "" THEN Front(p) ELSE p

\* startsWith(root + "/"): strictly below the root.
Under(p, roots) ==
  \E raw \in roots :
    LET root == NormalizeRoot(raw)
    IN /\ ~EmptyPath(root)
       /\ Len(p) > Len(root)
       /\ IsPrefix(root, p)

\* classifyPath: deny roots first, then write roots, then read roots.
ClassifyPath(p, policy) ==
  IF Under(p, policy.deny_roots) THEN "deny_root"
  ELSE IF Under(p, policy.write_roots) THEN "write_root"
  ELSE IF Under(p, policy.read_roots) THEN "read_root"
  ELSE "outside"

CheckReadAccess(raw, policy) ==
  LET p == NormalizePath(raw)
      match == ClassifyPath(p, policy)
      reason == IF EmptyPath(p) THEN "invalid_path"
                ELSE IF match = "deny_root" THEN "denied_by_deny_root"
                ELSE IF match = "outside" /\ ~policy.allow_read_outside_scope
                     THEN "read_outside_scope"
                ELSE "none"
  IN [allowed |-> reason = "none", reason |-> reason, matchedRoot |-> match]

CheckWriteAccess(raw, policy) ==
  LET p == NormalizePath(raw)
      match == ClassifyPath(p, policy)
      reason == IF EmptyPath(p) THEN "invalid_path"
                ELSE IF match = "deny_root" THEN "denied_by_deny_root"
                ELSE IF match = "read_root" THEN "write_in_read_only_root"
                ELSE IF match = "outside" /\ ~policy.allow_write_outside_scope
                     THEN "write_outside_scope"
                ELSE "none"
  IN [allowed |-> reason = "none", reason |-> reason, matchedRoot |-> match]

\* validatePostRunDiff: the modified files the policy refuses.
DiffViolations(files, policy) ==
  {f \in files : ~CheckWriteAccess(f, policy).allowed}

\* Fault: one file within scope clears the whole diff.
ValidatePostRunDiffFault(files, policy) ==
  files = {} \/ DiffViolations(files, policy) # files

ValidatePostRunDiff(files, policy) == DiffViolations(files, policy) = {}

\* The directory or file a path names, in whichever way it is written.
Meaning(raw) == Filter(raw, {i \in DOMAIN raw : raw[i] \notin {"", "."}})

Below(raw, roots) ==
  \E r \in roots : Meaning(r) # << >> /\ IsStrictPrefix(Meaning(r), Meaning(raw))

\* What the documentation says of a permitted write.
WritePermitted(raw, policy) ==
  /\ Meaning(raw) # << >>
  /\ ~Below(raw, policy.deny_roots)
  /\ \/ Below(raw, policy.write_roots)
     \/ ~Below(raw, policy.read_roots) /\ policy.allow_write_outside_scope

\* And of a permitted read: what may be written may be read, too.
ReadPermitted(raw, policy) ==
  /\ Meaning(raw) # << >>
  /\ ~Below(raw, policy.deny_roots)
  /\ \/ Below(raw, policy.write_roots) \/ Below(raw, policy.read_roots)
     \/ policy.allow_read_outside_scope

\* How a path has to be written for the policy to read it so: "." stands at
\* its start only, a file has no trailing slash and a root no trailing dot.
DotsLead(raw) ==
  \A i, j \in DOMAIN raw : i < j /\ raw[j] = "." => raw[i] = "."

NamesFile(raw) ==
  /\ raw \in Seq(STRING) /\ raw # << >>
  /\ DotsLead(raw) /\ Last(raw) \notin {"", "."}

NamesDirectory(raw) ==
  /\ raw \in Seq(STRING) /\ raw # << >>
  /\ DotsLead(raw) /\ Last(raw) # "."

WellFormedScope(policy) ==
  \A r \in policy.deny_roots \cup policy.write_roots \cup policy.read_roots :
    NamesDirectory(r)
=============================================================================
