------------------------- MODULE TaskBacklog_proofs -------------------------
(***************************************************************************)
(* Theorems about the backlog, for any projects, repositories, requests,   *)
(* batches and edits: the dependency graph has no cycle but the importer's *)
(* own, an import adds exactly what is missing, and its edges stay in its  *)
(* repository.  And about the discovery that comes before an import, for   *)
(* any files, documents and answers: a file is lost only behind a warning, *)
(* a failed extraction or another task of its reference, and each task is  *)
(* classified by its own answer.                                           *)
(***************************************************************************)
EXTENDS TaskBacklog, TaskDiscovery, SequenceTheorems, FiniteSetTheorems,
        WellFoundedInduction, TLAPS

-----------------------------------------------------------------------------
(* Array.prototype.filter                                                  *)

\* A filter counts every kept position once and no other.
LEMMA NthOf ==
  ASSUME NEW n \in Nat, NEW P \in SUBSET (1 .. n)
  PROVE  /\ Cardinality(P) \in Nat
         /\ \A k \in 1 .. Cardinality(P) : Nth(P, k) \in P
         /\ \A i \in P : \E k \in 1 .. Cardinality(P) : Nth(P, k) = i
         /\ \A j, k \in 1 .. Cardinality(P) : Nth(P, j) = Nth(P, k) => j = k
<1> DEFINE c == Cardinality(P)
           Upto(i) == {j \in P : j <= i}
           r == [i \in P |-> RankIn(P, i)]
<1>1. IsFiniteSet(P) /\ c \in Nat
  <2>1. IsFiniteSet(1 .. n)
    BY FS_Interval
  <2>2. IsFiniteSet(P)
    BY <2>1, FS_Subset
  <2> QED  BY <2>2, FS_CardinalityType
<1>2. \A i \in P : RankIn(P, i) = Cardinality(Upto(i))
  BY DEF RankIn
<1>3. ASSUME NEW i \in P
      PROVE  IsFiniteSet(Upto(i)) /\ Cardinality(Upto(i)) \in 1 .. c
  <2>1. Upto(i) \subseteq P /\ Upto(i) # {}
    <3>1. i <= i
      OBVIOUS
    <3> QED  BY <3>1
  <2> HIDE DEF Upto
  <2>2. /\ IsFiniteSet(Upto(i)) /\ Cardinality(Upto(i)) <= c
        /\ Cardinality(Upto(i)) \in Nat
    BY <1>1, <2>1, FS_Subset, FS_CardinalityType
  <2>3. Cardinality(Upto(i)) # 0
    BY <2>1, <2>2, FS_EmptySet
  <2> QED  BY <1>1, <2>2, <2>3
<1>4. ASSUME NEW i \in P, NEW j \in P, i < j
      PROVE  Cardinality(Upto(i)) # Cardinality(Upto(j))
  <2>0. P \subseteq Nat
    OBVIOUS
  <2>1. Upto(i) \subseteq Upto(j) /\ j \in Upto(j) /\ j \notin Upto(i)
    <3>1. i \in Nat /\ j \in Nat /\ ~(j <= i) /\ j <= j
      BY <1>4, <2>0
    <3>2. \A k \in P : k <= i => k <= j
      BY <1>4, <2>0, <3>1
    <3> QED  BY <3>1, <3>2
  <2>2. Upto(i) # Upto(j)
    BY <2>1
  <2> HIDE DEF Upto
  <2> QED  BY <1>3, <2>1, <2>2, FS_Subset
<1> HIDE DEF Upto
<1>5. \A i, j \in P : RankIn(P, i) = RankIn(P, j) => i = j
  <2> SUFFICES ASSUME NEW i \in P, NEW j \in P, i # j PROVE RankIn(P, i) # RankIn(P, j)
    OBVIOUS
  <2>1. i < j \/ j < i
    OBVIOUS
  <2> QED  BY <1>2, <1>4, <2>1
<1>6. r \in Injection(P, 1 .. c)
  <2>1. \A i \in P : RankIn(P, i) \in 1 .. c
    BY <1>2, <1>3
  <2>2. r \in [P -> 1 .. c] /\ \A i \in P : r[i] = RankIn(P, i)
    BY <2>1
  <2> HIDE DEF c, r
  <2>3. \A i, j \in P : r[i] = r[j] => i = j
    BY <1>5, <2>2
  <2> QED  BY <2>2, <2>3 DEF Injection, IsInjective
<1>7. IsFiniteSet(1 .. c) /\ Cardinality(1 .. c) = c
  BY <1>1, FS_Interval
<1>8. r \in Surjection(P, 1 .. c)
  BY <1>6, <1>7, FS_Injection
<1>9. \A k \in 1 .. c : Nth(P, k) \in P /\ RankIn(P, Nth(P, k)) = k
  <2> TAKE k \in 1 .. c
  <2>1. PICK i \in P : RankIn(P, i) = k
    BY <1>8 DEF Surjection
  <2> QED  BY <2>1 DEF Nth
<1>10. \A i \in P : Nth(P, RankIn(P, i)) = i
  BY <1>2, <1>3, <1>5, <1>9
<1>11. \A i \in P : \E k \in 1 .. c : Nth(P, k) = i
  BY <1>2, <1>3, <1>10
<1>12. \A j, k \in 1 .. c : Nth(P, j) = Nth(P, k) => j = k
  BY <1>9
<1> QED  BY <1>1, <1>9, <1>11, <1>12

\* r has the elements of s at the positions P, each once.
Picks(r, s, P) ==
  /\ \A k \in DOMAIN r : Nth(P, k) \in P /\ r[k] = s[Nth(P, k)]
  /\ \A i \in P : \E k \in DOMAIN r : Nth(P, k) = i
  /\ \A j, k \in DOMAIN r : Nth(P, j) = Nth(P, k) => j = k

\* The elements of a filtered array.
LEMMA FilterOf ==
  ASSUME NEW n \in Nat, NEW P \in SUBSET (1 .. n), NEW s, NEW S, \A i \in P : s[i] \in S,
         NEW r, r = Filter(s, P)
  PROVE  r \in Seq(S) /\ Picks(r, s, P)
<1> DEFINE c == Cardinality(P)
<1>1. /\ c \in Nat
      /\ \A k \in 1 .. c : Nth(P, k) \in P
      /\ \A i \in P : \E k \in 1 .. c : Nth(P, k) = i
      /\ \A j, k \in 1 .. c : Nth(P, j) = Nth(P, k) => j = k
  BY NthOf
<1>2. r = [k \in 1 .. c |-> s[Nth(P, k)]]
  BY DEF Filter
<1> HIDE DEF c
<1>3. DOMAIN r = 1 .. c /\ \A k \in 1 .. c : r[k] = s[Nth(P, k)]
  BY <1>2
<1>4. r \in [1 .. c -> S]
  BY <1>1, <1>2
<1>5. r \in Seq(S)
  BY <1>1, <1>4
<1> QED  BY <1>1, <1>3, <1>5 DEF Picks

-----------------------------------------------------------------------------
(* The inductive invariant                                                 *)

Rows == [repository : Projects \X Repositories, ref : Refs \cup {NoRef},
         status : TaskStatuses, source : {"manual", "follow_up", "automated"},
         priority : {"critical", "high", "medium", "low"}]

TypeOK ==
  /\ projects \in SUBSET Projects
  /\ repositories \in SUBSET (Projects \X Repositories)
  /\ tasks \in Seq(Rows)
  /\ Len(tasks) <= MaxTasks

\* The foreign keys of the catalogue.
CatalogSound ==
  /\ \A x \in repositories : x[1] \in projects
  /\ \A t \in DOMAIN tasks : tasks[t].repository \in repositories

\* An edge is between rows.
EdgesSound == \A e \in edges : e.task \in DOMAIN tasks /\ e.dependsOn \in DOMAIN tasks

\* The unique index of the edges.
PairsUnique ==
  \A e, f \in edges : e.task = f.task /\ e.dependsOn = f.dependsOn => e = f

BacklogInv ==
  TypeOK /\ CatalogSound /\ EdgesSound /\ PairsUnique /\ OnlyImportClosesCycles

-----------------------------------------------------------------------------
(* The rows                                                                *)

\* Rows are appended, and the ones that were there stay.
Appended(n) ==
  /\ tasks' \in Seq(Rows)
  /\ Len(tasks') = Len(tasks) + n
  /\ DOMAIN tasks = 1 .. Len(tasks)
  /\ DOMAIN tasks' = 1 .. Len(tasks) + n
  /\ \A i \in DOMAIN tasks : i \in DOMAIN tasks' /\ tasks'[i] = tasks[i]

LEMMA AppendRows ==
  ASSUME tasks \in Seq(Rows), NEW n \in Nat, NEW f \in [1 .. n -> Rows],
         tasks' = tasks \o f
  PROVE  /\ Appended(n)
         /\ \A k \in 1 .. n : tasks'[Len(tasks) + k] = f[k]
<1>1. f \in Seq(Rows) /\ Len(f) = n
  OBVIOUS
<1>2. /\ tasks \o f \in Seq(Rows)
      /\ Len(tasks \o f) = Len(tasks) + n
      /\ \A i \in 1 .. Len(tasks) + n :
           (tasks \o f)[i] = IF i <= Len(tasks) THEN tasks[i] ELSE f[i - Len(tasks)]
  BY <1>1, ConcatProperties
<1>3. Len(tasks) \in Nat /\ DOMAIN tasks = 1 .. Len(tasks)
  BY LenProperties
<1>4. DOMAIN tasks' = 1 .. Len(tasks')
  BY <1>2, LenProperties
<1>5. \A i \in 1 .. Len(tasks) : i \in 1 .. Len(tasks) + n /\ tasks'[i] = tasks[i]
  BY <1>2, <1>3
<1>6. \A k \in 1 .. n : tasks'[Len(tasks) + k] = f[k]
  <2> TAKE k \in 1 .. n
  <2>1. Len(tasks) + k \in 1 .. Len(tasks) + n /\ ~(Len(tasks) + k <= Len(tasks))
        /\ (Len(tasks) + k) - Len(tasks) = k
    BY <1>3
  <2> QED  BY <1>2, <2>1
<1> QED  BY <1>2, <1>3, <1>4, <1>5, <1>6 DEF Appended

LEMMA RowsDomain ==
  ASSUME tasks \in Seq(Rows)
  PROVE  Len(tasks) \in Nat /\ DOMAIN tasks = 1 .. Len(tasks)
         /\ \A t \in DOMAIN tasks : tasks[t] \in Rows
BY LenProperties, ElementOfSeq

\* createBatch
LEMMA CreateAppends ==
  ASSUME TypeOK, NEW x \in repositories, NEW b \in Batches, CreateTasks(x, b)
  PROVE  \E n \in Nat : /\ Appended(n) /\ Len(tasks) + n <= MaxTasks
                        /\ \A k \in 1 .. n : tasks'[Len(tasks) + k].repository = x
<1> DEFINE f == [i \in DOMAIN b |-> NewTask(x, b[i], "BACKLOG", "manual", "medium")]
<1>1. b \in Seq(Refs \cup {NoRef})
  BY BacklogAssumption
<1>2. Len(b) \in Nat /\ DOMAIN b = 1 .. Len(b) /\ \A i \in 1 .. Len(b) : b[i] \in Refs \cup {NoRef}
  BY <1>1, LenProperties, ElementOfSeq
<1>3. x \in Projects \X Repositories
  BY DEF TypeOK
<1>4. f \in [1 .. Len(b) -> Rows]
  BY <1>2, <1>3 DEF NewTask, Rows, TaskStatuses
<1>5. tasks' = tasks \o f /\ Len(tasks) + Len(b) <= MaxTasks
  BY DEF CreateTasks
<1>6. \A k \in 1 .. Len(b) : f[k].repository = x
  BY <1>2 DEF NewTask
<1> HIDE DEF f
<1>7. tasks \in Seq(Rows)  BY DEF TypeOK
<1> QED  BY <1>2, <1>4, <1>5, <1>6, <1>7, AppendRows

\* The rows that createFollowUpTasks adds.
LEMMA FollowUpAppends ==
  ASSUME TypeOK, NEW t \in TaskIds, NEW source \in FollowUpSources,
         CreateFollowUpTasks(t, source)
  PROVE  \E n \in Nat :
           /\ Appended(n) /\ Len(tasks) + n <= MaxTasks
           /\ \A k \in 1 .. n : tasks'[Len(tasks) + k].repository = tasks[t].repository
           /\ edges' = edges \cup {Edge(Len(tasks) + i, t, "relates_to", FALSE, "follow_up") :
                                      i \in 1 .. n}
<1> DEFINE b == Blueprints(source)
           f == [i \in DOMAIN b |->
                   NewTask(tasks[t].repository, NoRef, "BACKLOG", "follow_up", b[i])]
           priorities == {"critical", "high", "medium", "low"}
<1>0. tasks \in Seq(Rows)  BY DEF TypeOK
<1>1. \E n \in Nat : DOMAIN b = 1 .. n /\ \A i \in 1 .. n : b[i] \in priorities
  <2>1. source \in {"review", "revert", "diagnostic", "hotfix"}
    BY BacklogAssumption
  <2>2. CASE source = "review"
    <3>1. b = <<"medium", "medium">>  BY <2>2 DEF Blueprints
    <3>2. DOMAIN b = 1 .. 2 /\ b[1] = "medium" /\ b[2] = "medium"  BY <3>1
    <3>3. \A i \in 1 .. 2 : b[i] = "medium"  BY <3>2
    <3> QED  BY <3>2, <3>3
  <2>3. CASE source # "review"
    <3>1. \E x \in priorities : b = <<x>>  BY <2>1, <2>3 DEF Blueprints
    <3>2. DOMAIN b = 1 .. 1 /\ b[1] \in priorities  BY <3>1
    <3>3. \A i \in 1 .. 1 : b[i] \in priorities  BY <3>2
    <3> QED  BY <3>2, <3>3
  <2> QED  BY <2>2, <2>3
<1>2. PICK n \in Nat : DOMAIN b = 1 .. n /\ \A i \in 1 .. n : b[i] \in priorities
  BY <1>1
<1>3. /\ t \in DOMAIN tasks /\ tasks' = tasks \o f /\ Len(tasks) + Len(f) <= MaxTasks
      /\ edges' = edges \cup {Edge(Len(tasks) + i, t, "relates_to", FALSE, "follow_up") :
                                 i \in DOMAIN f}
  BY DEF CreateFollowUpTasks, Exists
<1>4. tasks[t].repository \in Projects \X Repositories
  <2>1. tasks[t] \in Rows  BY <1>0, <1>3, RowsDomain
  <2> QED  BY <2>1 DEF Rows
<1> HIDE DEF b
<1>5. f \in [1 .. n -> Rows] /\ DOMAIN f = 1 .. n
  BY <1>2, <1>4 DEF NewTask, Rows, TaskStatuses
<1>6. Len(f) = n
  BY <1>5
<1>7. \A k \in 1 .. n : f[k].repository = tasks[t].repository
  BY <1>2 DEF NewTask
<1> HIDE DEF f
<1>8. Appended(n) /\ \A k \in 1 .. n : tasks'[Len(tasks) + k] = f[k]
  BY <1>0, <1>3, <1>5, AppendRows
<1> QED  BY <1>3, <1>5, <1>6, <1>7, <1>8

\* The rows that an import adds, one for each item that is not skipped.
LEMMA ExecuteAppends ==
  ASSUME TypeOK, NEW req \in Requests, Execute(req)
  PROVE  \E n \in Nat : \E order \in [1 .. n -> DOMAIN req.tasks] :
           LET repository == <<req.project, req.repository>> IN
           /\ Appended(n) /\ Len(tasks) + n <= MaxTasks
           /\ \A k \in 1 .. n : /\ ~IsSkipped(repository, req.tasks[order[k]])
                               /\ tasks'[Len(tasks) + k].repository = repository
                               /\ tasks'[Len(tasks) + k].ref = req.tasks[order[k]].ref
           /\ \A i \in DOMAIN req.tasks :
                \/ IsSkipped(repository, req.tasks[i])
                \/ \E k \in 1 .. n : order[k] = i
           /\ projects' = projects \cup {req.project}
           /\ repositories' = repositories \cup {repository}
           /\ edges' = edges \cup
                 {Edge(p[1], p[2], "blocks", TRUE, "import") :
                    p \in {q \in WiredPairs(tasks', repository, req.tasks) :
                             FindByTaskIdPair(q[1], q[2]) = {}}}
<1> DEFINE repository == <<req.project, req.repository>>
           created == {i \in DOMAIN req.tasks : ~IsSkipped(repository, req.tasks[i])}
           items == Filter(req.tasks, created)
           n == Cardinality(created)
           Row(i) == NewTask(repository, req.tasks[i].ref, req.tasks[i].status,
                             "automated", "medium")
           f == [k \in DOMAIN items |->
                   NewTask(repository, items[k].ref, items[k].status, "automated", "medium")]
<1>0. tasks \in Seq(Rows)  BY DEF TypeOK
<1>1. /\ req.tasks \in Seq(ImportedTasks)
      /\ repository \in Projects \X Repositories
  BY BacklogAssumption
<1>2. /\ DOMAIN req.tasks = 1 .. Len(req.tasks) /\ Len(req.tasks) \in Nat
      /\ \A i \in DOMAIN req.tasks : req.tasks[i] \in ImportedTasks
  BY <1>1, LenProperties, ElementOfSeq
<1>3. created \in SUBSET (1 .. Len(req.tasks))
  BY <1>2
<1>4. /\ Len(tasks \o f) <= MaxTasks
      /\ projects' = projects \cup {req.project}
      /\ repositories' = repositories \cup {repository}
      /\ tasks' = tasks \o f
      /\ edges' = edges \cup
           {Edge(p[1], p[2], "blocks", TRUE, "import") :
              p \in {q \in WiredPairs(tasks \o f, repository, req.tasks) :
                       FindByTaskIdPair(q[1], q[2]) = {}}}
  BY DEF Execute
<1> HIDE DEF created
<1> DEFINE order == [k \in 1 .. n |-> Nth(created, k)]
<1>5. /\ n \in Nat
      /\ \A k \in 1 .. n : Nth(created, k) \in created
      /\ \A i \in created : \E k \in 1 .. n : Nth(created, k) = i
  BY <1>2, <1>3, NthOf
<1>6. /\ order \in [1 .. n -> created]
      /\ items = [k \in 1 .. n |-> req.tasks[order[k]]]
      /\ \A i \in created : \E k \in 1 .. n : order[k] = i
  BY <1>5 DEF Filter
<1>7. n \in Nat  BY <1>5
<1> HIDE DEF order
<1> HIDE DEF n, items
<1>8. DOMAIN order = 1 .. n /\ \A k \in 1 .. n : order[k] \in created
  BY <1>6
<1>9. f = [k \in 1 .. n |-> Row(order[k])]
  BY <1>6
<1>10. \A i \in DOMAIN req.tasks : Row(i) \in Rows /\ Row(i).repository = repository
                                 /\ Row(i).ref = req.tasks[i].ref
  BY <1>1, <1>2 DEF NewTask, Rows, ImportedTasks, TaskStatuses
<1> HIDE DEF Row
<1>11. \A k \in 1 .. n : order[k] \in DOMAIN req.tasks
  BY <1>8 DEF created
<1>12. f \in [1 .. n -> Rows] /\ \A k \in 1 .. n : f[k] = Row(order[k])
  BY <1>9, <1>10, <1>11
<1> HIDE DEF f
<1>13. Appended(n) /\ \A k \in 1 .. n : tasks'[Len(tasks) + k] = Row(order[k])
  BY <1>0, <1>4, <1>7, <1>12, AppendRows
<1>14. Len(tasks) + n <= MaxTasks
  BY <1>4, <1>13 DEF Appended
<1>15. \A k \in 1 .. n : /\ ~IsSkipped(repository, req.tasks[order[k]])
                        /\ tasks'[Len(tasks) + k].repository = repository
                        /\ tasks'[Len(tasks) + k].ref = req.tasks[order[k]].ref
  BY <1>8, <1>10, <1>11, <1>13 DEF created
<1>16. order \in [1 .. n -> DOMAIN req.tasks]
  BY <1>6, <1>11
<1>17. \A i \in DOMAIN req.tasks : \/ IsSkipped(repository, req.tasks[i])
                                 \/ \E k \in 1 .. n : order[k] = i
  BY <1>6 DEF created
<1>18. edges' = edges \cup
           {Edge(p[1], p[2], "blocks", TRUE, "import") :
              p \in {q \in WiredPairs(tasks', repository, req.tasks) :
                       FindByTaskIdPair(q[1], q[2]) = {}}}
  BY <1>4
<1> HIDE DEF repository
<1> QED  BY <1>4, <1>7, <1>13, <1>14, <1>15, <1>16, <1>17, <1>18 DEF repository

-----------------------------------------------------------------------------
(* The graph                                                               *)

LEMMA AcyclicSubset ==
  ASSUME NEW E, NEW F \in SUBSET E, Acyclic(E)
  PROVE  Acyclic(F)
BY DEF Acyclic

\* An edge from t to d closes no cycle when d's search, over at least these
\* edges, ends in a set that t is not in.
LEMMA AcyclicEdge ==
  ASSUME NEW E, Acyclic(E), NEW x, NEW S, x.task # x.dependsOn, x.task \notin S,
         \A e \in E : e.task \in S \cup {x.dependsOn} => e.dependsOn \in S
  PROVE  Acyclic(E \cup {x})
<1> SUFFICES ASSUME NEW C \in SUBSET TaskIds, C # {},
                    \A n \in C : \E e \in E \cup {x} : e.task = n /\ e.dependsOn \in C
             PROVE  FALSE
  BY DEF Acyclic
<1> DEFINE D == C \cap (S \cup {x.dependsOn})
<1>1. CASE D = {}
  <2>1. \A n \in C : \E e \in E : e.task = n /\ e.dependsOn \in C
    BY <1>1
  <2> QED  BY <2>1 DEF Acyclic
<1>2. CASE D # {}
  <2>1. \A n \in D : \E e \in E : e.task = n /\ e.dependsOn \in D
    OBVIOUS
  <2>2. D \in SUBSET TaskIds
    OBVIOUS
  <2> HIDE DEF D
  <2> QED  BY <1>2, <2>1, <2>2 DEF Acyclic
<1> QED  BY <1>1, <1>2

\* Edges from new tasks to old ones close no cycle.
LEMMA AcyclicNewTasks ==
  ASSUME NEW E, Acyclic(E), NEW F, NEW Old,
         \A e \in E : e.task \in Old /\ e.dependsOn \in Old,
         \A e \in F : e.task \notin Old /\ e.dependsOn \in Old
  PROVE  Acyclic(E \cup F)
<1> SUFFICES ASSUME NEW C \in SUBSET TaskIds, C # {},
                    \A n \in C : \E e \in E \cup F : e.task = n /\ e.dependsOn \in C
             PROVE  FALSE
  BY DEF Acyclic
<1> DEFINE D == C \cap Old
<1>1. \A n \in D : \E e \in E : e.task = n /\ e.dependsOn \in D
  OBVIOUS
<1>2. D # {} /\ D \in SUBSET TaskIds
  OBVIOUS
<1> HIDE DEF D
<1> QED  BY <1>1, <1>2 DEF Acyclic

LEMMA Greatest ==
  ASSUME NEW n \in Nat, NEW S \in SUBSET (1 .. n), S # {}
  PROVE  \E t \in S : \A u \in S : u <= t
<1> DEFINE less == {ss \in Nat \X Nat : ss[1] < ss[2]}
           T == {n - t : t \in S}
<1>1. IsWellFoundedOn(less, Nat)
  BY NatLessThanWellFounded, Zenon DEF OpToRel
<1>2. T \subseteq Nat /\ T # {}
  <2>1. \A t \in S : n - t \in Nat
    OBVIOUS
  <2>2. PICK t \in S : TRUE
    OBVIOUS
  <2>3. n - t \in T
    OBVIOUS
  <2> QED  BY <2>1, <2>3
<1>3. \A i, j \in Nat : <<j, i>> \in less <=> j < i
  OBVIOUS
<1>4. \A u \in S : n - u \in T
  OBVIOUS
<1>5. \A i \in T : \E t \in S : i = n - t
  OBVIOUS
<1> HIDE DEF less, T
<1>6. PICK i \in T : \A j \in T : ~ (<<j, i>> \in less)
  BY <1>1, <1>2, WFMin
<1>7. PICK t \in S : i = n - t
  BY <1>5
<1>8. ASSUME NEW u \in S PROVE u <= t
  <2>1. ~ (<<n - u, i>> \in less)
    BY <1>4, <1>6
  <2>2. n - u \in Nat /\ i \in Nat
    BY <1>2
  <2>3. ~ (n - u < i)
    BY <1>3, <2>1, <2>2, Zenon
  <2> QED  BY <1>7, <2>3
<1> QED  BY <1>8

\* externalRefToTaskId names a row of the repository.
LEMMA RefNamesRow ==
  ASSUME NEW rows \in Seq(Rows), NEW repository, NEW ref, TaskOfRef(rows, repository, ref) # 0
  PROVE  /\ TaskOfRef(rows, repository, ref) \in DOMAIN rows
         /\ rows[TaskOfRef(rows, repository, ref)].repository = repository
<1> DEFINE hits == {t \in DOMAIN rows : rows[t].repository = repository /\ rows[t].ref = ref}
<1>1. hits # {} /\ TaskOfRef(rows, repository, ref) = CHOOSE t \in hits : \A u \in hits : u <= t
  BY DEF TaskOfRef
<1>2. /\ hits \in SUBSET (1 .. Len(rows)) /\ Len(rows) \in Nat /\ hits \subseteq DOMAIN rows
      /\ \A t \in hits : rows[t].repository = repository
  BY LenProperties
<1> HIDE DEF hits
<1>3. \E t \in hits : \A u \in hits : u <= t
  BY <1>1, <1>2, Greatest
<1> QED  BY <1>1, <1>2, <1>3

LEMMA WiredRows ==
  ASSUME NEW rows \in Seq(Rows), NEW repository, NEW items,
         NEW p \in WiredPairs(rows, repository, items)
  PROVE  /\ p[1] \in DOMAIN rows /\ p[2] \in DOMAIN rows
         /\ rows[p[1]].repository = repository /\ rows[p[2]].repository = repository
<1>1. /\ p \in {<<TaskOfRef(rows, repository, items[i].ref), TaskOfRef(rows, repository, r)>> :
                   i \in {j \in DOMAIN items : items[j].ref # NoRef},
                   r \in UNION {items[j].dependencies : j \in DOMAIN items}}
      /\ p[1] # 0 /\ p[2] # 0
  BY DEF WiredPairs
<1>2. PICK i \in DOMAIN items, r \in UNION {items[j].dependencies : j \in DOMAIN items} :
        p = <<TaskOfRef(rows, repository, items[i].ref), TaskOfRef(rows, repository, r)>>
  BY <1>1
<1>3. /\ p[1] = TaskOfRef(rows, repository, items[i].ref)
      /\ p[2] = TaskOfRef(rows, repository, r)
  BY <1>2
<1> QED  BY <1>1, <1>3, RefNamesRow

-----------------------------------------------------------------------------
(* The steps                                                               *)

Inserted == {e \in edges : e.origin # "import"}

\* The statuses of rows change, and nothing else.
StatusesChange ==
  /\ tasks' \in Seq(Rows) /\ Len(tasks') = Len(tasks) /\ DOMAIN tasks' = DOMAIN tasks
  /\ \A t \in DOMAIN tasks : tasks'[t].repository = tasks[t].repository
  /\ UNCHANGED <<projects, repositories, edges>>

LEMMA StatusSet ==
  ASSUME TypeOK, NEW t \in DOMAIN tasks, NEW to \in TaskStatuses, SetTaskStatus(t, to),
         UNCHANGED <<projects, repositories, edges>>
  PROVE  StatusesChange
<1>0. tasks \in Seq(Rows)  BY DEF TypeOK
<1>1. tasks[t] \in Rows /\ t \in 1 .. Len(tasks) /\ DOMAIN tasks = 1 .. Len(tasks)
  BY <1>0, RowsDomain
<1> DEFINE r == [tasks[t] EXCEPT !.status = to]
<1>2. r \in Rows /\ r.repository = tasks[t].repository
  BY <1>1 DEF Rows
<1>3. tasks' = [tasks EXCEPT ![t] = r]
  BY DEF SetTaskStatus
<1> HIDE DEF r
<1>4. tasks' \in Seq(Rows) /\ Len(tasks') = Len(tasks)
  BY <1>0, <1>1, <1>2, <1>3, ExceptSeq
<1> QED  BY <1>0, <1>1, <1>2, <1>3, <1>4, RowsDomain DEF StatusesChange

LEMMA StatusStepKeeps ==
  ASSUME TypeOK, NEW t \in TaskIds, StatusStep(t)
  PROVE  StatusesChange
<1>1. CASE RecalculateDependents(t)
  <2> DEFINE dependents == {e.task : e \in {x \in edges : x.dependsOn = t
                                       /\ x.type = "blocks" /\ x.hard}}
             released == {u \in dependents : Status(u) = "BLOCKED" /\ ComputeReadiness(u)}
  <2>1. /\ tasks' = [u \in DOMAIN tasks |->
                       IF u \in released THEN [tasks[u] EXCEPT !.status = "READY"]
                       ELSE tasks[u]]
        /\ UNCHANGED <<projects, repositories, edges>>
    BY <1>1 DEF RecalculateDependents
  <2>2. tasks \in Seq(Rows)  BY DEF TypeOK
  <2>3. /\ Len(tasks) \in Nat /\ DOMAIN tasks = 1 .. Len(tasks)
        /\ \A u \in DOMAIN tasks : tasks[u] \in Rows
    BY <2>2, RowsDomain
  <2>4. \A u \in DOMAIN tasks : /\ [tasks[u] EXCEPT !.status = "READY"] \in Rows
                              /\ [tasks[u] EXCEPT !.status = "READY"].repository
                                   = tasks[u].repository
    BY <2>3 DEF Rows, TaskStatuses
  <2> HIDE DEF released
  <2>5. /\ DOMAIN tasks' = 1 .. Len(tasks) /\ tasks' \in [1 .. Len(tasks) -> Rows]
        /\ \A u \in DOMAIN tasks : tasks'[u].repository = tasks[u].repository
    BY <2>1, <2>3, <2>4
  <2>6. tasks' \in Seq(Rows) /\ Len(tasks') = Len(tasks)
    BY <2>3, <2>5
  <2> QED  BY <2>1, <2>3, <2>5, <2>6 DEF StatusesChange
<1>2. CASE ReconcileTaskReadiness(t) \/ FinishTask(t) \/ CancelTask(t)
           \/ ForceUnblock(t) \/ ReopenTask(t)
  <2>1. /\ t \in DOMAIN tasks /\ UNCHANGED <<projects, repositories, edges>>
        /\ \E to \in {"READY", "BLOCKED", "DONE", "CANCELLED", "BACKLOG"} :
             SetTaskStatus(t, to)
    BY <1>2 DEF ReconcileTaskReadiness, FinishTask, CancelTask, ForceUnblock,
                ReopenTask, Exists
  <2>2. {"READY", "BLOCKED", "DONE", "CANCELLED", "BACKLOG"} \subseteq TaskStatuses
    BY DEF TaskStatuses
  <2> QED  BY <2>1, <2>2, StatusSet
<1> QED  BY <1>1, <1>2 DEF StatusStep

LEMMA StatusesChangeSound ==
  ASSUME BacklogInv, StatusesChange
  PROVE  BacklogInv'
<1>1. TypeOK'
  BY DEF BacklogInv, TypeOK, StatusesChange
<1>2. CatalogSound'
  BY DEF BacklogInv, CatalogSound, StatusesChange
<1>3. EdgesSound' /\ PairsUnique' /\ OnlyImportClosesCycles'
  BY DEF BacklogInv, EdgesSound, PairsUnique, OnlyImportClosesCycles, Acyclic, StatusesChange
<1> QED  BY <1>1, <1>2, <1>3 DEF BacklogInv

LEMMA CatalogStepSound ==
  ASSUME BacklogInv, CatalogStep
  PROVE  BacklogInv'
<1>1. tasks' = tasks /\ edges' = edges
  BY DEF CatalogStep, CreateProject, DeleteProject, CreateRepository, DeleteRepository
<1>2. TypeOK' /\ CatalogSound'
  <2>0. TypeOK /\ CatalogSound  BY DEF BacklogInv
  <2>1. PICK p \in Projects :
          \/ CreateProject(p) \/ DeleteProject(p)
          \/ \E r \in Repositories : CreateRepository(p, r) \/ DeleteRepository(p, r)
    BY DEF CatalogStep
  <2>2. CASE CreateProject(p) \/ DeleteProject(p)
    BY <1>1, <2>0, <2>2 DEF CreateProject, DeleteProject, TypeOK, CatalogSound
  <2>3. ASSUME NEW r \in Repositories, CreateRepository(p, r)
        PROVE  TypeOK' /\ CatalogSound'
    BY <1>1, <2>0, <2>3 DEF CreateRepository, TypeOK, CatalogSound
  <2>4. ASSUME NEW r \in Repositories, DeleteRepository(p, r)
        PROVE  TypeOK' /\ CatalogSound'
    BY <1>1, <2>0, <2>4 DEF DeleteRepository, TypeOK, CatalogSound
  <2> QED  BY <2>1, <2>2, <2>3, <2>4
<1>3. EdgesSound' /\ PairsUnique' /\ OnlyImportClosesCycles'
  BY <1>1 DEF BacklogInv, EdgesSound, PairsUnique, OnlyImportClosesCycles, Acyclic
<1> QED  BY <1>2, <1>3 DEF BacklogInv

LEMMA AddDependencySound ==
  ASSUME BacklogInv, NEW t \in TaskIds, NEW d \in TaskIds, NEW type, NEW hard,
         AddDependency(t, d, type, hard)
  PROVE  BacklogInv'
<1> DEFINE x == Edge(t, d, type, hard, "service")
<1>0. TypeOK /\ CatalogSound /\ EdgesSound /\ PairsUnique /\ OnlyImportClosesCycles
  BY DEF BacklogInv
<1>1. /\ t # d /\ t \in DOMAIN tasks /\ d \in DOMAIN tasks
      /\ FindByTaskIdPair(t, d) = {} /\ t \notin Reachable(edges, d)
      /\ edges' = edges \cup {x} /\ UNCHANGED <<projects, repositories, tasks>>
  BY DEF AddDependency, Exists, DetectCycle
<1>2. x.task = t /\ x.dependsOn = d /\ x.origin = "service"
  BY DEF Edge
<1> HIDE DEF x
<1>3. TypeOK' /\ CatalogSound'
  BY <1>0, <1>1 DEF TypeOK, CatalogSound
<1>4. EdgesSound'
  BY <1>0, <1>1, <1>2 DEF EdgesSound
<1>5. PairsUnique'
  BY <1>0, <1>1, <1>2 DEF PairsUnique, FindByTaskIdPair
<1>6. OnlyImportClosesCycles'
  <2>1. PICK S \in SUBSET DOMAIN tasks :
          /\ \A e \in edges : e.task \in S \cup {d} => e.dependsOn \in S
          /\ t \notin S
    BY <1>1 DEF Reachable
  <2>2. Acyclic(Inserted)
    BY <1>0 DEF OnlyImportClosesCycles, Inserted
  <2>3. Acyclic(Inserted \cup {x})
    <3>1. \A e \in Inserted : e.task \in S \cup {x.dependsOn} => e.dependsOn \in S
      BY <1>2, <2>1 DEF Inserted
    <3> QED  BY <1>1, <1>2, <2>1, <2>2, <3>1, AcyclicEdge
  <2>4. {e \in edges' : e.origin # "import"} = Inserted \cup {x}
    BY <1>1, <1>2 DEF Inserted
  <2> QED  BY <2>3, <2>4 DEF OnlyImportClosesCycles, Acyclic
<1> QED  BY <1>3, <1>4, <1>5, <1>6 DEF BacklogInv

LEMMA RemoveDependencySound ==
  ASSUME BacklogInv, NEW x \in edges, RemoveDependency(x)
  PROVE  BacklogInv'
<1>0. TypeOK /\ CatalogSound /\ EdgesSound /\ PairsUnique /\ OnlyImportClosesCycles
  BY DEF BacklogInv
<1>1. edges' = edges \ {x} /\ UNCHANGED <<projects, repositories, tasks>>
  BY DEF RemoveDependency
<1>2. TypeOK' /\ CatalogSound' /\ EdgesSound' /\ PairsUnique'
  BY <1>0, <1>1 DEF TypeOK, CatalogSound, EdgesSound, PairsUnique
<1>3. OnlyImportClosesCycles'
  BY <1>0, <1>1 DEF OnlyImportClosesCycles, Acyclic
<1> QED  BY <1>2, <1>3 DEF BacklogInv

\* Appended rows of known repositories keep the catalogue and the types.
LEMMA AppendedSound ==
  ASSUME TypeOK, CatalogSound, NEW n \in Nat, Appended(n), Len(tasks) + n <= MaxTasks,
         NEW x \in repositories',
         \A k \in 1 .. n : tasks'[Len(tasks) + k].repository = x,
         repositories \subseteq repositories',
         repositories' \in SUBSET (Projects \X Repositories),
         projects' \in SUBSET Projects,
         \A y \in repositories' : y[1] \in projects'
  PROVE  TypeOK' /\ CatalogSound'
<1>1. TypeOK'
  BY DEF TypeOK, Appended
<1>2. ASSUME NEW t \in DOMAIN tasks'
      PROVE  tasks'[t].repository \in repositories'
  <2>1. CASE t \in DOMAIN tasks
    BY <2>1 DEF Appended, CatalogSound
  <2>2. CASE t \notin DOMAIN tasks
    <3>1. Len(tasks) \in Nat
      BY RowsDomain DEF TypeOK
    <3>2. t - Len(tasks) \in 1 .. n /\ t = Len(tasks) + (t - Len(tasks))
      BY <2>2, <3>1 DEF Appended
    <3> QED  BY <3>2
  <2> QED  BY <2>1, <2>2
<1> QED  BY <1>1, <1>2 DEF CatalogSound

LEMMA CreateTasksSound ==
  ASSUME BacklogInv, NEW x \in repositories, NEW b \in Batches, CreateTasks(x, b)
  PROVE  BacklogInv'
<1>0. TypeOK /\ CatalogSound /\ EdgesSound /\ PairsUnique /\ OnlyImportClosesCycles
  BY DEF BacklogInv
<1>1. PICK n \in Nat : /\ Appended(n) /\ Len(tasks) + n <= MaxTasks
                       /\ \A k \in 1 .. n : tasks'[Len(tasks) + k].repository = x
  BY <1>0, CreateAppends
<1>2. UNCHANGED <<projects, repositories, edges>>
  BY DEF CreateTasks
<1>3. TypeOK' /\ CatalogSound'
  <2>1. /\ x \in repositories' /\ repositories \subseteq repositories'
        /\ repositories' \in SUBSET (Projects \X Repositories)
        /\ projects' \in SUBSET Projects /\ \A y \in repositories' : y[1] \in projects'
    BY <1>0, <1>2 DEF TypeOK, CatalogSound
  <2> QED  BY <1>0, <1>1, <2>1, AppendedSound
<1>4. EdgesSound' /\ PairsUnique' /\ OnlyImportClosesCycles'
  BY <1>0, <1>1, <1>2
     DEF EdgesSound, PairsUnique, OnlyImportClosesCycles, Acyclic, Appended
<1> QED  BY <1>3, <1>4 DEF BacklogInv

LEMMA FollowUpSound ==
  ASSUME BacklogInv, NEW t \in TaskIds, NEW source \in FollowUpSources,
         CreateFollowUpTasks(t, source)
  PROVE  BacklogInv'
<1>0. TypeOK /\ CatalogSound /\ EdgesSound /\ PairsUnique /\ OnlyImportClosesCycles
  BY DEF BacklogInv
<1>1. PICK n \in Nat :
        /\ Appended(n) /\ Len(tasks) + n <= MaxTasks
        /\ \A k \in 1 .. n : tasks'[Len(tasks) + k].repository = tasks[t].repository
        /\ edges' = edges \cup {Edge(Len(tasks) + i, t, "relates_to", FALSE, "follow_up") :
                                   i \in 1 .. n}
  BY <1>0, FollowUpAppends
<1>2. t \in DOMAIN tasks /\ UNCHANGED <<projects, repositories>>
  BY DEF CreateFollowUpTasks, Exists
<1> DEFINE F == {Edge(Len(tasks) + i, t, "relates_to", FALSE, "follow_up") : i \in 1 .. n}
<1>3. Len(tasks) \in Nat /\ DOMAIN tasks = 1 .. Len(tasks)
  BY <1>0, RowsDomain DEF TypeOK
<1>4. TypeOK' /\ CatalogSound'
  <2>1. /\ tasks[t].repository \in repositories' /\ repositories \subseteq repositories'
        /\ repositories' \in SUBSET (Projects \X Repositories)
        /\ projects' \in SUBSET Projects /\ \A y \in repositories' : y[1] \in projects'
    BY <1>0, <1>2 DEF TypeOK, CatalogSound
  <2>2. PICK x \in repositories' : x = tasks[t].repository
    BY <2>1
  <2> QED  BY <1>0, <1>1, <2>1, <2>2, AppendedSound
<1>5. \A e \in F : /\ e.task \in DOMAIN tasks' /\ e.task \notin DOMAIN tasks
                  /\ e.dependsOn = t /\ e.origin = "follow_up"
  BY <1>1, <1>3 DEF Edge, Appended
<1>6. \A e, f \in F : e.task = f.task => e = f
  <2>1. SUFFICES ASSUME NEW e \in F, NEW f \in F, e.task = f.task  PROVE e = f
    OBVIOUS
  <2>2. PICK i \in 1 .. n : e = Edge(Len(tasks) + i, t, "relates_to", FALSE, "follow_up")
    OBVIOUS
  <2>3. PICK j \in 1 .. n : f = Edge(Len(tasks) + j, t, "relates_to", FALSE, "follow_up")
    OBVIOUS
  <2>4. e.task = Len(tasks) + i /\ f.task = Len(tasks) + j
    BY <2>2, <2>3 DEF Edge
  <2> QED  BY <1>3, <2>1, <2>2, <2>3, <2>4
<1>7. edges' = edges \cup F
  BY <1>1
<1> HIDE DEF F
<1>8. EdgesSound'
  BY <1>0, <1>1, <1>2, <1>5, <1>7 DEF EdgesSound, Appended
<1>9. PairsUnique'
  BY <1>0, <1>5, <1>6, <1>7 DEF PairsUnique, EdgesSound
<1>10. OnlyImportClosesCycles'
  <2>1. Acyclic(Inserted)
    BY <1>0 DEF OnlyImportClosesCycles, Inserted
  <2>2. Acyclic(Inserted \cup F)
    <3>1. \A e \in Inserted : e.task \in DOMAIN tasks /\ e.dependsOn \in DOMAIN tasks
      BY <1>0 DEF Inserted, EdgesSound
    <3>2. \A e \in F : e.task \notin DOMAIN tasks /\ e.dependsOn \in DOMAIN tasks
      BY <1>2, <1>5
    <3> QED  BY <2>1, <3>1, <3>2, AcyclicNewTasks
  <2>3. {e \in edges' : e.origin # "import"} = Inserted \cup F
    BY <1>5, <1>7 DEF Inserted
  <2> QED  BY <2>2, <2>3 DEF OnlyImportClosesCycles, Acyclic
<1> QED  BY <1>4, <1>8, <1>9, <1>10 DEF BacklogInv

LEMMA ExecuteSound ==
  ASSUME BacklogInv, NEW req \in Requests, Execute(req)
  PROVE  BacklogInv'
<1> DEFINE x == <<req.project, req.repository>>
           pairs == {q \in WiredPairs(tasks', x, req.tasks) : FindByTaskIdPair(q[1], q[2]) = {}}
           F == {Edge(p[1], p[2], "blocks", TRUE, "import") : p \in pairs}
<1>0. TypeOK /\ CatalogSound /\ EdgesSound /\ PairsUnique /\ OnlyImportClosesCycles
  BY DEF BacklogInv
<1>1. PICK n \in Nat :
        /\ Appended(n) /\ Len(tasks) + n <= MaxTasks
        /\ \A k \in 1 .. n : tasks'[Len(tasks) + k].repository = x
        /\ projects' = projects \cup {req.project} /\ repositories' = repositories \cup {x}
        /\ edges' = edges \cup F
  BY <1>0, ExecuteAppends
<1>2. /\ req.project \in Projects /\ x \in Projects \X Repositories /\ x[1] = req.project
  BY BacklogAssumption
<1>3. ASSUME NEW p \in pairs
      PROVE  /\ p[1] \in DOMAIN tasks' /\ p[2] \in DOMAIN tasks'
             /\ \A e \in edges : ~(e.task = p[1] /\ e.dependsOn = p[2])
  <2>1. p \in WiredPairs(tasks', x, req.tasks) /\ FindByTaskIdPair(p[1], p[2]) = {}
    OBVIOUS
  <2>2. tasks' \in Seq(Rows)
    BY <1>1 DEF Appended
  <2> HIDE DEF x, pairs
  <2>3. p[1] \in DOMAIN tasks' /\ p[2] \in DOMAIN tasks'
    BY <2>1, <2>2, WiredRows
  <2> QED  BY <2>1, <2>3 DEF FindByTaskIdPair
<1> HIDE DEF x, pairs
<1>4. TypeOK' /\ CatalogSound'
  <2>1. /\ x \in repositories' /\ repositories \subseteq repositories'
        /\ repositories' \in SUBSET (Projects \X Repositories)
        /\ projects' \in SUBSET Projects /\ \A y \in repositories' : y[1] \in projects'
    BY <1>0, <1>1, <1>2 DEF TypeOK, CatalogSound
  <2> QED  BY <1>0, <1>1, <2>1, AppendedSound
<1>5. \A e \in F : /\ e.origin = "import"
                  /\ \E p \in pairs : /\ e = Edge(p[1], p[2], "blocks", TRUE, "import")
                                      /\ e.task = p[1] /\ e.dependsOn = p[2]
  BY DEF Edge
<1> HIDE DEF F
<1>6. EdgesSound'
  BY <1>0, <1>1, <1>3, <1>5 DEF EdgesSound, Appended
<1>7. PairsUnique'
  <2> SUFFICES ASSUME NEW e \in edges', NEW f \in edges', e.task = f.task,
                      e.dependsOn = f.dependsOn
               PROVE  e = f
    BY DEF PairsUnique
  <2>1. CASE e \in edges /\ f \in edges
    BY <1>0, <2>1 DEF PairsUnique
  <2>2. CASE e \in F /\ f \in F
    BY <1>5, <2>2
  <2>3. CASE e \in F /\ f \in edges
    BY <1>3, <1>5, <2>3
  <2>4. CASE e \in edges /\ f \in F
    BY <1>3, <1>5, <2>4
  <2> QED  BY <1>1, <2>1, <2>2, <2>3, <2>4
<1>8. OnlyImportClosesCycles'
  <2>1. {e \in edges' : e.origin # "import"} = {e \in edges : e.origin # "import"}
    BY <1>1, <1>5
  <2> QED  BY <1>0, <2>1 DEF OnlyImportClosesCycles, Acyclic
<1> QED  BY <1>4, <1>6, <1>7, <1>8 DEF BacklogInv

-----------------------------------------------------------------------------
(* The theorems                                                            *)

(* The rows keep the foreign keys and the unique index of the schema, under  *)
(* every order of requests of the services and the importer, and no edge but *)
(* an imported one closes a cycle.                                           *)
THEOREM BacklogInvariant == BacklogSpec => []BacklogInv
<1>1. Init => BacklogInv
  <2> SUFFICES ASSUME Init PROVE BacklogInv
    OBVIOUS
  <2>1. /\ tasks \in Seq(Rows) /\ Len(tasks) = 0 /\ edges = {} /\ DOMAIN tasks = {}
    BY EmptySeq DEF Init
  <2>2. TypeOK /\ CatalogSound
    BY <2>1, BacklogAssumption DEF Init, TypeOK, CatalogSound
  <2>3. EdgesSound /\ PairsUnique /\ OnlyImportClosesCycles
    BY <2>1 DEF EdgesSound, PairsUnique, OnlyImportClosesCycles, Acyclic
  <2> QED  BY <2>2, <2>3 DEF BacklogInv
<1>2. BacklogInv /\ [Next]_vars => BacklogInv'
  <2> SUFFICES ASSUME BacklogInv, [Next]_vars PROVE BacklogInv'
    OBVIOUS
  <2>1. CASE CatalogStep  BY <2>1, CatalogStepSound
  <2>2. CASE GraphStep
    BY <2>2, CreateTasksSound, AddDependencySound, RemoveDependencySound, FollowUpSound,
       ExecuteSound DEF GraphStep
  <2>3. ASSUME NEW t \in TaskIds, StatusStep(t) PROVE BacklogInv'
    BY <2>3, StatusStepKeeps, StatusesChangeSound DEF BacklogInv
  <2>4. CASE UNCHANGED vars
    BY <2>4 DEF vars, BacklogInv, TypeOK, CatalogSound, EdgesSound, PairsUnique,
                OnlyImportClosesCycles, Acyclic
  <2> QED  BY <2>1, <2>2, <2>3, <2>4 DEF Next
<1> QED  BY <1>1, <1>2, PTL DEF BacklogSpec

(* The edges that the dependency service and the follow-up tasks insert      *)
(* close no cycle, of whatever types and in whatever order tasks, edges,     *)
(* follow-ups and imports arrive (detectCycle).                              *)
THEOREM OnlyImportClosesCyclesHolds == BacklogSpec => []OnlyImportClosesCycles
<1>1. BacklogInv => OnlyImportClosesCycles  BY DEF BacklogInv
<1> QED  BY <1>1, BacklogInvariant, PTL

(* References repeat from one repository to the next, yet an imported edge,  *)
(* like a follow-up's, joins two tasks of one repository                     *)
(* (externalRefToTaskId, createFollowUpTasks).                               *)
THEOREM EdgesStayInRepositoryHolds == BacklogSpec => []EdgesStayInRepository
<1>1. Init => EdgesStayInRepository
  BY DEF Init, EdgesStayInRepository
<1>2. BacklogInv /\ EdgesStayInRepository /\ [Next]_vars => EdgesStayInRepository'
  <2> SUFFICES ASSUME BacklogInv, EdgesStayInRepository, [Next]_vars
               PROVE  EdgesStayInRepository'
    OBVIOUS
  <2>0. TypeOK /\ EdgesSound  BY DEF BacklogInv
  <2>1. ASSUME edges' \subseteq edges,
               \A t \in DOMAIN tasks : tasks'[t].repository = tasks[t].repository
        PROVE  EdgesStayInRepository'
    BY <2>0, <2>1 DEF EdgesStayInRepository, EdgesSound
  <2>2. CASE CatalogStep \/ UNCHANGED vars
    <3>1. edges' = edges /\ tasks' = tasks
      BY <2>2 DEF CatalogStep, CreateProject, DeleteProject, CreateRepository,
                  DeleteRepository, vars
    <3> QED  BY <2>1, <3>1
  <2>3. ASSUME NEW t \in TaskIds, StatusStep(t) PROVE EdgesStayInRepository'
    BY <2>0, <2>1, <2>3, StatusStepKeeps DEF StatusesChange
  <2>4. ASSUME NEW x \in repositories, NEW b \in Batches, CreateTasks(x, b)
        PROVE  EdgesStayInRepository'
    <3>1. edges' = edges
      BY <2>4 DEF CreateTasks
    <3>2. \E n \in Nat : Appended(n)
      BY <2>0, <2>4, CreateAppends
    <3> QED  BY <2>1, <3>1, <3>2 DEF Appended
  <2>5. ASSUME NEW t \in TaskIds, NEW d \in TaskIds, NEW k \in EdgeKinds,
               AddDependency(t, d, k[1], k[2])
        PROVE  EdgesStayInRepository'
    <3>1. /\ edges' = edges \cup {Edge(t, d, k[1], k[2], "service")} /\ tasks' = tasks
          /\ Edge(t, d, k[1], k[2], "service").origin = "service"
      BY <2>5 DEF AddDependency, Edge
    <3> QED  BY <3>1 DEF EdgesStayInRepository
  <2>6. ASSUME NEW x \in edges, RemoveDependency(x) PROVE EdgesStayInRepository'
    <3>1. edges' \subseteq edges /\ tasks' = tasks
      BY <2>6 DEF RemoveDependency
    <3> QED  BY <2>1, <3>1
  <2>7. ASSUME NEW t \in TaskIds, NEW source \in FollowUpSources,
               CreateFollowUpTasks(t, source)
        PROVE  EdgesStayInRepository'
    <3>1. PICK n \in Nat :
            /\ Appended(n)
            /\ \A k \in 1 .. n : tasks'[Len(tasks) + k].repository = tasks[t].repository
            /\ edges' = edges \cup {Edge(Len(tasks) + i, t, "relates_to", FALSE, "follow_up") :
                                       i \in 1 .. n}
      BY <2>0, <2>7, FollowUpAppends
    <3>2. t \in DOMAIN tasks
      BY <2>7 DEF CreateFollowUpTasks, Exists
    <3>3. \A i \in 1 .. n : LET e == Edge(Len(tasks) + i, t, "relates_to", FALSE, "follow_up")
            IN  e.task = Len(tasks) + i /\ e.dependsOn = t
      BY DEF Edge
    <3>4. \A i \in 1 .. n : tasks'[Len(tasks) + i].repository = tasks'[t].repository
      BY <3>1, <3>2 DEF Appended
    <3>5. ASSUME NEW e \in edges'
          PROVE  e \in edges \/ tasks'[e.task].repository = tasks'[e.dependsOn].repository
      <4>1. CASE e \notin edges
        <5>1. PICK i \in 1 .. n : e = Edge(Len(tasks) + i, t, "relates_to", FALSE, "follow_up")
          BY <3>1, <4>1
        <5>2. e.task = Len(tasks) + i /\ e.dependsOn = t
          BY <3>3, <5>1
        <5> QED  BY <3>4, <5>2
      <4> QED  BY <4>1
    <3>6. \A e \in edges : /\ tasks'[e.task] = tasks[e.task]
                           /\ tasks'[e.dependsOn] = tasks[e.dependsOn]
      BY <2>0, <3>1 DEF Appended, EdgesSound
    <3> QED  BY <3>5, <3>6 DEF EdgesStayInRepository
  <2>8. ASSUME NEW req \in Requests, Execute(req) PROVE EdgesStayInRepository'
    <3> DEFINE x == <<req.project, req.repository>>
               pairs == WiredPairs(tasks', x, req.tasks)
    <3>1. PICK n \in Nat :
            /\ Appended(n)
            /\ edges' = edges \cup
                 {Edge(p[1], p[2], "blocks", TRUE, "import") :
                    p \in {q \in pairs : FindByTaskIdPair(q[1], q[2]) = {}}}
      BY <2>0, <2>8, ExecuteAppends
    <3>2. \A p \in pairs : tasks'[p[1]].repository = x /\ tasks'[p[2]].repository = x
      BY <3>1, WiredRows DEF Appended
    <3>3. \A p \in pairs : LET e == Edge(p[1], p[2], "blocks", TRUE, "import")
            IN  e.task = p[1] /\ e.dependsOn = p[2]
      BY DEF Edge
    <3> HIDE DEF x, pairs
    <3>5. ASSUME NEW e \in edges'
          PROVE  e \in edges \/ tasks'[e.task].repository = tasks'[e.dependsOn].repository
      <4>1. CASE e \notin edges
        <5>1. PICK p \in pairs : e = Edge(p[1], p[2], "blocks", TRUE, "import")
          BY <3>1, <4>1
        <5>2. e.task = p[1] /\ e.dependsOn = p[2]
          BY <3>3, <5>1
        <5> QED  BY <3>2, <5>2
      <4> QED  BY <4>1
    <3>6. \A e \in edges : /\ tasks'[e.task] = tasks[e.task]
                           /\ tasks'[e.dependsOn] = tasks[e.dependsOn]
      BY <2>0, <3>1 DEF Appended, EdgesSound
    <3> QED  BY <3>5, <3>6 DEF EdgesStayInRepository
  <2> QED
    BY <2>2, <2>3, <2>4, <2>5, <2>6, <2>7, <2>8 DEF Next, GraphStep
<1> QED  BY <1>1, <1>2, BacklogInvariant, PTL DEF BacklogSpec

(* An import adds exactly what is missing: every referenced item is in the   *)
(* repository afterwards, none that the repository knew before is added      *)
(* again, and the rows that were there stay as they are (execute).           *)
THEOREM ImportAddsTheMissingHolds == BacklogSpec => ImportAddsTheMissing
<1> DEFINE InTarget(req, rows, t, ref) ==
             /\ rows[t].ref = ref
             /\ rows[t].repository = <<req.project, req.repository>>
           Added(req) ==
             /\ SubSeq(tasks', 1, Len(tasks)) = tasks
             /\ \A i \in DOMAIN req.tasks : req.tasks[i].ref # NoRef =>
                  /\ \E t \in DOMAIN tasks' : InTarget(req, tasks', t, req.tasks[i].ref)
                  /\ (\E u \in DOMAIN tasks : InTarget(req, tasks, u, req.tasks[i].ref))
                       => \A t \in DOMAIN tasks' \ DOMAIN tasks :
                            ~InTarget(req, tasks', t, req.tasks[i].ref)
<1>1. ASSUME TypeOK, NEW req \in Requests, Execute(req)
      PROVE  Added(req)
  <2> DEFINE x == <<req.project, req.repository>>
  <2>0. PICK n \in Nat : \E order \in [1 .. n -> DOMAIN req.tasks] :
           /\ Appended(n)
           /\ \A k \in 1 .. n : /\ ~IsSkipped(x, req.tasks[order[k]])
                               /\ tasks'[Len(tasks) + k].repository = x
                               /\ tasks'[Len(tasks) + k].ref = req.tasks[order[k]].ref
           /\ \A i \in DOMAIN req.tasks : \/ IsSkipped(x, req.tasks[i])
                                         \/ \E k \in 1 .. n : order[k] = i
    BY <1>1, ExecuteAppends
  <2>1. PICK order \in [1 .. n -> DOMAIN req.tasks] :
           /\ Appended(n)
           /\ \A k \in 1 .. n : /\ ~IsSkipped(x, req.tasks[order[k]])
                               /\ tasks'[Len(tasks) + k].repository = x
                               /\ tasks'[Len(tasks) + k].ref = req.tasks[order[k]].ref
           /\ \A i \in DOMAIN req.tasks : \/ IsSkipped(x, req.tasks[i])
                                         \/ \E k \in 1 .. n : order[k] = i
    BY <2>0
  <2> HIDE DEF x
  <2>2. /\ tasks \in Seq(Rows) /\ Len(tasks) \in Nat /\ DOMAIN tasks = 1 .. Len(tasks)
        /\ \A t \in DOMAIN tasks : tasks[t] \in Rows
    BY <1>1, RowsDomain DEF TypeOK
  <2>3. SubSeq(tasks', 1, Len(tasks)) = tasks
    <3>1. \A i \in 1 .. Len(tasks) : tasks'[i] = tasks[i] /\ tasks'[i] \in Rows
      BY <2>1, <2>2 DEF Appended
    <3>2. /\ SubSeq(tasks', 1, Len(tasks)) \in Seq(Rows)
          /\ Len(SubSeq(tasks', 1, Len(tasks))) = Len(tasks)
          /\ \A i \in 1 .. Len(tasks) : SubSeq(tasks', 1, Len(tasks))[i] = tasks'[i]
      BY <2>2, <3>1, SubSeqProperties
    <3> QED  BY <2>2, <3>1, <3>2, SeqEqual
  <2>4. ASSUME NEW i \in DOMAIN req.tasks, req.tasks[i].ref # NoRef
        PROVE  \E t \in DOMAIN tasks' : tasks'[t].ref = req.tasks[i].ref
                                       /\ tasks'[t].repository = x
    <3>1. CASE IsSkipped(x, req.tasks[i])
      <4>1. PICK t \in DOMAIN tasks : tasks[t].repository = x /\ tasks[t].ref = req.tasks[i].ref
        BY <3>1 DEF IsSkipped, ExistingRefs
      <4> QED  BY <2>1, <4>1 DEF Appended
    <3>2. CASE ~IsSkipped(x, req.tasks[i])
      <4>1. PICK k \in 1 .. n : order[k] = i
        BY <2>1, <3>2
      <4>2. Len(tasks) + k \in DOMAIN tasks'
        BY <2>1, <2>2 DEF Appended
      <4> QED  BY <2>1, <4>1, <4>2
    <3> QED  BY <3>1, <3>2
  <2>5. ASSUME NEW i \in DOMAIN req.tasks, req.tasks[i].ref # NoRef,
               NEW u \in DOMAIN tasks, tasks[u].ref = req.tasks[i].ref,
               tasks[u].repository = x,
               NEW t \in DOMAIN tasks' \ DOMAIN tasks, tasks'[t].ref = req.tasks[i].ref
        PROVE  FALSE
    <3>1. t - Len(tasks) \in 1 .. n /\ t = Len(tasks) + (t - Len(tasks))
      BY <2>1, <2>2 DEF Appended
    <3>2. PICK k \in 1 .. n : t = Len(tasks) + k
      BY <3>1
    <3>3. ~IsSkipped(x, req.tasks[order[k]]) /\ req.tasks[order[k]].ref = req.tasks[i].ref
      BY <2>1, <2>5, <3>2
    <3>4. req.tasks[i].ref \in ExistingRefs(x)
      BY <2>5 DEF ExistingRefs
    <3> QED  BY <3>3, <3>4 DEF IsSkipped
  <2> QED  BY <2>3, <2>4, <2>5 DEF x
<1>2. BacklogInv /\ [Next]_vars => [\A req \in Requests : Execute(req) => Added(req)]_vars
  <2> HIDE DEF Added
  <2> QED  BY <1>1 DEF BacklogInv
<1> QED  BY <1>2, BacklogInvariant, PTL DEF BacklogSpec, ImportAddsTheMissing

-----------------------------------------------------------------------------
(* The discovery: sequences of tasks                                       *)

\* A task is about a file of the directory.
FoundTasks ==
  [file : FileIds, ref : References \cup {NoReference}, status : ReadStatuses,
   by : {"llm", "parser"}]

\* No file has two tasks.
Distinct(q) == \A k, l \in DOMAIN q : q[k].file = q[l].file => k = l

\* A file has a task.
Holds(q, i) == \E k \in DOMAIN q : q[k].file = i

LEMMA Least ==
  ASSUME NEW n \in Nat, NEW S \in SUBSET (1 .. n), S # {}
  PROVE  \E t \in S : \A u \in S : t <= u
<1> DEFINE less == {ss \in Nat \X Nat : ss[1] < ss[2]}
<1>1. IsWellFoundedOn(less, Nat)
  BY NatLessThanWellFounded, Zenon DEF OpToRel
<1>2. S \subseteq Nat
  OBVIOUS
<1>3. \A i, j \in Nat : <<j, i>> \in less <=> j < i
  OBVIOUS
<1> HIDE DEF less
<1>4. PICK t \in S : \A u \in S : ~ (<<u, t>> \in less)
  BY <1>1, <1>2, WFMin
<1>5. \A u \in S : ~(u < t)
  BY <1>2, <1>3, <1>4, Zenon
<1>6. \A u \in S : t <= u
  BY <1>2, <1>5
<1> QED  BY <1>6

\* Where the elements of a concatenation come from.
LEMMA JoinedAt ==
  ASSUME NEW S, NEW p \in Seq(S), NEW q \in Seq(S), NEW r, r = p \o q
  PROVE  /\ r \in Seq(S) /\ Len(p) \in Nat
         /\ \A k \in DOMAIN r :
              /\ k \in Nat
              /\ \/ k \in DOMAIN p /\ r[k] = p[k]
                 \/ k - Len(p) \in DOMAIN q /\ r[k] = q[k - Len(p)]
         /\ \A i \in DOMAIN p : i \in DOMAIN r /\ r[i] = p[i]
         /\ \A i \in DOMAIN q : Len(p) + i \in DOMAIN r /\ r[Len(p) + i] = q[i]
<1>1. /\ Len(p) \in Nat /\ DOMAIN p = 1 .. Len(p) /\ Len(q) \in Nat /\ DOMAIN q = 1 .. Len(q)
  BY LenProperties
<1>2. /\ p \o q \in Seq(S) /\ Len(p \o q) = Len(p) + Len(q)
      /\ \A k \in 1 .. Len(p) + Len(q) :
           (p \o q)[k] = IF k <= Len(p) THEN p[k] ELSE q[k - Len(p)]
  BY ConcatProperties
<1>3. /\ r \in Seq(S) /\ Len(r) = Len(p) + Len(q)
      /\ \A k \in 1 .. Len(p) + Len(q) :
           r[k] = IF k <= Len(p) THEN p[k] ELSE q[k - Len(p)]
  BY <1>2
<1>4. DOMAIN r = 1 .. Len(p) + Len(q)
  BY <1>3, LenProperties
<1>5. ASSUME NEW k \in DOMAIN r
      PROVE  /\ k \in Nat
             /\ \/ k \in DOMAIN p /\ r[k] = p[k]
                \/ k - Len(p) \in DOMAIN q /\ r[k] = q[k - Len(p)]
  <2>1. CASE k <= Len(p)
    BY <1>1, <1>3, <1>4, <2>1
  <2>2. CASE ~(k <= Len(p))
    <3>1. k - Len(p) \in DOMAIN q
      BY <1>1, <1>4, <2>2
    <3> QED  BY <1>1, <1>3, <1>4, <2>2, <3>1
  <2> QED  BY <2>1, <2>2
<1>6. ASSUME NEW i \in DOMAIN p PROVE i \in DOMAIN r /\ r[i] = p[i]
  BY <1>1, <1>3, <1>4
<1>7. ASSUME NEW i \in DOMAIN q PROVE Len(p) + i \in DOMAIN r /\ r[Len(p) + i] = q[i]
  <2>1. Len(p) + i \in DOMAIN r /\ ~(Len(p) + i <= Len(p)) /\ (Len(p) + i) - Len(p) = i
    BY <1>1, <1>4
  <2> QED  BY <1>3, <1>4, <2>1
<1> QED  BY <1>1, <1>3, <1>5, <1>6, <1>7

\* r has the elements of p and of q.
Joins(r, p, q) ==
  /\ \A k \in DOMAIN r : \/ \E i \in DOMAIN p : r[k] = p[i]
                        \/ \E i \in DOMAIN q : r[k] = q[i]
  /\ \A i \in DOMAIN p : \E k \in DOMAIN r : r[k] = p[i]
  /\ \A i \in DOMAIN q : \E k \in DOMAIN r : r[k] = q[i]

\* The elements of a concatenation are those of its parts.
LEMMA Joined ==
  ASSUME NEW S, NEW p \in Seq(S), NEW q \in Seq(S), NEW r, r = p \o q
  PROVE  r \in Seq(S) /\ Joins(r, p, q)
<1>1. /\ r \in Seq(S) /\ Len(p) \in Nat
      /\ \A k \in DOMAIN r :
           /\ k \in Nat
           /\ \/ k \in DOMAIN p /\ r[k] = p[k]
              \/ k - Len(p) \in DOMAIN q /\ r[k] = q[k - Len(p)]
      /\ \A i \in DOMAIN p : i \in DOMAIN r /\ r[i] = p[i]
      /\ \A i \in DOMAIN q : Len(p) + i \in DOMAIN r /\ r[Len(p) + i] = q[i]
  BY JoinedAt
<1> QED  BY <1>1, Zenon DEF Joins

\* Tasks of different files, put after each other.
LEMMA JoinedDistinct ==
  ASSUME NEW S, NEW p \in Seq(S), NEW q \in Seq(S), NEW r, r = p \o q,
         Distinct(p), Distinct(q),
         \A i \in DOMAIN p : \A j \in DOMAIN q : p[i].file # q[j].file
  PROVE  Distinct(r)
<1>1. /\ Len(p) \in Nat
      /\ \A k \in DOMAIN r :
           /\ k \in Nat
           /\ \/ k \in DOMAIN p /\ r[k] = p[k]
              \/ k - Len(p) \in DOMAIN q /\ r[k] = q[k - Len(p)]
  BY JoinedAt
<1> SUFFICES ASSUME NEW k \in DOMAIN r, NEW l \in DOMAIN r, r[k].file = r[l].file
             PROVE  k = l
  BY DEF Distinct
<1>2. CASE k \in DOMAIN p /\ r[k] = p[k]
  <2>1. CASE l \in DOMAIN p /\ r[l] = p[l]
    BY <1>2, <2>1 DEF Distinct
  <2>2. CASE l - Len(p) \in DOMAIN q /\ r[l] = q[l - Len(p)]
    BY <1>2, <2>2
  <2> QED  BY <1>1, <2>1, <2>2
<1>3. CASE k - Len(p) \in DOMAIN q /\ r[k] = q[k - Len(p)]
  <2>1. CASE l \in DOMAIN p /\ r[l] = p[l]
    BY <1>3, <2>1
  <2>2. CASE l - Len(p) \in DOMAIN q /\ r[l] = q[l - Len(p)]
    <3>1. k - Len(p) = l - Len(p)
      BY <1>3, <2>2 DEF Distinct
    <3> QED  BY <1>1, <3>1
  <2> QED  BY <1>1, <2>1, <2>2
<1> QED  BY <1>1, <1>2, <1>3

-----------------------------------------------------------------------------
(* The discovery: the order of the index                                   *)

\* A task of ts that comes after all others with its reference.
IsLast(ts, x) ==
  \E w \in DOMAIN ts : x = ts[w] /\ \A u \in DOMAIN ts : ts[u].ref = x.ref => u <= w

LEMMA WinnerIs ==
  ASSUME NEW S, NEW ts \in Seq(S), NEW ref, NEW j \in DOMAIN ts, ts[j].ref = ref
  PROVE  /\ Winner(ts, ref) \in S /\ Winner(ts, ref).ref = ref
         /\ IsLast(ts, Winner(ts, ref))
<1> DEFINE own == {i \in DOMAIN ts : ts[i].ref = ref}
<1>1. Len(ts) \in Nat /\ DOMAIN ts = 1 .. Len(ts) /\ \A i \in DOMAIN ts : ts[i] \in S
  BY LenProperties, ElementOfSeq
<1>2. own \in SUBSET (1 .. Len(ts)) /\ own # {}
  BY <1>1
<1>3. PICK w \in own : \A u \in own : u <= w
  BY <1>1, <1>2, Greatest
<1>4. \E i \in DOMAIN ts : /\ ts[i].ref = ref
                          /\ \A u \in DOMAIN ts : ts[u].ref = ref => u <= i
  BY <1>3
<1>5. PICK i \in DOMAIN ts : /\ Winner(ts, ref) = ts[i] /\ ts[i].ref = ref
                             /\ \A u \in DOMAIN ts : ts[u].ref = ref => u <= i
  BY <1>4, Zenon DEF Winner
<1>6. Winner(ts, ref).ref = ref
  BY <1>5
<1>7. IsLast(ts, Winner(ts, ref))
  BY <1>5, <1>6, Zenon DEF IsLast
<1> QED  BY <1>1, <1>5, <1>7

\* Every task of ts is in r or, when it has a reference, a later one with it.
Represents(r, ts) ==
  \A i \in DOMAIN ts : \E k \in DOMAIN r, w \in DOMAIN ts :
    /\ r[k] = ts[w] /\ i <= w /\ ts[w].ref = ts[i].ref
    /\ ts[i].ref = NoReference => w = i

\* What the ordering keeps: of the tasks with one reference one, of the tasks
\* without reference all, and none of them twice.
LEMMA OrderingKeeps ==
  ASSUME NEW S, NEW ts \in Seq(S), NEW index \in Seq(References),
         NEW r, r = ApplyOrdering(ts, index)
  PROVE  /\ r \in Seq(S)
         /\ Represents(r, ts)
         /\ Distinct(ts) => Distinct(r)
<1> DEFINE Listed(x) == \E i \in DOMAIN index : index[i] = x
           A == {i \in DOMAIN index : /\ \E j \in DOMAIN ts : ts[j].ref = index[i]
                                      /\ \A j \in 1 .. i - 1 : index[j] # index[i]}
           B == {i \in DOMAIN ts : /\ ts[i].ref # NoReference /\ ~Listed(ts[i].ref)
                                   /\ \A j \in 1 .. i - 1 : ts[j].ref # ts[i].ref}
           C == {i \in DOMAIN ts : ts[i].ref = NoReference}
           named == Filter(index, A)
           rest == Filter(ts, B)
           c == Filter(ts, C)
           a == [k \in DOMAIN named |-> Winner(ts, named[k])]
           b == [k \in DOMAIN rest |-> Winner(ts, rest[k].ref)]
           ab == a \o b
<1>1. /\ Len(ts) \in Nat /\ DOMAIN ts = 1 .. Len(ts) /\ \A i \in DOMAIN ts : ts[i] \in S
      /\ Len(index) \in Nat /\ DOMAIN index = 1 .. Len(index)
      /\ \A i \in DOMAIN index : index[i] \in References
  BY LenProperties, ElementOfSeq
<1>2. ab = a \o b /\ r = ab \o c
  BY Zenon DEF ApplyOrdering
<1> HIDE DEF ab
<1>3. \A i \in DOMAIN index : index[i] # NoReference
  BY <1>1, DiscoveryAssumption
<1>4. /\ A \in SUBSET (1 .. Len(index)) /\ B \in SUBSET (1 .. Len(ts))
      /\ C \in SUBSET (1 .. Len(ts))
  BY <1>1
<1>5. \A i \in DOMAIN index :
         i \in A <=> /\ \E j \in DOMAIN ts : ts[j].ref = index[i]
                     /\ \A j \in DOMAIN index : j < i => index[j] # index[i]
  BY <1>1
<1>6. \A i \in DOMAIN ts :
         i \in B <=> /\ ts[i].ref # NoReference /\ ~Listed(ts[i].ref)
                     /\ \A j \in DOMAIN ts : j < i => ts[j].ref # ts[i].ref
  <2> HIDE DEF Listed
  <2> TAKE i \in DOMAIN ts
  <2>1. \A j : j \in 1 .. i - 1 <=> j \in DOMAIN ts /\ j < i
    BY <1>1
  <2> QED  BY <2>1, Zenon
<1>7. A \subseteq DOMAIN index /\ B \subseteq DOMAIN ts /\ C \subseteq DOMAIN ts
  BY Zenon
<1>8. \A i \in DOMAIN ts : i \in C <=> ts[i].ref = NoReference
  OBVIOUS
<1> HIDE DEF A, B, C, Listed
<1>9. named = Filter(index, A) /\ rest = Filter(ts, B) /\ c = Filter(ts, C)
  BY Zenon
<1> HIDE DEF named, rest, c
<1>10. /\ named \in Seq(References)
       /\ \A k \in DOMAIN named : Nth(A, k) \in A /\ named[k] = index[Nth(A, k)]
       /\ \A i \in A : \E k \in DOMAIN named : Nth(A, k) = i
       /\ \A j, k \in DOMAIN named : Nth(A, j) = Nth(A, k) => j = k
  <2>1. \A i \in A : index[i] \in References
    BY <1>1, <1>7
  <2>2. Len(index) \in Nat /\ A \in SUBSET (1 .. Len(index)) /\ named = Filter(index, A)
    BY <1>1, <1>4, <1>9
  <2>3. named \in Seq(References) /\ Picks(named, index, A)
    BY <2>1, <2>2, FilterOf
  <2> QED  BY <2>3 DEF Picks
<1>11. /\ rest \in Seq(S)
       /\ \A k \in DOMAIN rest : Nth(B, k) \in B /\ rest[k] = ts[Nth(B, k)]
       /\ \A i \in B : \E k \in DOMAIN rest : Nth(B, k) = i
       /\ \A j, k \in DOMAIN rest : Nth(B, j) = Nth(B, k) => j = k
  <2>1. \A i \in B : ts[i] \in S
    BY <1>1, <1>7
  <2>2. Len(ts) \in Nat /\ B \in SUBSET (1 .. Len(ts)) /\ rest = Filter(ts, B)
    BY <1>1, <1>4, <1>9
  <2>3. rest \in Seq(S) /\ Picks(rest, ts, B)
    BY <2>1, <2>2, FilterOf
  <2> QED  BY <2>3 DEF Picks
<1>12. /\ c \in Seq(S)
       /\ \A k \in DOMAIN c : Nth(C, k) \in C /\ c[k] = ts[Nth(C, k)]
       /\ \A i \in C : \E k \in DOMAIN c : Nth(C, k) = i
       /\ \A j, k \in DOMAIN c : Nth(C, j) = Nth(C, k) => j = k
  <2>1. \A i \in C : ts[i] \in S
    BY <1>1, <1>7
  <2>2. Len(ts) \in Nat /\ C \in SUBSET (1 .. Len(ts)) /\ c = Filter(ts, C)
    BY <1>1, <1>4, <1>9
  <2>3. c \in Seq(S) /\ Picks(c, ts, C)
    BY <2>1, <2>2, FilterOf
  <2> QED  BY <2>3 DEF Picks
<1>13. /\ a \in Seq(S) /\ DOMAIN a = DOMAIN named
       /\ \A k \in DOMAIN a : a[k].ref = named[k] /\ Listed(a[k].ref) /\ IsLast(ts, a[k])
  <2> USE DEF Listed
  <2>1. \A k \in DOMAIN named : /\ Winner(ts, named[k]) \in S
                               /\ Winner(ts, named[k]).ref = named[k]
                               /\ IsLast(ts, Winner(ts, named[k]))
                               /\ Listed(named[k])
    <3> TAKE k \in DOMAIN named
    <3>1. Listed(named[k]) /\ \E j \in DOMAIN ts : ts[j].ref = named[k]
      <4>1. Nth(A, k) \in A /\ named[k] = index[Nth(A, k)]
        BY <1>10, Zenon
      <4>2. PICK i \in DOMAIN index : i = Nth(A, k)
        BY <4>1, <1>7, Zenon
      <4>3. i \in A /\ index[i] = named[k]
        BY <4>1, <4>2, Zenon
      <4>4. \E j \in DOMAIN ts : ts[j].ref = index[i]
        BY <4>3, <1>5, Zenon
      <4> QED  BY <4>3, <4>4, Zenon
    <3> QED  BY <3>1, WinnerIs
  <2>2. DOMAIN named = 1 .. Len(named) /\ Len(named) \in Nat
    BY <1>10, LenProperties
  <2>3. a \in [1 .. Len(named) -> S]
    BY <2>1, <2>2
  <2>4. a \in Seq(S)
    BY <2>2, <2>3
  <2>5. DOMAIN a = DOMAIN named /\ \A k \in DOMAIN named : a[k] = Winner(ts, named[k])
    OBVIOUS
  <2> HIDE DEF a, Listed
  <2> QED  BY <2>1, <2>4, <2>5
<1>14. /\ b \in Seq(S) /\ DOMAIN b = DOMAIN rest
       /\ \A k \in DOMAIN b : /\ b[k].ref = rest[k].ref /\ ~Listed(b[k].ref)
                             /\ b[k].ref # NoReference /\ IsLast(ts, b[k])
  <2>1. \A k \in DOMAIN rest : /\ Winner(ts, rest[k].ref) \in S
                              /\ Winner(ts, rest[k].ref).ref = rest[k].ref
                              /\ IsLast(ts, Winner(ts, rest[k].ref))
                              /\ ~Listed(rest[k].ref) /\ rest[k].ref # NoReference
    <3> TAKE k \in DOMAIN rest
    <3>1. /\ ~Listed(rest[k].ref) /\ rest[k].ref # NoReference
          /\ Nth(B, k) \in DOMAIN ts /\ ts[Nth(B, k)].ref = rest[k].ref
      <4> HIDE DEF Listed
      <4> QED  BY <1>11, <1>6, <1>7
    <3> QED  BY <3>1, WinnerIs
  <2>2. DOMAIN rest = 1 .. Len(rest) /\ Len(rest) \in Nat
    BY <1>11, LenProperties
  <2>3. b \in [1 .. Len(rest) -> S]
    BY <2>1, <2>2
  <2>4. b \in Seq(S)
    BY <2>2, <2>3
  <2>5. DOMAIN b = DOMAIN rest /\ \A k \in DOMAIN rest : b[k] = Winner(ts, rest[k].ref)
    OBVIOUS
  <2> HIDE DEF b, Listed
  <2> QED  BY <2>1, <2>4, <2>5
<1>15. \A k \in DOMAIN c : c[k].ref = NoReference
  BY <1>12, <1>7, <1>8
<1>16. ~Listed(NoReference)
  BY <1>3 DEF Listed
<1> HIDE DEF a, b
<1>17. \A k, l \in DOMAIN a : a[k].ref = a[l].ref => k = l
  <2> SUFFICES ASSUME NEW k \in DOMAIN a, NEW l \in DOMAIN a, named[k] = named[l]
               PROVE  k = l
    BY <1>13
  <2>1. /\ Nth(A, k) \in A /\ Nth(A, l) \in A /\ k \in DOMAIN named /\ l \in DOMAIN named
        /\ index[Nth(A, k)] = index[Nth(A, l)]
    BY <1>10, <1>13
  <2>2. Nth(A, k) \in Nat /\ Nth(A, l) \in Nat
    BY <1>1, <1>7, <2>1
  <2>3. ~(Nth(A, k) < Nth(A, l)) /\ ~(Nth(A, l) < Nth(A, k))
    BY <1>5, <1>7, <2>1
  <2>4. Nth(A, k) = Nth(A, l)
    BY <2>2, <2>3
  <2> QED  BY <1>10, <2>1, <2>4
<1>18. \A k, l \in DOMAIN b : b[k].ref = b[l].ref => k = l
  <2> SUFFICES ASSUME NEW k \in DOMAIN b, NEW l \in DOMAIN b, rest[k].ref = rest[l].ref
               PROVE  k = l
    BY <1>14
  <2>1. /\ Nth(B, k) \in B /\ Nth(B, l) \in B /\ k \in DOMAIN rest /\ l \in DOMAIN rest
        /\ ts[Nth(B, k)].ref = ts[Nth(B, l)].ref
    BY <1>11, <1>14
  <2>2. Nth(B, k) \in Nat /\ Nth(B, l) \in Nat
    BY <1>1, <1>7, <2>1
  <2>3. ~(Nth(B, k) < Nth(B, l)) /\ ~(Nth(B, l) < Nth(B, k))
    BY <1>6, <1>7, <2>1
  <2>4. Nth(B, k) = Nth(B, l)
    BY <2>2, <2>3
  <2> QED  BY <1>11, <2>1, <2>4
<1>19. ASSUME NEW i \in DOMAIN ts, Listed(ts[i].ref)
       PROVE  \E k \in DOMAIN a : a[k].ref = ts[i].ref
  <2> DEFINE places == {p \in DOMAIN index : index[p] = ts[i].ref}
  <2>1. places \in SUBSET (1 .. Len(index)) /\ places # {}
    BY <1>1, <1>19 DEF Listed
  <2>2. PICK p \in places : \A q \in places : p <= q
    BY <1>1, <2>1, Least
  <2>3. \A q \in DOMAIN index : q < p => index[q] # ts[i].ref
    BY <1>1, <2>2
  <2>4. p \in DOMAIN index /\ index[p] = ts[i].ref
    BY <2>2
  <2>5. p \in A
    BY <1>5, <2>3, <2>4
  <2>6. PICK k \in DOMAIN named : Nth(A, k) = p
    BY <1>10, <2>5
  <2> QED  BY <1>10, <1>13, <2>4, <2>6
<1>20. ASSUME NEW i \in DOMAIN ts, ~Listed(ts[i].ref), ts[i].ref # NoReference
       PROVE  \E k \in DOMAIN b : b[k].ref = ts[i].ref
  <2> DEFINE places == {p \in DOMAIN ts : ts[p].ref = ts[i].ref}
  <2>1. places \in SUBSET (1 .. Len(ts)) /\ places # {}
    BY <1>1
  <2>2. PICK p \in places : \A q \in places : p <= q
    BY <1>1, <2>1, Least
  <2>3. \A q \in DOMAIN ts : q < p => ts[q].ref # ts[i].ref
    BY <1>1, <2>2
  <2>4. p \in DOMAIN ts /\ ts[p].ref = ts[i].ref
    BY <2>2
  <2>5. p \in B
    BY <1>20, <1>6, <2>3, <2>4
  <2>6. PICK k \in DOMAIN rest : Nth(B, k) = p
    BY <1>11, <2>5
  <2> QED  BY <1>11, <1>14, <2>4, <2>6
<1>21. ASSUME NEW i \in DOMAIN ts, ts[i].ref = NoReference
       PROVE  \E k \in DOMAIN c : c[k] = ts[i]
  BY <1>12, <1>21, <1>8
<1>22. Distinct(ts) => Distinct(c)
  <2> SUFFICES ASSUME Distinct(ts), NEW k \in DOMAIN c, NEW l \in DOMAIN c, c[k].file = c[l].file
               PROVE  k = l
    BY DEF Distinct
  <2>1. Nth(C, k) \in DOMAIN ts /\ Nth(C, l) \in DOMAIN ts
    BY <1>12, <1>7
  <2>2. Nth(C, k) = Nth(C, l)
    BY <1>12, <2>1 DEF Distinct
  <2> QED  BY <1>12, <2>2
<1> DEFINE Elem(x) == \E w \in DOMAIN ts : x = ts[w]
<1>23. \A i \in DOMAIN a : Elem(a[i])
  BY <1>13 DEF IsLast
<1>24. \A i \in DOMAIN b : Elem(b[i])
  BY <1>14 DEF IsLast
<1>25. \A i \in DOMAIN c : Elem(c[i])
  BY <1>7, <1>12
<1>26. ASSUME Distinct(ts)
       PROVE  /\ \A x, y : Elem(x) /\ Elem(y) /\ x.file = y.file => x.ref = y.ref
              /\ Distinct(ab)
  <2>1. \A x, y : Elem(x) /\ Elem(y) /\ x.file = y.file => x.ref = y.ref
    BY <1>26 DEF Distinct
  <2> HIDE DEF Elem
  <2>2. Distinct(a) /\ Distinct(b)
    BY <1>17, <1>18, <1>23, <1>24, <2>1 DEF Distinct
  <2>3. \A i \in DOMAIN a : \A j \in DOMAIN b : a[i].file # b[j].file
    BY <1>13, <1>14, <1>23, <1>24, <2>1
  <2> QED  BY <1>2, <1>13, <1>14, <2>1, <2>2, <2>3, JoinedDistinct
<1> HIDE DEF Elem
<1>27. /\ ab \in Seq(S)
       /\ \A k \in DOMAIN ab : \/ \E i \in DOMAIN a : ab[k] = a[i]
                              \/ \E i \in DOMAIN b : ab[k] = b[i]
       /\ \A i \in DOMAIN a : \E k \in DOMAIN ab : ab[k] = a[i]
       /\ \A i \in DOMAIN b : \E k \in DOMAIN ab : ab[k] = b[i]
  <2>1. a \in Seq(S) /\ b \in Seq(S) /\ ab = a \o b
    BY <1>2, <1>13, <1>14
  <2>2. ab \in Seq(S) /\ Joins(ab, a, b)
    BY <2>1, Joined
  <2> QED  BY <2>2 DEF Joins
<1>28. /\ r \in Seq(S)
       /\ \A i \in DOMAIN ab : \E k \in DOMAIN r : r[k] = ab[i]
       /\ \A i \in DOMAIN c : \E k \in DOMAIN r : r[k] = c[i]
  <2>1. ab \in Seq(S) /\ c \in Seq(S) /\ r = ab \o c
    BY <1>2, <1>12, <1>27
  <2>2. r \in Seq(S) /\ Joins(r, ab, c)
    BY <2>1, Joined
  <2> QED  BY <2>2 DEF Joins
<1>29. ASSUME NEW i \in DOMAIN ts
       PROVE  \E k \in DOMAIN r, w \in DOMAIN ts :
                /\ r[k] = ts[w] /\ i <= w /\ ts[w].ref = ts[i].ref
                /\ ts[i].ref = NoReference => w = i
  <2>0. i <= i
    BY <1>1
  <2>1. CASE ts[i].ref = NoReference
    BY <1>21, <1>28, <2>0, <2>1
  <2>2. ASSUME NEW x, x.ref = ts[i].ref, IsLast(ts, x), ts[i].ref # NoReference,
               NEW k \in DOMAIN r, r[k] = x
        PROVE  \E w \in DOMAIN ts : r[k] = ts[w] /\ i <= w /\ ts[w].ref = ts[i].ref
    BY <2>2 DEF IsLast
  <2>3. CASE Listed(ts[i].ref)
    <3>1. PICK k \in DOMAIN a : a[k].ref = ts[i].ref
      BY <1>19, <2>3
    <3>2. PICK l \in DOMAIN r : r[l] = a[k]
      BY <1>27, <1>28
    <3>3. ts[i].ref # NoReference /\ IsLast(ts, a[k])
      BY <1>13, <1>16, <2>3
    <3> QED  BY <2>2, <3>1, <3>2, <3>3
  <2>4. CASE ~Listed(ts[i].ref) /\ ts[i].ref # NoReference
    <3>1. PICK k \in DOMAIN b : b[k].ref = ts[i].ref
      BY <1>20, <2>4
    <3>2. PICK l \in DOMAIN r : r[l] = b[k]
      BY <1>27, <1>28
    <3>3. IsLast(ts, b[k])
      BY <1>14
    <3> QED  BY <2>2, <2>4, <3>1, <3>2, <3>3
  <2> QED  BY <2>1, <2>3, <2>4
<1>30. \A k \in DOMAIN ab : Elem(ab[k]) /\ ab[k].ref # NoReference
  BY <1>13, <1>14, <1>16, <1>23, <1>24, <1>27
<1>31. Distinct(ts) => Distinct(r)
  <2> HAVE Distinct(ts)
  <2>1. \A i \in DOMAIN ab : \A j \in DOMAIN c : ab[i].file # c[j].file
    BY <1>15, <1>25, <1>26, <1>30
  <2>2. ab \in Seq(S) /\ c \in Seq(S) /\ r = ab \o c /\ Distinct(ab) /\ Distinct(c)
    BY <1>2, <1>12, <1>22, <1>26, <1>27
  <2> QED  BY <2>1, <2>2, JoinedDistinct, Zenon
<1> QED  BY <1>28, <1>29, <1>31 DEF Represents

-----------------------------------------------------------------------------
(* The discovery: classifications                                          *)

\* The phases before the classifier is called.
Early == {"start", "extract", "fallback"}

Classifications ==
  [of : FileIds, status : ReadStatuses \cup {Files[i].status : i \in FileIds}]

DiscoveryType ==
  /\ input \in Inputs
  /\ phase \in Early \cup {"classify", "unclassified", "done"}
  /\ next \in Nat \ {0}
  /\ position \in Nat
  /\ found \in Seq(FoundTasks)
  /\ ordered \in Seq(FoundTasks)
  /\ unclassified \in Seq(FoundTasks)
  /\ results \in Seq(Classifications)

\* The classifications so far are those of the first tasks, in order.
ResultsOwn ==
  /\ Len(results) = position /\ position <= Len(unclassified)
  /\ \A i \in 1 .. position : results[i].of = unclassified[i].file
  /\ phase \in Early => position = 0

LEMMA InputIs ==
  ASSUME input \in Inputs
  PROVE  /\ Files \in Seq(Documents) /\ Len(Files) \in Nat /\ FileIds = 1 .. Len(Files)
         /\ input.index \in Seq(References)
         /\ \A i \in FileIds : Files[i].ref \in References \cup {NoReference}
<1>1. Files \in Seq(Documents) /\ input.index \in Seq(References)
  BY DiscoveryAssumption DEF Files
<1>2. Len(Files) \in Nat /\ FileIds = 1 .. Len(Files)
  BY <1>1, LenProperties DEF FileIds
<1>3. \A i \in FileIds : Files[i] \in Documents
  BY <1>1, <1>2, ElementOfSeq
<1> QED  BY <1>1, <1>2, <1>3, DiscoveryAssumption

LEMMA TasksAre ==
  ASSUME NEW q \in Seq(FoundTasks)
  PROVE  /\ Len(q) \in Nat /\ DOMAIN q = 1 .. Len(q)
         /\ \A k \in DOMAIN q : /\ q[k] \in FoundTasks
                               /\ q[k].file \in FileIds
<1>1. Len(q) \in Nat /\ DOMAIN q = 1 .. Len(q) /\ \A k \in DOMAIN q : q[k] \in FoundTasks
  BY LenProperties, ElementOfSeq
<1>2. \A t \in FoundTasks : t.file \in FileIds
  BY DEF FoundTasks
<1> QED  BY <1>1, <1>2

\* A batch is the part of the tasks after the ones already classified.
LEMMA BatchIs ==
  ASSUME DiscoveryType, ResultsOwn, InClassify
  PROVE  /\ BatchEnd \in Nat /\ position <= BatchEnd /\ BatchEnd <= Len(unclassified)
         /\ Len(Batch) = BatchEnd - position /\ Batch \in Seq(FoundTasks)
         /\ DOMAIN Batch = 1 .. BatchEnd - position
         /\ \A j \in DOMAIN Batch : Batch[j] = unclassified[position + j]
<1>1. unclassified \in Seq(FoundTasks) /\ position \in Nat
  BY DEF DiscoveryType
<1>2. Len(unclassified) \in Nat /\ DOMAIN unclassified = 1 .. Len(unclassified)
      /\ \A k \in 1 .. Len(unclassified) : unclassified[k] \in FoundTasks
  BY <1>1, TasksAre
<1>3. BatchSize \in Nat
  BY DiscoveryAssumption
<1>4. BatchEnd \in Nat /\ position < BatchEnd /\ BatchEnd <= Len(unclassified)
  BY <1>1, <1>2, <1>3, DiscoveryAssumption DEF BatchEnd, InClassify
<1>5. \A i \in position + 1 .. BatchEnd : unclassified[i] \in FoundTasks
  BY <1>1, <1>2, <1>4
<1>6. /\ Batch \in Seq(FoundTasks)
      /\ Len(Batch) = IF position + 1 <= BatchEnd THEN BatchEnd - (position + 1) + 1 ELSE 0
      /\ \A i \in 1 .. BatchEnd - (position + 1) + 1 :
           Batch[i] = unclassified[(position + 1) + i - 1]
  BY <1>1, <1>4, <1>5, SubSeqProperties DEF Batch
<1>7. Len(Batch) = BatchEnd - position
  BY <1>1, <1>4, <1>6
<1>8. DOMAIN Batch = 1 .. BatchEnd - position
  BY <1>6, <1>7, LenProperties
<1>9. ASSUME NEW j \in 1 .. BatchEnd - position
      PROVE  Batch[j] = unclassified[position + j]
  <2>1. j \in 1 .. BatchEnd - (position + 1) + 1 /\ (position + 1) + j - 1 = position + j
    BY <1>1, <1>4
  <2> QED  BY <1>6, <2>1
<1>10. \A j \in DOMAIN Batch : Batch[j] = unclassified[position + j]
  BY <1>8, <1>9
<1>11. position <= BatchEnd
  BY <1>1, <1>4
<1> QED  BY <1>4, <1>6, <1>7, <1>8, <1>10, <1>11, Zenon

\* Results for a batch, in its order, are put after the ones there are.
LEMMA AnswerOwn ==
  ASSUME DiscoveryType, ResultsOwn, InClassify,
         NEW f \in [DOMAIN Batch -> Classifications],
         \A j \in DOMAIN Batch : f[j].of = Batch[j].file,
         results' = results \o f, position' = BatchEnd,
         UNCHANGED <<input, phase, unclassified>>
  PROVE  results' \in Seq(Classifications) /\ position' \in Nat /\ ResultsOwn'
<1>1. results \in Seq(Classifications) /\ position \in Nat /\ Len(results) = position
  BY DEF DiscoveryType, ResultsOwn
<1>2. /\ BatchEnd \in Nat /\ position <= BatchEnd /\ BatchEnd <= Len(unclassified)
      /\ DOMAIN Batch = 1 .. BatchEnd - position
      /\ \A j \in DOMAIN Batch : Batch[j] = unclassified[position + j]
  BY BatchIs
<1>3. f \in Seq(Classifications) /\ Len(f) = BatchEnd - position
  <2>1. BatchEnd - position \in Nat
    BY <1>1, <1>2
  <2>2. f \in [1 .. BatchEnd - position -> Classifications]
    BY <1>2
  <2> QED  BY <2>1, <2>2
<1>4. /\ results' \in Seq(Classifications)
      /\ Len(results') = position + (BatchEnd - position)
      /\ \A i \in 1 .. position + (BatchEnd - position) :
           results'[i] = IF i <= position THEN results[i] ELSE f[i - position]
  <2>1. /\ results \o f \in Seq(Classifications)
        /\ Len(results \o f) = Len(results) + Len(f)
        /\ \A i \in 1 .. Len(results) + Len(f) :
             (results \o f)[i] = IF i <= Len(results) THEN results[i]
                                ELSE f[i - Len(results)]
    BY <1>1, <1>3, ConcatProperties
  <2> DEFINE m == BatchEnd - position
  <2>2. Len(f) = m
    BY <1>3
  <2> HIDE DEF m
  <2>3. /\ results' \in Seq(Classifications) /\ Len(results') = position + m
        /\ \A i \in 1 .. position + m :
             results'[i] = IF i <= position THEN results[i] ELSE f[i - position]
    BY <1>1, <2>1, <2>2, Zenon
  <2> QED  BY <2>3 DEF m
<1>5. position + (BatchEnd - position) = BatchEnd
  BY <1>1, <1>2
<1>6. ASSUME NEW i \in 1 .. BatchEnd
      PROVE  results'[i].of = unclassified[i].file
  <2>1. CASE i <= position
    BY <1>1, <1>4, <1>5, <2>1 DEF ResultsOwn
  <2>2. CASE ~(i <= position)
    <3>1. i - position \in DOMAIN Batch /\ position + (i - position) = i
      BY <1>1, <1>2, <2>2
    <3>2. results'[i] = f[i - position]
      BY <1>4, <1>5, <2>2
    <3> QED  BY <1>2, <3>1, <3>2
  <2> QED  BY <2>1, <2>2
<1>7. phase' \notin Early
  BY DEF InClassify, Early
<1> QED  BY <1>2, <1>4, <1>5, <1>6, <1>7 DEF ResultsOwn

\* deterministicFallback and the service's answers are about the tasks given.
LEMMA AnswersAre ==
  ASSUME NEW q \in Seq(FoundTasks), NEW i \in DOMAIN q, NEW s \in ReadStatuses
  PROVE  /\ DeterministicFallback(q[i].file) \in Classifications
         /\ DeterministicFallback(q[i].file).of = q[i].file
         /\ [of |-> q[i].file, status |-> s] \in Classifications
         /\ [of |-> q[i].file, status |-> s].of = q[i].file
<1>1. q[i].file \in FileIds
  BY TasksAre
<1> QED  BY <1>1 DEF DeterministicFallback, MetadataStatus, Classifications

-----------------------------------------------------------------------------
(* The discovery: the fallback                                             *)

\* A file has a task in r or, when an index orders the tasks of all, a task
\* that gave way to a later one with its reference.
Represented(all, r, i) ==
  \/ Holds(r, i)
  \/ /\ input.indexed
     /\ \E k, l \in DOMAIN all :
          /\ all[k].file = i /\ k < l /\ Holds(r, all[l].file)
          /\ all[k].ref = all[l].ref /\ all[k].ref # NoReference

\* No task of the language model is about a file it failed on.
FoundNotFailed == \A k \in DOMAIN found : ~IsFallback(found[k].file)

\* The tasks of the language model and of the parser all go on, but for those
\* that give way in the index, and none of them twice.
LEMMA FallbackFinds ==
  ASSUME DiscoveryType, Fallback
  PROVE  /\ found' \in Seq(FoundTasks)
         /\ ordered' \in Seq(FoundTasks)
         /\ unclassified' \in Seq(FoundTasks)
         /\ \A i \in FileIds :
              Holds(found, i) \/ (IsFallback(i) /\ ExtractTitle(i))
                => Represented(found', ordered', i)
         /\ Distinct(found) /\ FoundNotFailed => Distinct(ordered')
<1> DEFINE P == {i \in FileIds : IsFallback(i) /\ ExtractTitle(i)}
           s == [i \in FileIds |-> ParseTaskFile(i)]
           parsed == Filter(s, P)
           all == found \o parsed
           U == {i \in DOMAIN ordered' : IsFallback(ordered'[i].file)}
<1>1. /\ input \in Inputs /\ found \in Seq(FoundTasks)
      /\ Len(Files) \in Nat /\ FileIds = 1 .. Len(Files) /\ input.index \in Seq(References)
  BY InputIs DEF DiscoveryType
<1>2. /\ found' = all
      /\ ordered' = IF input.indexed THEN ApplyOrdering(all, input.index) ELSE all
      /\ unclassified' = Filter(ordered', U)
  BY Zenon DEF Fallback
<1>3. P \in SUBSET (1 .. Len(Files)) /\ P \subseteq FileIds
  BY <1>1
<1>4. \A i \in FileIds : s[i] \in FoundTasks /\ s[i].file = i
  <2>1. \A i \in FileIds : Files[i].ref \in References \cup {NoReference}
    BY <1>1, InputIs
  <2> QED
    BY <2>1 DEF ParseTaskFile, FoundTask, ExtractExternalRef, FoundTasks, ReadStatuses
<1> HIDE DEF s
<1>5. parsed \in Seq(FoundTasks) /\ Picks(parsed, s, P)
  <2>1. \A i \in P : s[i] \in FoundTasks
    BY <1>3, <1>4
  <2> HIDE DEF P
  <2> QED  BY <1>1, <1>3, <2>1, FilterOf
<1>6. \A i \in P : IsFallback(i) /\ ExtractTitle(i)
  OBVIOUS
<1>7. \A i \in FileIds : IsFallback(i) /\ ExtractTitle(i) => i \in P
  OBVIOUS
<1> HIDE DEF P, parsed, U
<1>8. \A i \in P : \E k \in DOMAIN parsed : parsed[k].file = i
  BY <1>3, <1>4, <1>5 DEF Picks
<1>9. \A k \in DOMAIN parsed : IsFallback(parsed[k].file) /\ parsed[k].file = Nth(P, k)
  <2> TAKE k \in DOMAIN parsed
  <2>1. Nth(P, k) \in P /\ parsed[k] = s[Nth(P, k)]
    BY <1>5 DEF Picks
  <2>2. s[Nth(P, k)].file = Nth(P, k)
    BY <1>3, <1>4, <2>1
  <2> QED  BY <1>6, <2>1, <2>2
<1>10. Distinct(parsed)
  BY <1>5, <1>9 DEF Picks, Distinct
<1>11. all \in Seq(FoundTasks) /\ Joins(all, found, parsed)
  BY <1>1, <1>5, Joined
<1>12. Distinct(found) /\ FoundNotFailed => Distinct(all)
  <2> HAVE Distinct(found) /\ FoundNotFailed
  <2>1. \A i \in DOMAIN found : \A j \in DOMAIN parsed : found[i].file # parsed[j].file
    BY <1>9 DEF FoundNotFailed
  <2> QED  BY <1>1, <1>5, <1>10, <2>1, JoinedDistinct
<1> HIDE DEF all
<1>13. \A i \in FileIds : Holds(found, i) \/ (IsFallback(i) /\ ExtractTitle(i)) => Holds(all, i)
  BY <1>7, <1>8, <1>11 DEF Joins, Holds
<1>14. /\ ordered' \in Seq(FoundTasks)
       /\ \A i \in FileIds : Holds(all, i) => Represented(all, ordered', i)
       /\ Distinct(all) => Distinct(ordered')
  <2>1. CASE ~input.indexed
    BY <1>2, <1>11, <2>1 DEF Represented
  <2>2. CASE input.indexed
    <3>1. ordered' = ApplyOrdering(all, input.index)
      BY <1>2, <2>2
    <3>2. /\ ordered' \in Seq(FoundTasks)
          /\ Represents(ordered', all)
          /\ Distinct(all) => Distinct(ordered')
      BY <1>1, <1>11, <3>1, OrderingKeeps
    <3>3. ASSUME NEW i \in FileIds, Holds(all, i)
          PROVE  Represented(all, ordered', i)
      <4>1. PICK k \in DOMAIN all : all[k].file = i
        BY <3>3 DEF Holds
      <4>2. PICK m \in DOMAIN ordered', w \in DOMAIN all :
              /\ ordered'[m] = all[w] /\ k <= w /\ all[w].ref = all[k].ref
              /\ all[k].ref = NoReference => w = k
        BY <3>2 DEF Represents
      <4>3. Holds(ordered', all[w].file)
        BY <4>2 DEF Holds
      <4>4. CASE w = k
        BY <4>1, <4>3, <4>4 DEF Represented
      <4>5. CASE w # k
        <5>1. k \in Nat /\ w \in Nat
          BY <1>11, TasksAre
        <5>2. k < w /\ all[k].ref # NoReference
          BY <4>2, <4>5, <5>1
        <5> QED  BY <2>2, <4>1, <4>2, <4>3, <5>2 DEF Represented
      <4> QED  BY <4>4, <4>5
    <3> QED  BY <3>2, <3>3
  <2> QED  BY <2>1, <2>2
<1>15. unclassified' \in Seq(FoundTasks)
  <2>1. Len(ordered') \in Nat /\ DOMAIN ordered' = 1 .. Len(ordered')
        /\ \A k \in DOMAIN ordered' : ordered'[k] \in FoundTasks
    BY <1>14, TasksAre
  <2>2. U \in SUBSET (1 .. Len(ordered')) /\ \A i \in U : ordered'[i] \in FoundTasks
    BY <2>1 DEF U
  <2> QED  BY <1>2, <2>1, <2>2, FilterOf
<1> QED  BY <1>2, <1>11, <1>12, <1>13, <1>14, <1>15

LEMMA DiscoveryTyped ==
  ASSUME DiscoveryType, ResultsOwn, [DiscoveryNext]_discoveryVars
  PROVE  DiscoveryType' /\ ResultsOwn'
<1> USE DEF Early
<1>1. /\ input \in Inputs /\ found \in Seq(FoundTasks) /\ unclassified \in Seq(FoundTasks)
      /\ results \in Seq(Classifications) /\ position \in Nat /\ next \in Nat \ {0}
  BY DEF DiscoveryType
<1>2. Len(unclassified) \in Nat /\ DOMAIN unclassified = 1 .. Len(unclassified)
  BY <1>1, TasksAre
<1>3. ASSUME input' = input
      PROVE  FileIds' = FileIds /\ FoundTasks' = FoundTasks /\ Classifications' = Classifications
  BY <1>3 DEF FileIds, Files, FoundTasks, Classifications
<1>4. CASE UNCHANGED discoveryVars
  BY <1>3, <1>4 DEF discoveryVars, DiscoveryType, ResultsOwn
<1>5. CASE ParseJsonTasks \/ SkipLlm \/ LlmUnavailable \/ StartLlm \/ EndLlm
           \/ NoClassifier \/ BuildManifest
  <2>1. /\ UNCHANGED <<input, next, found, ordered, unclassified, results, position>>
        /\ phase' \in Early \cup {"classify", "unclassified", "done"}
        /\ phase' \in Early => phase \in Early
    BY <1>5 DEF ParseJsonTasks, SkipLlm, LlmUnavailable, StartLlm, EndLlm, NoClassifier,
                BuildManifest
  <2> QED  BY <1>3, <2>1 DEF DiscoveryType, ResultsOwn
<1>6. CASE ExtractFile
  <2>1. /\ UNCHANGED <<input, phase, ordered, unclassified, results, position>>
        /\ next' = next + 1
        /\ next \in FileIds
        /\ \/ \E t \in ParseLlmResponse(next) : found' = Append(found, t)
           \/ found' = found
    BY <1>6 DEF ExtractFile
  <2>2. \A t \in ParseLlmResponse(next) : t \in FoundTasks
    BY <2>1 DEF ParseLlmResponse, FoundTask, ExtractExternalRef, FoundTasks
  <2>3. \A t \in FoundTasks : Append(found, t) \in Seq(FoundTasks)
    <3>1. found \in Seq(FoundTasks)
      BY <1>1
    <3> QED  BY ONLY <3>1, AppendProperties
  <2>4. found' \in Seq(FoundTasks)
    <3>1. found \in Seq(FoundTasks)
      BY <1>1
    <3>2. \/ \E t \in ParseLlmResponse(next) : found' = Append(found, t)
          \/ found' = found
      BY <2>1
    <3> QED  BY <2>2, <2>3, <3>1, <3>2, Zenon
  <2>5. next' \in Nat \ {0}
    <3>1. next \in Nat \ {0} /\ next' = next + 1
      BY <1>1, <2>1
    <3> QED  BY ONLY <3>1
  <2> QED  BY <1>3, <2>1, <2>4, <2>5 DEF DiscoveryType, ResultsOwn
<1>7. CASE Fallback
  <2>1. UNCHANGED <<input, next, results, position>> /\ phase = "fallback" /\ phase' = "classify"
    BY <1>7 DEF Fallback
  <2>2. /\ found' \in Seq(FoundTasks) /\ ordered' \in Seq(FoundTasks)
        /\ unclassified' \in Seq(FoundTasks)
    BY <1>7, FallbackFinds
  <2>3. Len(unclassified') \in Nat
    BY <2>2, TasksAre
  <2>4. position = 0 /\ Len(results) = 0
    BY <2>1 DEF ResultsOwn
  <2> QED  BY <1>1, <1>3, <2>1, <2>2, <2>3, <2>4 DEF DiscoveryType, ResultsOwn
<1>8. CASE NoToken
  <2> DEFINE f == FallbackResults(unclassified)
  <2>1. /\ UNCHANGED <<input, phase, next, found, ordered, unclassified>> /\ results' = f
        /\ position' = Len(unclassified) /\ phase = "classify"
    BY <1>8 DEF NoToken, InClassify
  <2>2. /\ f \in [1 .. Len(unclassified) -> Classifications]
        /\ \A i \in 1 .. Len(unclassified) : f[i].of = unclassified[i].file
    <3>1. \A i \in DOMAIN unclassified :
            /\ DeterministicFallback(unclassified[i].file) \in Classifications
            /\ DeterministicFallback(unclassified[i].file).of = unclassified[i].file
      BY <1>1, AnswersAre DEF ReadStatuses
    <3> QED  BY <1>2, <3>1 DEF FallbackResults
  <2> HIDE DEF f
  <2>3. f \in Seq(Classifications) /\ Len(f) = Len(unclassified)
    BY <1>2, <2>2
  <2> QED  BY <1>1, <1>2, <1>3, <2>1, <2>2, <2>3 DEF DiscoveryType, ResultsOwn
<1>9. CASE BatchRetried
  BY <1>3, <1>9 DEF BatchRetried, DiscoveryType, ResultsOwn
<1>10. CASE BatchAnswered \/ BatchFailed
  <2>1. /\ UNCHANGED <<input, phase, next, found, ordered, unclassified>>
        /\ position' = BatchEnd /\ InClassify
    BY <1>10 DEF BatchAnswered, BatchFailed
  <2>2. Batch \in Seq(FoundTasks)
    BY <2>1, BatchIs
  <2>3. \A j \in DOMAIN Batch : \A s \in ReadStatuses :
          /\ DeterministicFallback(Batch[j].file) \in Classifications
          /\ DeterministicFallback(Batch[j].file).of = Batch[j].file
          /\ [of |-> Batch[j].file, status |-> s] \in Classifications
          /\ [of |-> Batch[j].file, status |-> s].of = Batch[j].file
    BY <2>2, AnswersAre
  <2>4. \E f \in [DOMAIN Batch -> Classifications] :
          results' = results \o f /\ \A j \in DOMAIN Batch : f[j].of = Batch[j].file
    <3>1. CASE BatchAnswered
      <4>1. PICK k \in 0 .. BatchSize + 1, s \in ReadStatuses :
              results' = results \o ClassifyBatch(k, s)
        BY <3>1 DEF BatchAnswered
      <4> DEFINE f == ClassifyBatch(k, s)
      <4>2. f \in [DOMAIN Batch -> Classifications]
            /\ \A j \in DOMAIN Batch : f[j].of = Batch[j].file
        BY <2>3 DEF ClassifyBatch
      <4> HIDE DEF f
      <4> QED  BY <4>1, <4>2 DEF f
    <3>2. CASE BatchFailed
      <4> DEFINE f == FallbackResults(Batch)
      <4>1. results' = results \o f
        BY <3>2 DEF BatchFailed
      <4>2. f \in [DOMAIN Batch -> Classifications]
            /\ \A j \in DOMAIN Batch : f[j].of = Batch[j].file
        BY <2>3 DEF FallbackResults, ReadStatuses
      <4> HIDE DEF f
      <4> QED  BY <4>1, <4>2
    <3> QED  BY <1>10, <3>1, <3>2
  <2>5. results' \in Seq(Classifications) /\ position' \in Nat /\ ResultsOwn'
    BY <2>1, <2>4, AnswerOwn
  <2> QED  BY <1>3, <2>1, <2>5 DEF DiscoveryType
<1> QED  BY <1>4, <1>5, <1>6, <1>7, <1>8, <1>9, <1>10 DEF DiscoveryNext, DiscoveryStep

-----------------------------------------------------------------------------
(* The discovery: every file is accounted for                              *)

\* Before the fallback, a file the language model has been given has a task or
\* is among the failed ones; the names tell the two apart.
ExtractedCover ==
  /\ phase = "start" => found = <<>> /\ failed = {} /\ next = 1
  /\ phase = "extract" =>
       /\ \A i \in FileIds : i < next => IsFallback(i) \/ Holds(found, i)
       /\ \A k \in DOMAIN found : found[k].file < next
       /\ \A x \in failed : \E i \in FileIds : i < next /\ x = Name(i)
  /\ phase = "fallback" => \A i \in FileIds : IsFallback(i) \/ Holds(found, i)
  /\ phase \in Early /\ DistinctNames => Distinct(found) /\ FoundNotFailed

\* After it, a file without a task was reported or gave way in the index.
ClassifiedCover ==
  phase \in {"classify", "unclassified"} =>
    /\ \A i \in FileIds : i \in reported \/ Represented(found, ordered, i)
    /\ DistinctNames => Distinct(ordered)

DiscoveryInv ==
  DiscoveryType /\ ResultsOwn /\ ExtractedCover /\ ClassifiedCover /\ NoFileLost

\* parseJsonTasks
LEMMA JsonLosesNothing ==
  ASSUME DiscoveryInv, ParseJsonTasks
  PROVE  NoFileLost'
<1> DEFINE P == {i \in FileIds : MapsToTask(i)}
           s == [i \in FileIds |-> FoundTask(i, Files[i].ref, "BACKLOG", "json")]
           S == {s[i] : i \in FileIds}
<1>1. /\ manifest' = Filter(s, P) /\ reported' = FileIds \ P /\ input' = input
      /\ Len(Files) \in Nat /\ FileIds = 1 .. Len(Files)
  BY InputIs DEF ParseJsonTasks, DiscoveryInv, DiscoveryType
<1>2. \A i \in FileIds : s[i] \in S /\ s[i].file = i
  BY DEF FoundTask
<1>3. P \in SUBSET (1 .. Len(Files)) /\ P \subseteq FileIds /\ \A i \in P : s[i] \in S
  BY <1>1, <1>2
<1> HIDE DEF P, s, S
<1>4. Picks(manifest', s, P)
  BY <1>1, <1>3, FilterOf
<1>5. \A i \in P : \E k \in DOMAIN manifest' : manifest'[k].file = i
  BY <1>2, <1>3, <1>4 DEF Picks
<1>6. \A k \in DOMAIN manifest' : manifest'[k].file = Nth(P, k)
  <2> TAKE k \in DOMAIN manifest'
  <2>1. Nth(P, k) \in FileIds /\ manifest'[k] = s[Nth(P, k)]
    BY <1>3, <1>4 DEF Picks
  <2> QED  BY <1>2, <2>1
<1>7. \A k, l \in DOMAIN manifest' : manifest'[k].file = manifest'[l].file => k = l
  BY <1>4, <1>6 DEF Picks
<1>8. FileIds' = FileIds
  BY <1>1 DEF FileIds, Files
<1>9. \A i \in FileIds' : Heard(i)'
  BY <1>1, <1>5, <1>8 DEF Heard
<1> QED  BY <1>7, <1>9 DEF NoFileLost

\* The manifest and the warnings name every task that went on.
LEMMA ManifestLosesNothing ==
  ASSUME DiscoveryInv, BuildManifest
  PROVE  NoFileLost'
<1> DEFINE classified == [i \in DOMAIN ordered |-> Classified(ordered[i])]
           active == {i \in DOMAIN ordered : classified[i].status # "DONE"}
           S == {classified[i] : i \in DOMAIN ordered}
           Named(i) == i \in reported' \/ \E k \in DOMAIN manifest' : manifest'[k].file = i
<1>1. /\ phase \in {"classify", "unclassified"} /\ manifest' = Filter(classified, active)
      /\ reported' = reported \cup {ordered[i].file : i \in DOMAIN ordered \ active}
      /\ UNCHANGED <<input, found, ordered>>
  BY Zenon DEF BuildManifest
<1>2. /\ ordered \in Seq(FoundTasks) /\ Len(ordered) \in Nat /\ DOMAIN ordered = 1 .. Len(ordered)
      /\ \A i \in DOMAIN ordered : ordered[i] \in FoundTasks /\ ordered[i].file \in FileIds
  BY TasksAre DEF DiscoveryInv, DiscoveryType
<1>3. \A i \in DOMAIN ordered : classified[i].file = ordered[i].file
  <2>1. \A t \in FoundTasks : Classified(t).file = t.file
    BY DEF Classified, FoundTasks
  <2> QED  BY <1>2, <2>1
<1>4. \A i \in DOMAIN ordered : classified[i] \in S
  OBVIOUS
<1>5. active \in SUBSET (1 .. Len(ordered)) /\ active \subseteq DOMAIN ordered
  BY <1>2
<1> HIDE DEF classified, active, S
<1>6. Picks(manifest', classified, active)
  <2>1. \A i \in active : classified[i] \in S
    BY <1>4, <1>5
  <2> QED  BY <1>1, <1>2, <1>5, <2>1, FilterOf
<1>7. \A k \in DOMAIN manifest' : /\ Nth(active, k) \in DOMAIN ordered
                                  /\ manifest'[k].file = ordered[Nth(active, k)].file
  BY <1>3, <1>5, <1>6 DEF Picks
<1>8. ASSUME NEW i \in DOMAIN ordered PROVE Named(ordered[i].file)
  <2>1. CASE i \in active
    BY <1>3, <1>6, <2>1 DEF Picks
  <2>2. CASE i \notin active
    BY <1>1, <2>2
  <2> QED  BY <2>1, <2>2
<1>9. /\ \A i \in FileIds : i \in reported \/ Represented(found, ordered, i)
      /\ DistinctNames => Distinct(ordered)
  BY <1>1 DEF DiscoveryInv, ClassifiedCover
<1>10. FileIds' = FileIds /\ Files' = Files /\ DistinctNames' = DistinctNames
  BY <1>1 DEF FileIds, Files, DistinctNames, Name
<1> HIDE DEF Named
<1>11. ASSUME NEW i \in FileIds
       PROVE  \/ Named(i)
              \/ /\ input.indexed
                 /\ \E k, l \in DOMAIN found :
                      /\ found[k].file = i /\ k < l /\ Named(found[l].file)
                      /\ found[k].ref = found[l].ref /\ found[k].ref # NoReference
  <2>0. \A j : Holds(ordered, j) => Named(j)
    BY <1>8 DEF Holds
  <2>1. CASE i \in reported
    BY <1>1, <2>1 DEF Named
  <2>2. CASE Holds(ordered, i)
    BY <2>0, <2>2
  <2>3. CASE /\ input.indexed
             /\ \E k, l \in DOMAIN found :
                  /\ found[k].file = i /\ k < l /\ Holds(ordered, found[l].file)
                  /\ found[k].ref = found[l].ref /\ found[k].ref # NoReference
    BY <2>0, <2>3
  <2> QED  BY <1>9, <2>1, <2>2, <2>3 DEF Represented
<1>12. Distinct(ordered) => \A k, l \in DOMAIN manifest' :
                             manifest'[k].file = manifest'[l].file => k = l
  BY <1>6, <1>7 DEF Picks, Distinct
<1>13. \A i : Named(i) <=> Heard(i)'
  BY DEF Heard, Named
<1>14. \A i \in FileIds' :
         \/ Heard(i)'
         \/ /\ input'.indexed
            /\ \E k, l \in DOMAIN found' :
                 /\ found'[k].file = i /\ k < l /\ Heard(found[l].file)'
                 /\ found'[k].ref = found'[l].ref /\ found'[k].ref # NoReference
  <2> HIDE DEF Named
  <2>1. \A l \in DOMAIN found' : Heard(found[l].file)' <=> Named(found[l].file)
    BY <1>1, <1>13 DEF Heard, Named
  <2> QED  BY <1>1, <1>10, <1>11, <1>13, <2>1
<1> QED  BY <1>9, <1>10, <1>12, <1>14 DEF NoFileLost

LEMMA DiscoveryStarts ==
  ASSUME DiscoveryInit
  PROVE  DiscoveryInv
<1>1. \A S : <<>> \in Seq(S) /\ Len(<<>>) = 0 /\ DOMAIN <<>> = {}
  OBVIOUS
<1>2. DiscoveryType /\ ResultsOwn
  <2>1. Len(unclassified) = 0 /\ Len(results) = 0 /\ unclassified = <<>>
    BY DEF DiscoveryInit
  <2> QED  BY <1>1, <2>1 DEF DiscoveryInit, DiscoveryType, ResultsOwn, Early
<1>3. DOMAIN found = {}
  BY DEF DiscoveryInit
<1>4. Distinct(found) /\ FoundNotFailed
  BY <1>3 DEF Distinct, FoundNotFailed
<1> QED  BY <1>2, <1>4 DEF DiscoveryInit, DiscoveryInv, ExtractedCover, ClassifiedCover, NoFileLost

\* One file more for the language model.
LEMMA ExtractCovers ==
  ASSUME DiscoveryInv, ExtractFile
  PROVE  ExtractedCover'
<1>1. /\ phase = "extract" /\ next \in FileIds /\ next' = next + 1 /\ UNCHANGED <<input, phase>>
      /\ \/ /\ \E t \in ParseLlmResponse(next) : found' = Append(found, t)
            /\ failed' = failed
         \/ failed' = failed \cup {Name(next)} /\ found' = found
  BY DEF ExtractFile
<1>2. /\ input \in Inputs /\ found \in Seq(FoundTasks) /\ next \in Nat
      /\ Len(Files) \in Nat /\ FileIds = 1 .. Len(Files)
  BY InputIs DEF DiscoveryInv, DiscoveryType
<1>3. /\ \A i \in FileIds : i < next => IsFallback(i) \/ Holds(found, i)
      /\ \A k \in DOMAIN found : found[k].file < next
      /\ \A x \in failed : \E i \in FileIds : i < next /\ x = Name(i)
      /\ DistinctNames => Distinct(found) /\ FoundNotFailed
  BY <1>1 DEF DiscoveryInv, ExtractedCover, Early
<1>4. /\ Len(found) \in Nat /\ DOMAIN found = 1 .. Len(found)
      /\ \A k \in DOMAIN found : found[k].file \in FileIds
  BY <1>2, TasksAre
<1>5. /\ FileIds' = FileIds /\ DistinctNames' = DistinctNames
      /\ \A i : Name(i)' = Name(i)
  BY <1>1 DEF FileIds, Files, DistinctNames, Name
<1>6. \A i \in FileIds : i < next' <=> i < next \/ i = next
  BY <1>1, <1>2
<1>7. CASE failed' = failed \cup {Name(next)} /\ found' = found
  <2>1. \A i \in FileIds : i < next' => IsFallback(i)' \/ Holds(found, i)
    BY <1>3, <1>5, <1>6, <1>7 DEF IsFallback
  <2>2. \A k \in DOMAIN found : found[k].file < next'
    BY <1>3, <1>4, <1>6
  <2>3. \A x \in failed' : \E i \in FileIds : i < next' /\ x = Name(i)
    BY <1>1, <1>3, <1>6, <1>7
  <2>4. ASSUME DistinctNames PROVE FoundNotFailed'
    <3>1. \A k \in DOMAIN found : found[k].file # next
      BY <1>2, <1>3, <1>4
    <3>2. \A k \in DOMAIN found : Name(found[k].file) \notin failed'
      BY <1>1, <1>3, <1>4, <1>7, <2>4, <3>1 DEF FoundNotFailed, IsFallback, DistinctNames
    <3> QED  BY <1>5, <1>7, <3>2 DEF FoundNotFailed, IsFallback, Name, Files
  <2> QED  BY <1>1, <1>3, <1>5, <1>7, <2>1, <2>2, <2>3, <2>4 DEF ExtractedCover, Early
<1>8. ASSUME NEW t \in ParseLlmResponse(next), found' = Append(found, t), failed' = failed
      PROVE  ExtractedCover'
  <2>1. t.file = next
    BY DEF ParseLlmResponse, FoundTask
  <2>2. /\ DOMAIN found' = 1 .. Len(found) + 1 /\ found'[Len(found) + 1] = t
        /\ \A k \in 1 .. Len(found) : found'[k] = found[k]
    BY <1>2, <1>8, AppendProperties
  <2>3. \A k \in DOMAIN found' :
          \/ k \in DOMAIN found /\ found'[k] = found[k]
          \/ k = Len(found) + 1 /\ found'[k] = t
    <3> TAKE k \in DOMAIN found'
    <3>1. k \in 1 .. Len(found) \/ k = Len(found) + 1
      BY <1>4, <2>2
    <3> QED  BY <1>4, <2>2, <3>1
  <2>4. \A k \in DOMAIN found : k \in DOMAIN found' /\ found'[k] = found[k]
    BY <1>4, <2>2
  <2>5. Len(found) + 1 \in DOMAIN found' /\ Len(found) + 1 \notin DOMAIN found
    BY <1>4, <2>2
  <2>6. \A i \in FileIds : i < next' => IsFallback(i)' \/ Holds(found', i)
    <3> SUFFICES ASSUME NEW i \in FileIds, i < next' PROVE Name(i) \in failed' \/ Holds(found', i)
      BY <1>5 DEF IsFallback, Name, Files
    <3>1. CASE i = next
      BY <2>1, <2>2, <2>5, <3>1 DEF Holds
    <3>2. CASE i < next
      BY <1>3, <1>8, <2>4, <3>2 DEF Holds, IsFallback
    <3> QED  BY <1>6, <3>1, <3>2
  <2>7. \A k \in DOMAIN found' : found'[k].file < next'
    BY <1>1, <1>3, <1>4, <1>6, <2>1, <2>3
  <2>8. \A x \in failed' : \E i \in FileIds : i < next' /\ x = Name(i)
    BY <1>3, <1>6, <1>8
  <2>9. ASSUME DistinctNames PROVE Distinct(found') /\ FoundNotFailed'
    <3>1. \A k \in DOMAIN found : found[k].file # next
      BY <1>2, <1>3, <1>4
    <3>2. Distinct(found')
      BY <1>3, <2>1, <2>3, <2>9, <3>1 DEF Distinct
    <3>3. Name(next) \notin failed
      BY <1>1, <1>2, <1>3, <2>9 DEF DistinctNames
    <3>4. \A k \in DOMAIN found' : Name(found'[k].file) \notin failed'
      BY <1>3, <1>8, <2>1, <2>3, <2>9, <3>3 DEF FoundNotFailed, IsFallback
    <3> QED  BY <1>1, <3>2, <3>4 DEF FoundNotFailed, IsFallback, Name, Files
  <2> QED  BY <1>1, <1>5, <2>6, <2>7, <2>8, <2>9 DEF ExtractedCover, Early
<1> QED  BY <1>1, <1>7, <1>8

LEMMA DiscoveryInductive ==
  ASSUME DiscoveryInv, [DiscoveryNext]_discoveryVars
  PROVE  DiscoveryInv'
<1> USE DEF Early
<1>1. DiscoveryType' /\ ResultsOwn'
  BY DiscoveryTyped DEF DiscoveryInv
<1>2. /\ input \in Inputs /\ found \in Seq(FoundTasks) /\ next \in Nat
      /\ Len(Files) \in Nat /\ FileIds = 1 .. Len(Files)
  BY InputIs DEF DiscoveryInv, DiscoveryType
<1>3. ASSUME input' = input
      PROVE  FileIds' = FileIds /\ Files' = Files /\ DistinctNames' = DistinctNames
             /\ \A i : Name(i)' = Name(i)
  BY <1>3 DEF FileIds, Files, DistinctNames, Name
<1>4. CASE UNCHANGED <<input, phase, next, failed, found, ordered, reported, manifest>>
  <2>1. ExtractedCover'
    BY <1>4 DEF DiscoveryInv, ExtractedCover, FileIds, Files, IsFallback, Holds, Name,
                DistinctNames, Distinct, FoundNotFailed
  <2>2. ClassifiedCover'
    BY <1>4 DEF DiscoveryInv, ClassifiedCover, FileIds, Files, Represented, Holds, Name,
                DistinctNames, Distinct
  <2>3. NoFileLost'
    BY <1>4 DEF DiscoveryInv, NoFileLost, Heard, FileIds, Files, Name, DistinctNames
  <2> QED  BY <1>1, <2>1, <2>2, <2>3 DEF DiscoveryInv
<1>5. CASE ParseJsonTasks
  <2>1. phase' = "done" /\ NoFileLost'
    BY <1>5, JsonLosesNothing DEF ParseJsonTasks
  <2> QED  BY <1>1, <2>1 DEF DiscoveryInv, ExtractedCover, ClassifiedCover
<1>6. CASE SkipLlm \/ LlmUnavailable
  <2>1. /\ phase = "start" /\ phase' = "fallback" /\ failed' = Names /\ UNCHANGED <<input, found>>
        /\ found = <<>>
    BY <1>6 DEF SkipLlm, LlmUnavailable, DiscoveryInv, ExtractedCover
  <2>2. DOMAIN found' = {}
    BY <2>1
  <2>3. \A i \in FileIds' : IsFallback(i)'
    BY <1>3, <2>1 DEF IsFallback, Names
  <2>4. Distinct(found') /\ FoundNotFailed'
    BY <2>2 DEF Distinct, FoundNotFailed
  <2> QED  BY <1>1, <2>1, <2>3, <2>4 DEF DiscoveryInv, ExtractedCover, ClassifiedCover, NoFileLost
<1>7. CASE StartLlm
  <2>1. /\ phase = "start" /\ phase' = "extract" /\ UNCHANGED <<input, found, failed, next>>
        /\ found = <<>> /\ failed = {} /\ next = 1
    BY <1>7 DEF StartLlm, DiscoveryInv, ExtractedCover
  <2>2. DOMAIN found' = {} /\ FileIds' = FileIds
    BY <1>3, <2>1
  <2>3. \A i \in FileIds' : ~(i < next')
    BY <1>2, <2>1, <2>2
  <2>4. Distinct(found') /\ FoundNotFailed'
    BY <2>2 DEF Distinct, FoundNotFailed
  <2> QED  BY <1>1, <2>1, <2>2, <2>3, <2>4
           DEF DiscoveryInv, ExtractedCover, ClassifiedCover, NoFileLost
<1>8. CASE ExtractFile
  <2>1. phase' = "extract"
    BY <1>8 DEF ExtractFile
  <2> QED  BY <1>1, <1>8, <2>1, ExtractCovers DEF DiscoveryInv, ClassifiedCover, NoFileLost
<1>9. CASE EndLlm
  <2>1. /\ phase = "extract" /\ phase' = "fallback" /\ next \notin FileIds
        /\ UNCHANGED <<input, found, failed, next>>
    BY <1>9 DEF EndLlm
  <2>2. next \in Nat \ {0}
    BY DEF DiscoveryInv, DiscoveryType
  <2>3. \A i \in FileIds : i < next
    BY <1>2, <2>1, <2>2
  <2>4. /\ \A i \in FileIds : IsFallback(i) \/ Holds(found, i)
        /\ DistinctNames => Distinct(found) /\ FoundNotFailed
    BY <2>1, <2>3 DEF DiscoveryInv, ExtractedCover
  <2>5. ExtractedCover'
    BY <1>3, <2>1, <2>4 DEF ExtractedCover, IsFallback, Holds, Distinct, FoundNotFailed, Name, Files
  <2> QED  BY <1>1, <2>1, <2>5 DEF DiscoveryInv, ClassifiedCover, NoFileLost
<1>10. CASE Fallback
  <2>1. /\ phase = "fallback" /\ phase' = "classify" /\ UNCHANGED <<input, failed>>
        /\ reported' = {i \in FileIds : IsFallback(i) /\ ~ExtractTitle(i)}
    BY <1>10 DEF Fallback
  <2>2. /\ \A i \in FileIds :
             Holds(found, i) \/ (IsFallback(i) /\ ExtractTitle(i))
               => Represented(found', ordered', i)
        /\ Distinct(found) /\ FoundNotFailed => Distinct(ordered')
    BY <1>10, FallbackFinds DEF DiscoveryInv
  <2>3. /\ \A i \in FileIds : IsFallback(i) \/ Holds(found, i)
        /\ DistinctNames => Distinct(found) /\ FoundNotFailed
    BY <2>1 DEF DiscoveryInv, ExtractedCover
  <2>4. \A i \in FileIds : i \in reported' \/ Represented(found', ordered', i)
    BY <2>1, <2>2, <2>3
  <2>5. \A i : Represented(found', ordered', i) => Represented(found, ordered, i)'
    BY <2>1 DEF Represented, Holds
  <2>6. ClassifiedCover'
    BY <1>3, <2>1, <2>2, <2>3, <2>4, <2>5 DEF ClassifiedCover
  <2> QED  BY <1>1, <2>1, <2>6 DEF DiscoveryInv, ExtractedCover, NoFileLost
<1>11. CASE BuildManifest
  <2>1. phase' = "done" /\ NoFileLost'
    BY <1>11, ManifestLosesNothing DEF BuildManifest
  <2> QED  BY <1>1, <2>1 DEF DiscoveryInv, ExtractedCover, ClassifiedCover
<1>14. CASE NoClassifier
  <2>1. /\ phase = "classify" /\ phase' = "unclassified"
        /\ UNCHANGED <<input, next, failed, found, ordered, reported, manifest>>
    BY <1>14 DEF NoClassifier, InClassify
  <2>2. ClassifiedCover'
    BY <2>1 DEF DiscoveryInv, ClassifiedCover, FileIds, Files, Represented, Holds, Name,
                DistinctNames, Distinct
  <2> QED  BY <1>1, <2>1, <2>2 DEF DiscoveryInv, ExtractedCover, NoFileLost
<1>12. CASE NoToken \/ BatchAnswered \/ BatchRetried \/ BatchFailed
  BY <1>4, <1>12 DEF NoToken, BatchAnswered, BatchRetried, BatchFailed
<1>13. CASE UNCHANGED discoveryVars
  BY <1>4, <1>13 DEF discoveryVars
<1> QED  BY <1>5, <1>6, <1>7, <1>8, <1>9, <1>10, <1>11, <1>12, <1>13,
            <1>14 DEF DiscoveryNext, DiscoveryStep

-----------------------------------------------------------------------------
(* The discovery: theorems                                                 *)

\* The discovery keeps its tasks, its classifications and what it owes every
\* file in step.
THEOREM DiscoveryInvariant == DiscoverySpec => []DiscoveryInv
<1>1. DiscoveryInit => DiscoveryInv
  BY DiscoveryStarts
<1>2. DiscoveryInv /\ [DiscoveryNext]_discoveryVars => DiscoveryInv'
  BY DiscoveryInductive
<1> QED  BY <1>1, <1>2, PTL DEF DiscoverySpec

\* However the language model fails, whatever the index lists and whatever
\* the classifier answers, every file is offered, named in a warning or, under
\* an index, replaced by a later task with the same reference, and none is
\* offered twice.  The references are the parser's or whatever the model said.
THEOREM DiscoveryLosesNoFile == DiscoverySpec => []NoFileLost
<1>1. DiscoveryInv => NoFileLost
  BY DEF DiscoveryInv
<1> QED  BY <1>1, DiscoveryInvariant, PTL

\* Every task gets its own classification, for any batch size and any number
\* of short answers, retries and failures.
THEOREM DiscoveryClassifies == DiscoverySpec => []ClassifiedAsItself
<1>1. DiscoveryInv => ClassifiedAsItself
  <2> SUFFICES ASSUME DiscoveryInv, phase = "classify", ~InClassify
               PROVE  /\ Len(results) = Len(unclassified)
                      /\ DistinctNames => \A i \in DOMAIN unclassified :
                           Classification(unclassified[i]).of = unclassified[i].file
    BY DEF ClassifiedAsItself
  <2>1. /\ unclassified \in Seq(FoundTasks) /\ results \in Seq(Classifications)
        /\ position \in Nat /\ Len(results) = position /\ position <= Len(unclassified)
        /\ \A i \in 1 .. position : results[i].of = unclassified[i].file
    BY DEF DiscoveryInv, DiscoveryType, ResultsOwn
  <2>2. /\ Len(unclassified) \in Nat /\ DOMAIN unclassified = 1 .. Len(unclassified)
        /\ \A i \in DOMAIN unclassified : unclassified[i].file \in FileIds
    BY <2>1, TasksAre
  <2>3. position = Len(unclassified)
    <3>1. ~(position < Len(unclassified))
      BY DEF InClassify
    <3>2. position \in Nat /\ position <= Len(unclassified) /\ Len(unclassified) \in Nat
      BY <2>1, <2>2
    <3> QED  BY <3>1, <3>2
  <2>4. DOMAIN results = 1 .. Len(unclassified)
    BY <2>1, <2>3, LenProperties
  <2>5. ASSUME DistinctNames, NEW i \in DOMAIN unclassified
        PROVE  Classification(unclassified[i]).of = unclassified[i].file
    <3> DEFINE own == {j \in DOMAIN unclassified :
                         j \in DOMAIN results
                           /\ Name(unclassified[j].file) = Name(unclassified[i].file)}
    <3>1. own # {} /\ own \in SUBSET (1 .. Len(unclassified))
      BY <2>2, <2>4
    <3>2. \A j \in own : unclassified[j].file = unclassified[i].file
      BY <2>2, <2>5 DEF DistinctNames
    <3>3. Classification(unclassified[i]) = results[CHOOSE j \in own : \A k \in own : k <= j]
      BY <3>1 DEF Classification
    <3> HIDE DEF own
    <3>4. \E j \in own : \A k \in own : k <= j
      BY <2>2, <3>1, Greatest
    <3>5. PICK j \in own : Classification(unclassified[i]) = results[j]
      BY <3>3, <3>4
    <3>6. results[j].of = unclassified[j].file
      BY <2>1, <2>3, <3>1
    <3> QED  BY <3>2, <3>5, <3>6
  <2> QED  BY <2>1, <2>3, <2>5
<1> QED  BY <1>1, DiscoveryInvariant, PTL
=============================================================================
