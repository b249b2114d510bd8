------------------------- MODULE FactoryCli_proofs -------------------------
(***************************************************************************)
(* Theorems about `factory init` beside `factory start`, for any number of *)
(* checkouts, names, runs, interruptions, lost markers and deletions.      *)
(***************************************************************************)
EXTENDS FactoryCli, TLAPS

-----------------------------------------------------------------------------
(* The inductive invariant                                                 *)

EarlyPhases == {"migrate", "project"}
LatePhases == {"repository", "import", "starter", "marker"} \cup Tables

DbTypeOK ==
  db \in [home : BOOLEAN, level : Nat, projects : SUBSET Projects,
          repositories : SUBSET Repositories, imported : BOOLEAN,
          starter : SUBSET Tables, lastId : Nat, deleted : SUBSET Ids]

SessionTypeOK ==
  session \in [at : {"none"} \cup EarlyPhases \cup LatePhases,
               cwd : Checkouts \cup {Nothing}, marker : Marks \cup {Nothing},
               url : {Url, Nothing}, project : Ids \cup {Nothing},
               repository : Ids \cup {Nothing}]

\* A run belongs to a checkout, has its project once that is created, and no
\* repository before.
SessionPhases ==
  /\ session.at # "none" => session.cwd \in Checkouts
  /\ session.at \in LatePhases => session.project \in Ids
  /\ session.at \in EarlyPhases \cup {"repository"} => session.repository = Nothing

CliTypeOK ==
  /\ DbTypeOK
  /\ SessionTypeOK
  /\ SessionPhases
  /\ marker \in [Checkouts -> Marks \cup {Nothing}]
  /\ remote \in [Checkouts -> {Url, Nothing}]

\* Checkout c refers to the rows of mark m: by its marker file, by the marker
\* its run has read, or by what its run has created so far.
Holds(c, m) ==
  \/ marker[c] = m
  \/ session.cwd = c /\ session.marker = m
  \/ /\ session.cwd = c
     /\ session.project = m.project /\ session.repository = m.repository

\* The tables: identifiers and names are unique, a repository has its project,
\* and no identifier is newer than the last one drawn.
TablesSound ==
  /\ \A p, q \in db.projects : p.id = q.id \/ p.name = q.name => p = q
  /\ \A r, s \in db.repositories : r.id = s.id => r = s
  /\ \A r \in db.repositories : \E p \in db.projects : p.id = r.project
  /\ \A p \in db.projects : p.id <= db.lastId
  /\ \A r \in db.repositories : r.id <= db.lastId

\* What checkout c holds: rows that exist or were deleted, and if they exist,
\* a project of c's name and a repository of a project of that name.
HeldSound(c, m) ==
  /\ m.project <= db.lastId
  /\ m.repository # Nothing => m.repository <= db.lastId
  /\ \/ [id |-> m.project, name |-> NameOf[c]] \in db.projects
     \/ m.project \in db.deleted
  /\ m.repository # Nothing => m.repository \in RepositoryIds \cup db.deleted
  /\ \A p \in db.projects : p.id = m.project => p.name = NameOf[c]
  /\ \A r \in db.repositories, p \in db.projects :
       r.id = m.repository /\ p.id = r.project => p.name = NameOf[c]

\* Two checkouts that refer to the same row have the same name, the row
\* deleted or not.
SameRowSameName(c, m, d, n) ==
  /\ m.project = n.project => NameOf[c] = NameOf[d]
  /\ m.repository # Nothing /\ m.repository = n.repository => NameOf[c] = NameOf[d]

MarksSound ==
  /\ \A c \in Checkouts, m \in Marks : Holds(c, m) => HeldSound(c, m)
  /\ \A c, d \in Checkouts, m, n \in Marks :
       Holds(c, m) /\ Holds(d, n) => SameRowSameName(c, m, d, n)

CliInv ==
  /\ CliTypeOK
  /\ TablesSound
  /\ MarksSound
  /\ OneRegistration

-----------------------------------------------------------------------------
(* Types                                                                   *)

LEMMA FreshIsNew ==
  ASSUME CliTypeOK, CanDraw
  PROVE  Fresh \in Ids /\ Fresh > db.lastId
<1>1. MaxIds \in Ids /\ MaxIds > db.lastId
  BY InitAssumption DEF CliTypeOK, DbTypeOK, CanDraw, Ids
<1> QED  BY <1>1 DEF Fresh

LEMMA TypeProjectRow ==
  ASSUME DbTypeOK, NEW row \in Projects, NEW k \in Nat,
         db' = [db EXCEPT !.projects = @ \cup {row}, !.lastId = k]
  PROVE  DbTypeOK'
BY DEF DbTypeOK

LEMMA TypeRepositoryRow ==
  ASSUME DbTypeOK, NEW row \in Repositories, NEW k \in Nat,
         db' = [db EXCEPT !.repositories = @ \cup {row}, !.lastId = k]
  PROVE  DbTypeOK'
BY DEF DbTypeOK

LEMMA TypeInit == CliInit => CliTypeOK
BY DEF CliInit, InitInit, CliTypeOK, DbTypeOK, SessionTypeOK, SessionPhases, NoSession,
       EarlyPhases, LatePhases, Tables

LEMMA TypeProject ==
  ASSUME CliTypeOK, CreateProject
  PROVE  CliTypeOK'
<1> USE DEF CliTypeOK, EarlyPhases, LatePhases, Tables
<1>1. session.cwd \in Checkouts /\ session.repository = Nothing
  BY DEF SessionPhases, CreateProject
<1>2. ASSUME NEW id \in Ids, InsertProject(id, NameOf[session.cwd])
      PROVE  DbTypeOK' /\ \E k \in Ids : session' = [session EXCEPT !.at = "repository",
                                                                  !.project = k]
  <2>1. [id |-> id, name |-> NameOf[session.cwd]] \in Projects
    BY <1>1 DEF Projects
  <2>2. \A p \in db.projects : p.id \in Ids
    BY DEF DbTypeOK, Projects
  <2>3. (IF id > db.lastId THEN id ELSE db.lastId) \in Nat
    BY DEF DbTypeOK, Ids
  <2>4. CASE {p \in db.projects : p.name = NameOf[session.cwd]} = {}
    <3>1. db' = [db EXCEPT !.projects = @ \cup {[id |-> id, name |-> NameOf[session.cwd]]},
                           !.lastId = IF id > db.lastId THEN id ELSE db.lastId]
      BY <1>2, <2>4 DEF InsertProject, DbTypeOK
    <3>2. DbTypeOK'
      BY <2>1, <2>3, <3>1, TypeProjectRow
    <3> QED  BY <1>2, <2>4, <3>2 DEF InsertProject
  <2>5. CASE {p \in db.projects : p.name = NameOf[session.cwd]} # {}
    BY <1>2, <2>2, <2>5 DEF InsertProject, DbTypeOK
  <2> QED  BY <2>4, <2>5
<1>3. DbTypeOK' /\ \E k \in Ids : session' = [session EXCEPT !.at = "repository",
                                                           !.project = k]
  <2>1. session.marker # Nothing => session.marker.project \in Ids
    BY DEF SessionTypeOK, Marks
  <2> QED  BY <1>2, <2>1, FreshIsNew DEF CreateProject, DbTypeOK
<1> QED  BY <1>1, <1>3 DEF CreateProject, SessionTypeOK, SessionPhases

LEMMA TypeRepository ==
  ASSUME CliTypeOK, CreateRepository
  PROVE  CliTypeOK'
<1> USE DEF CliTypeOK, EarlyPhases, LatePhases, Tables
<1>1. ASSUME NEW id \in Ids \cup {Nothing}, FoundRepository(id)
      PROVE  CliTypeOK'
  BY <1>1 DEF FoundRepository, CreateRepository, SessionTypeOK, SessionPhases, DbTypeOK
<1>2. CASE Abort
  BY <1>2 DEF Abort, NoSession, SessionTypeOK, SessionPhases, DbTypeOK
<1>3. ASSUME NEW id \in Ids, InsertRepository(id), session.url # Nothing
      PROVE  CliTypeOK'
  <2>1. CASE Abort  BY <1>2, <2>1
  <2>2. CASE ~Abort
    <3>1. [id |-> id, project |-> session.project, url |-> session.url] \in Repositories
      BY <1>3 DEF Repositories, CreateRepository, SessionTypeOK, SessionPhases
    <3>2. (IF id > db.lastId THEN id ELSE db.lastId) \in Nat
      BY DEF DbTypeOK, Ids
    <3>3. DbTypeOK'
      <4>1. db' = [db EXCEPT !.repositories = @ \cup {[id |-> id, project |-> session.project,
                                                      url |-> session.url]},
                             !.lastId = IF id > db.lastId THEN id ELSE db.lastId]
        BY <1>3, <2>2 DEF InsertRepository, DbTypeOK
      <4> QED  BY <3>1, <3>2, <4>1, TypeRepositoryRow
    <3> QED
      BY <1>3, <2>2, <3>3 DEF InsertRepository, CreateRepository, SessionTypeOK, SessionPhases
  <2> QED  BY <2>1, <2>2
<1>4. MarkedRepository \in Ids \cup {Nothing}
  BY DEF MarkedRepository, SessionTypeOK, Marks
<1>5. \A r \in RegisteredByUrl : r.id \in Ids
  BY DEF RegisteredByUrl, DbTypeOK, Repositories
<1> QED  BY <1>1, <1>3, <1>4, <1>5, FreshIsNew DEF CreateRepository

LEMMA TypeNext == CliTypeOK /\ [CliNext]_cliVars => CliTypeOK'
<1> SUFFICES ASSUME CliTypeOK, [CliNext]_cliVars
             PROVE  CliTypeOK'
  OBVIOUS
<1>0. CASE UNCHANGED <<db, marker, remote, session>>
  BY <1>0 DEF CliTypeOK, DbTypeOK, SessionTypeOK, SessionPhases
<1>1. ASSUME NEW c \in Checkouts, RunInit(c)
      PROVE  CliTypeOK'
  BY <1>1 DEF RunInit, ExistingMarker, DetectAll, NoSession, CliTypeOK, DbTypeOK,
              SessionTypeOK, SessionPhases, EarlyPhases, LatePhases, Tables
<1>2. ASSUME NEW c \in Checkouts, GitRemoteAdded(c) \/ MarkerLost(c)
      PROVE  CliTypeOK'
  BY <1>2 DEF GitRemoteAdded, MarkerLost, CliTypeOK, DbTypeOK, SessionTypeOK, SessionPhases
<1>3. CASE Migrate
  BY <1>3, InitAssumption
     DEF Migrate, RunMigrations, EnsureFactoryHome, CliTypeOK, DbTypeOK, SessionTypeOK,
         SessionPhases, EarlyPhases, LatePhases, Tables
<1>4. CASE HandleTaskImport
  BY <1>4 DEF HandleTaskImport, CliTypeOK, DbTypeOK, SessionTypeOK, SessionPhases,
              EarlyPhases, LatePhases, Tables
<1>5. CASE SetupStarterConfiguration
  BY <1>5 DEF SetupStarterConfiguration, StarterOrder, CliTypeOK, DbTypeOK, SessionTypeOK,
              SessionPhases, EarlyPhases, LatePhases, Tables
<1>6. CASE WriteMarker
  <2>1. /\ session.cwd \in Checkouts
        /\ [project |-> session.project, repository |-> session.repository] \in Marks
    BY <1>6 DEF WriteMarker, CliTypeOK, SessionTypeOK, SessionPhases, Marks, LatePhases
  <2> QED
    BY <1>6, <2>1 DEF WriteMarker, NoSession, CliTypeOK, DbTypeOK, SessionTypeOK,
                      SessionPhases, EarlyPhases, LatePhases, Tables
<1>7. CASE InitEnds
  BY <1>7 DEF InitEnds, Abort, NoSession, CliTypeOK, DbTypeOK, SessionTypeOK,
              SessionPhases, EarlyPhases, LatePhases, Tables
<1>8. CASE StartMigrates
  BY <1>8, InitAssumption
     DEF StartMigrates, RunMigrations, EnsureFactoryHome, CliTypeOK, DbTypeOK,
         SessionTypeOK, SessionPhases
<1>9. CASE OperatorDeletes
  <2>1. \A r \in db.repositories \cup db.projects : r.id \in Ids
    BY DEF CliTypeOK, DbTypeOK, Repositories, Projects
  <2>2. DbTypeOK'
    <3>1. ASSUME NEW r \in db.repositories, DeleteRepository(r)
          PROVE  DbTypeOK'
      BY <2>1, <3>1 DEF DeleteRepository, CliTypeOK, DbTypeOK
    <3>2. ASSUME NEW p \in db.projects, DeleteProject(p)
          PROVE  DbTypeOK'
      BY <2>1, <3>2 DEF DeleteProject, CliTypeOK, DbTypeOK
    <3> QED  BY <1>9, <3>1, <3>2 DEF OperatorDeletes
  <2> QED
    BY <1>9, <2>2 DEF OperatorDeletes, DeleteRepository, DeleteProject, CliTypeOK,
                      SessionTypeOK, SessionPhases
<1> QED
  BY <1>0, <1>1, <1>2, <1>3, <1>4, <1>5, <1>6, <1>7, <1>8, <1>9, TypeProject, TypeRepository
     DEF CliNext, InitStep, ProcessStep, cliVars, initVars

-----------------------------------------------------------------------------
(* Steps that keep the rows                                                *)

RowsKept == /\ db'.projects = db.projects /\ db'.repositories = db.repositories
            /\ db'.deleted = db.deleted /\ db'.lastId = db.lastId

Sound == TablesSound /\ MarksSound /\ OneRegistration

LEMMA RowsKeptTables ==
  ASSUME Sound, RowsKept
  PROVE  TablesSound' /\ OneRegistration'
BY DEF Sound, RowsKept, TablesSound, OneRegistration

LEMMA RowsKeptHeld ==
  ASSUME RowsKept, NEW c, NEW m, HeldSound(c, m)
  PROVE  HeldSound(c, m)'
BY DEF RowsKept, HeldSound, RepositoryIds

\* No checkout refers to a row that it did not refer to.
MarksKept == \A c \in Checkouts, m \in Marks : Holds(c, m)' => Holds(c, m)

LEMMA NothingNewIsHeld ==
  ASSUME Sound, RowsKept, MarksKept
  PROVE  Sound'
<1>1. ASSUME NEW c \in Checkouts, NEW m \in Marks, Holds(c, m)'
      PROVE  HeldSound(c, m)'
  <2>1. HeldSound(c, m)  BY <1>1 DEF Sound, MarksSound, MarksKept
  <2> QED  BY <2>1, RowsKeptHeld
<1>2. ASSUME NEW c \in Checkouts, NEW d \in Checkouts, NEW m \in Marks, NEW n \in Marks,
             Holds(c, m)', Holds(d, n)'
      PROVE  SameRowSameName(c, m, d, n)
  BY <1>2 DEF Sound, MarksSound, MarksKept
<1>3. MarksSound'
  BY <1>1, <1>2 DEF MarksSound, SameRowSameName
<1> QED  BY <1>3, RowsKeptTables DEF Sound

\* Checkout c may now refer to the rows of mark k besides.
MarkAdded(c, k) ==
  \A d \in Checkouts, n \in Marks : Holds(d, n)' => Holds(d, n) \/ (d = c /\ n = k)

AgreesWithAll(c, k) ==
  \A d \in Checkouts, n \in Marks : Holds(d, n) => SameRowSameName(c, k, d, n)

LEMMA OneMoreMark ==
  ASSUME MarksSound, NEW c \in Checkouts, NEW k \in Marks, MarkAdded(c, k),
         AgreesWithAll(c, k),
         \A d \in Checkouts, n \in Marks : Holds(d, n)' => HeldSound(d, n)'
  PROVE  MarksSound'
<1>1. ASSUME NEW d \in Checkouts, NEW e \in Checkouts, NEW m \in Marks, NEW n \in Marks,
             Holds(d, m)', Holds(e, n)'
      PROVE  SameRowSameName(d, m, e, n)
  <2>1. CASE Holds(d, m) /\ Holds(e, n)
    BY <2>1 DEF MarksSound
  <2>2. CASE d = c /\ m = k /\ Holds(e, n)
    BY <2>2 DEF AgreesWithAll
  <2>3. CASE e = c /\ n = k /\ Holds(d, m)
    BY <2>3 DEF AgreesWithAll, SameRowSameName
  <2>4. CASE d = c /\ m = k /\ e = c /\ n = k
    BY <2>4 DEF SameRowSameName
  <2> QED  BY <1>1, <2>1, <2>2, <2>3, <2>4 DEF MarkAdded
<1> QED  BY <1>1 DEF MarksSound, SameRowSameName

LEMMA SoundInit == CliInit => Sound
<1> SUFFICES ASSUME CliInit PROVE Sound
  OBVIOUS
<1>1. ASSUME NEW c \in Checkouts, NEW m \in Marks
      PROVE  ~Holds(c, m)
  <2>1. m # Nothing /\ m.project # Nothing
    BY MarkAssumption, InitAssumption DEF Marks, Ids
  <2> QED  BY <2>1 DEF Holds, CliInit, InitInit, NoSession
<1>2. MarksSound  BY <1>1 DEF MarksSound
<1>3. db.projects = {} /\ db.repositories = {}
  BY DEF CliInit, InitInit
<1> QED  BY <1>2, <1>3 DEF Sound, TablesSound, OneRegistration

\* Every step but the registrations and the deletions.
StepOnRows ==
  \/ \E c \in Checkouts : RunInit(c) \/ GitRemoteAdded(c) \/ MarkerLost(c)
  \/ Migrate \/ HandleTaskImport \/ SetupStarterConfiguration \/ WriteMarker
  \/ InitEnds \/ StartMigrates \/ UNCHANGED initVars

LEMMA SoundRowsKept ==
  ASSUME CliTypeOK, Sound, StepOnRows
  PROVE  Sound'
<1>0. \A m \in Marks : m # Nothing /\ m.project # Nothing
  BY MarkAssumption, InitAssumption DEF Marks, Ids
<1>1. ASSUME NEW c \in Checkouts, RunInit(c) \/ GitRemoteAdded(c) \/ MarkerLost(c)
      PROVE  Sound'
  <2>1. RowsKept  BY <1>1 DEF RowsKept, RunInit, GitRemoteAdded, MarkerLost
  <2>2. MarksKept
    <3>1. CASE RunInit(c)
      BY <1>0, <3>1 DEF MarksKept, Holds, RunInit, NoSession, ExistingMarker
    <3>2. CASE GitRemoteAdded(c)
      BY <3>2 DEF MarksKept, Holds, GitRemoteAdded
    <3>3. CASE MarkerLost(c)
      BY <1>0, <3>3 DEF MarksKept, Holds, MarkerLost, CliTypeOK
    <3> QED  BY <1>1, <3>1, <3>2, <3>3
  <2> QED  BY <2>1, <2>2, NothingNewIsHeld
<1>2. CASE \/ Migrate \/ HandleTaskImport \/ SetupStarterConfiguration
           \/ StartMigrates \/ UNCHANGED initVars
  <2>1. RowsKept
    BY <1>2 DEF RowsKept, Migrate, HandleTaskImport, SetupStarterConfiguration, StartMigrates,
                RunMigrations, EnsureFactoryHome, initVars, CliTypeOK, DbTypeOK
  <2>2. /\ marker' = marker /\ session'.cwd = session.cwd
        /\ session'.marker = session.marker
        /\ session'.project = session.project /\ session'.repository = session.repository
    BY <1>2 DEF Migrate, HandleTaskImport, SetupStarterConfiguration, StartMigrates,
                initVars, CliTypeOK, SessionTypeOK
  <2>3. MarksKept  BY <2>2 DEF MarksKept, Holds
  <2> QED  BY <2>1, <2>3, NothingNewIsHeld
<1>3. CASE WriteMarker
  <2>1. RowsKept  BY <1>3 DEF RowsKept, WriteMarker
  <2>2. MarksKept
    BY <1>0, <1>3 DEF MarksKept, Holds, WriteMarker, NoSession, CliTypeOK
  <2> QED  BY <2>1, <2>2, NothingNewIsHeld
<1>4. CASE InitEnds
  <2>1. RowsKept  BY <1>4 DEF RowsKept, InitEnds, Abort
  <2>2. MarksKept
    BY <1>0, <1>4 DEF MarksKept, Holds, InitEnds, Abort, NoSession
  <2> QED  BY <2>1, <2>2, NothingNewIsHeld
<1> QED  BY <1>1, <1>2, <1>3, <1>4 DEF StepOnRows

-----------------------------------------------------------------------------
(* The step that registers the project                                     *)

\* The run in checkout c has project k, and no repository yet.
ProjectHeld(c, k) ==
  /\ marker' = marker
  /\ c = session.cwd
  /\ session' = [session EXCEPT !.at = "repository", !.project = k]

Mark(k, r) == [project |-> k, repository |-> r]

LEMMA ProjectMark ==
  ASSUME CliTypeOK, session.at = "project", NEW c \in Checkouts, NEW k \in Ids,
         ProjectHeld(c, k)
  PROVE  Mark(k, Nothing) \in Marks /\ MarkAdded(c, Mark(k, Nothing))
<1>1. session.repository = Nothing
  BY DEF CliTypeOK, SessionPhases, EarlyPhases
<1>2. \A n \in Marks : n.project = k /\ n.repository = Nothing => n = Mark(k, Nothing)
  BY DEF Marks, Mark
<1> QED
  BY <1>1, <1>2 DEF ProjectHeld, MarkAdded, Holds, Marks, Mark, CliTypeOK, SessionTypeOK

\* The project exists under the name of the checkout.
LEMMA ProjectFound ==
  ASSUME CliTypeOK, Sound, session.at = "project", NEW c \in Checkouts, NEW k \in Ids,
         ProjectHeld(c, k), db' = db, [id |-> k, name |-> NameOf[c]] \in db.projects
  PROVE  Sound'
<1>0. MarksSound /\ TablesSound  BY DEF Sound
<1>1. RowsKept  BY DEF RowsKept
<1>2. \A p \in db.projects : p.id = k => p.name = NameOf[c]
  BY <1>0 DEF TablesSound
<1>3. HeldSound(c, Mark(k, Nothing))
  <2>1. \A r \in db.repositories : r.id # Nothing
    BY InitAssumption DEF CliTypeOK, DbTypeOK, Repositories, Ids
  <2>2. k <= db.lastId  BY <1>0 DEF TablesSound
  <2> QED  BY <1>2, <2>1, <2>2 DEF HeldSound, Mark
<1>4. AgreesWithAll(c, Mark(k, Nothing))
  <2> SUFFICES ASSUME NEW d \in Checkouts, NEW n \in Marks, Holds(d, n)
               PROVE  SameRowSameName(c, Mark(k, Nothing), d, n)
    BY DEF AgreesWithAll
  <2>1. HeldSound(d, n)  BY <1>0 DEF MarksSound
  <2> QED  BY <2>1 DEF HeldSound, SameRowSameName, Mark
<1>5. ASSUME NEW d \in Checkouts, NEW n \in Marks, Holds(d, n)'
      PROVE  HeldSound(d, n)'
  <2>1. HeldSound(d, n)
    BY <1>0, <1>3, <1>5, ProjectMark DEF MarkAdded, MarksSound
  <2> QED  BY <1>1, <2>1, RowsKeptHeld
<1>6. MarksSound'
  BY <1>0, <1>4, <1>5, ProjectMark, OneMoreMark
<1> QED  BY <1>1, <1>6, RowsKeptTables DEF Sound

\* The project is inserted.
ProjectInserted(c, k) ==
  /\ \A p \in db.projects : p.name # NameOf[c] /\ p.id # k
  /\ db'.projects = db.projects \cup {[id |-> k, name |-> NameOf[c]]}
  /\ db'.repositories = db.repositories /\ db'.deleted = db.deleted
  /\ db'.lastId \in Nat /\ db'.lastId >= db.lastId /\ db'.lastId >= k

LEMMA ProjectAdded ==
  ASSUME CliTypeOK, Sound, session.at = "project", NEW c \in Checkouts, NEW k \in Ids,
         ProjectHeld(c, k), ProjectInserted(c, k), AgreesWithAll(c, Mark(k, Nothing))
  PROVE  Sound'
<1>0. MarksSound /\ TablesSound  BY DEF Sound
<1>1. db.lastId \in Nat /\ k \in Nat
      /\ (\A r \in db.repositories : r.id # Nothing /\ r.id \in Nat)
      /\ (\A p \in db.projects : p.id \in Nat)
  BY InitAssumption DEF CliTypeOK, DbTypeOK, Repositories, Projects, Ids
<1>2. TablesSound'
  <2>1. \A p, q \in db'.projects : p.id = q.id \/ p.name = q.name => p = q
    BY <1>0 DEF TablesSound, ProjectInserted
  <2>2. \A p \in db'.projects : p.id <= db'.lastId
    BY <1>0, <1>1 DEF TablesSound, ProjectInserted
  <2>3. \A r \in db'.repositories : r.id <= db'.lastId
    BY <1>0, <1>1 DEF TablesSound, ProjectInserted
  <2>4. \A r \in db'.repositories : \E p \in db'.projects : p.id = r.project
    BY <1>0 DEF TablesSound, ProjectInserted
  <2> QED  BY <1>0, <2>1, <2>2, <2>3, <2>4 DEF TablesSound, ProjectInserted
<1>3. OneRegistration'
  BY <1>2 DEF TablesSound, OneRegistration, ProjectInserted, Sound
<1>4. HeldSound(c, Mark(k, Nothing))'
  BY <1>1 DEF HeldSound, Mark, ProjectInserted
<1>5. ASSUME NEW d \in Checkouts, NEW n \in Marks, Holds(d, n)
      PROVE  HeldSound(d, n)'
  <2>1. HeldSound(d, n) /\ SameRowSameName(c, Mark(k, Nothing), d, n)
    BY <1>0, <1>5 DEF MarksSound, AgreesWithAll
  <2>2. n.project \in Nat /\ (n.repository # Nothing => n.repository \in Nat)
    BY DEF Marks, Ids
  <2>3. n.project <= db'.lastId /\ (n.repository # Nothing => n.repository <= db'.lastId)
    BY <1>1, <2>1, <2>2 DEF HeldSound, ProjectInserted
  <2>4. \A p \in db'.projects : p.id = n.project => p.name = NameOf[d]
    BY <2>1 DEF HeldSound, SameRowSameName, Mark, ProjectInserted
  <2>5. \A r \in db'.repositories, p \in db'.projects :
           r.id = n.repository /\ p.id = r.project => p.name = NameOf[d]
    <3>1. \A r \in db.repositories : r.project # k
      BY <1>0 DEF TablesSound, ProjectInserted
    <3> QED  BY <2>1, <3>1 DEF HeldSound, ProjectInserted
  <2> QED  BY <2>1, <2>3, <2>4, <2>5 DEF HeldSound, RepositoryIds, ProjectInserted
<1>6. ASSUME NEW d \in Checkouts, NEW n \in Marks, Holds(d, n)'
      PROVE  HeldSound(d, n)'
  BY <1>4, <1>5, <1>6, ProjectMark DEF MarkAdded
<1>7. MarksSound'
  BY <1>0, <1>6, ProjectMark, OneMoreMark
<1> QED  BY <1>2, <1>3, <1>7 DEF Sound

LEMMA SoundProject ==
  ASSUME CliTypeOK, Sound, CreateProject
  PROVE  Sound'
<1> DEFINE c == session.cwd
<1>0. session.at = "project" /\ c \in Checkouts /\ marker' = marker
  BY DEF CreateProject, CliTypeOK, SessionPhases
<1>1. MarksSound /\ TablesSound  BY DEF Sound
<1>2. ASSUME NEW id \in Ids, id \notin ProjectIds, InsertProject(id, NameOf[c]),
             AgreesWithAll(c, Mark(id, Nothing))
      PROVE  Sound'
  <2>1. CASE {p \in db.projects : p.name = NameOf[c]} = {}
    <3>1. ProjectHeld(c, id)
      BY <1>0, <1>2, <2>1 DEF InsertProject, ProjectHeld
    <3>2. ProjectInserted(c, id)
      <4>1. db' = [db EXCEPT !.projects = @ \cup {[id |-> id, name |-> NameOf[c]]},
                             !.lastId = IF id > @ THEN id ELSE @]
        BY <1>2, <2>1 DEF InsertProject
      <4>2. db.lastId \in Nat /\ id \in Nat
        BY DEF CliTypeOK, DbTypeOK, Ids
      <4>3. \A p \in db.projects : p.name # NameOf[c] /\ p.id # id
        BY <1>2, <2>1 DEF ProjectIds
      <4>4. /\ db'.projects = db.projects \cup {[id |-> id, name |-> NameOf[c]]}
            /\ db'.repositories = db.repositories /\ db'.deleted = db.deleted
            /\ db'.lastId = IF id > db.lastId THEN id ELSE db.lastId
        BY <4>1 DEF CliTypeOK, DbTypeOK
      <4> QED  BY <4>2, <4>3, <4>4 DEF ProjectInserted
    <3> HIDE DEF c
    <3> QED  BY <1>0, <1>2, <3>1, <3>2, ProjectAdded
  <2>2. CASE {p \in db.projects : p.name = NameOf[c]} # {}
    <3>1. PICK p \in db.projects :
             /\ p.name = NameOf[c]
             /\ session' = [session EXCEPT !.at = "repository", !.project = p.id]
             /\ db' = db
      BY <1>2, <2>2 DEF InsertProject
    <3>2. p.id \in Ids /\ p = [id |-> p.id, name |-> NameOf[c]]
      BY <3>1 DEF CliTypeOK, DbTypeOK, Projects
    <3>3. ProjectHeld(c, p.id)
      BY <1>0, <3>1 DEF ProjectHeld
    <3> HIDE DEF c
    <3> QED  BY <1>0, <3>1, <3>2, <3>3, ProjectFound
  <2> QED  BY <2>1, <2>2
<1>3. CASE session.marker # Nothing
  <2>1. session.marker \in Marks /\ session.marker.project \in Ids
    BY <1>3 DEF CliTypeOK, SessionTypeOK, Marks
  <2>2. Holds(c, session.marker)  BY DEF Holds
  <2>3. HeldSound(c, session.marker)
    BY <1>0, <1>1, <2>1, <2>2 DEF MarksSound
  <2>4. CASE session.marker.project \in ProjectIds
    <3>1. ProjectHeld(c, session.marker.project) /\ db' = db
      BY <1>0, <1>3, <2>4 DEF CreateProject, ProjectHeld
    <3>2. [id |-> session.marker.project, name |-> NameOf[c]] \in db.projects
      <4>1. PICK p \in db.projects : p.id = session.marker.project
        BY <2>4 DEF ProjectIds
      <4>2. p = [id |-> p.id, name |-> p.name]
        BY DEF CliTypeOK, DbTypeOK, Projects
      <4> QED  BY <2>3, <4>1, <4>2 DEF HeldSound
    <3> HIDE DEF c
    <3> QED  BY <1>0, <2>1, <3>1, <3>2, ProjectFound
  <2>5. CASE session.marker.project \notin ProjectIds
    <3>1. AgreesWithAll(c, Mark(session.marker.project, Nothing))
      BY <1>0, <1>1, <2>1, <2>2 DEF MarksSound, AgreesWithAll, SameRowSameName, Mark
    <3>2. InsertProject(session.marker.project, NameOf[c])
      BY <1>3, <2>5 DEF CreateProject
    <3> QED  BY <1>2, <2>1, <2>5, <3>1, <3>2
  <2> QED  BY <2>4, <2>5
<1>4. CASE session.marker = Nothing
  <2>1. Fresh \in Ids /\ Fresh > db.lastId /\ InsertProject(Fresh, NameOf[c])
    BY <1>4, FreshIsNew DEF CreateProject
  <2>2. Fresh \notin ProjectIds
    BY <1>1, <2>1 DEF ProjectIds, TablesSound, CliTypeOK, DbTypeOK, Projects, Ids
  <2>3. AgreesWithAll(c, Mark(Fresh, Nothing))
    <3> SUFFICES ASSUME NEW d \in Checkouts, NEW n \in Marks, Holds(d, n)
                 PROVE  SameRowSameName(c, Mark(Fresh, Nothing), d, n)
      BY DEF AgreesWithAll
    <3>1. n.project <= db.lastId  BY <1>1 DEF MarksSound, HeldSound
    <3>2. n.project # Fresh
      BY <2>1, <3>1 DEF Marks, Ids, CliTypeOK, DbTypeOK
    <3> QED  BY <3>2 DEF SameRowSameName, Mark
  <2> QED  BY <1>2, <2>1, <2>2, <2>3
<1> QED  BY <1>3, <1>4

-----------------------------------------------------------------------------
(* The step that registers the repository                                  *)

\* The run in checkout c has repository r besides its project.
RepositoryHeld(c, r) ==
  /\ marker' = marker
  /\ c = session.cwd
  /\ session' = [session EXCEPT !.at = "import", !.repository = r]

LEMMA RepositoryMark ==
  ASSUME CliTypeOK, session.at = "repository", NEW c \in Checkouts,
         NEW r \in Ids \cup {Nothing}, RepositoryHeld(c, r)
  PROVE  /\ Mark(session.project, r) \in Marks
         /\ MarkAdded(c, Mark(session.project, r))
         /\ Mark(session.project, Nothing) \in Marks
         /\ Holds(c, Mark(session.project, Nothing))
<1>1. session.project \in Ids /\ session.repository = Nothing
  BY DEF CliTypeOK, SessionPhases, LatePhases
<1>2. \A n \in Marks : n.project = session.project /\ n.repository = r
                         => n = Mark(session.project, r)
  BY DEF Marks, Mark
<1>3. MarkAdded(c, Mark(session.project, r))
  BY <1>2 DEF RepositoryHeld, MarkAdded, Holds, CliTypeOK, SessionTypeOK
<1> QED
  BY <1>1, <1>3 DEF RepositoryHeld, Holds, Marks, Mark

\* The repository exists, in a project of the name of the checkout, or there
\* is none.
LEMMA RepositoryFound ==
  ASSUME CliTypeOK, Sound, session.at = "repository", NEW c \in Checkouts,
         NEW r \in Ids \cup {Nothing}, RepositoryHeld(c, r), db' = db,
         HeldSound(c, Mark(session.project, r)),
         AgreesWithAll(c, Mark(session.project, r))
  PROVE  Sound'
<1>0. MarksSound  BY DEF Sound
<1>1. RowsKept  BY DEF RowsKept
<1>2. ASSUME NEW d \in Checkouts, NEW n \in Marks, Holds(d, n)'
      PROVE  HeldSound(d, n)'
  <2>1. HeldSound(d, n)
    BY <1>0, <1>2, RepositoryMark DEF MarkAdded, MarksSound
  <2> QED  BY <1>1, <2>1, RowsKeptHeld
<1>3. MarksSound'
  BY <1>0, <1>2, RepositoryMark, OneMoreMark
<1> QED  BY <1>1, <1>3, RowsKeptTables DEF Sound

\* The repository is inserted, under an identifier never used or of a row
\* that was deleted.
RepositoryInserted(id) ==
  /\ \A r \in db.repositories : r.id # id
  /\ session.project \in ProjectIds
  /\ db'.repositories = db.repositories \cup {[id |-> id, project |-> session.project,
                                               url |-> session.url]}
  /\ db'.projects = db.projects /\ db'.deleted = db.deleted
  /\ db'.lastId \in Nat /\ db'.lastId >= db.lastId /\ db'.lastId >= id
  /\ id \in db.deleted \/ RegisteredByUrl = {}

LEMMA RepositoryAdded ==
  ASSUME CliTypeOK, Sound, session.at = "repository", NEW c \in Checkouts, NEW id \in Ids,
         RepositoryHeld(c, id), RepositoryInserted(id),
         AgreesWithAll(c, Mark(session.project, id))
  PROVE  Sound'
<1>p. PICK P \in Ids : P = session.project
  BY DEF CliTypeOK, SessionPhases, LatePhases
<1> DEFINE row == [id |-> id, project |-> session.project, url |-> session.url]
           k == Mark(P, id)
<1>0. MarksSound /\ TablesSound /\ OneRegistration  BY DEF Sound
<1>1. db.lastId \in Nat /\ id \in Nat
      /\ (\A r \in db.repositories : r.id \in Nat)
      /\ (\A p \in db.projects : p.id \in Nat)
  BY DEF CliTypeOK, DbTypeOK, Repositories, Projects, Ids
<1>2. TablesSound'
  <2>1. \A r, s \in db'.repositories : r.id = s.id => r = s
    BY <1>0 DEF TablesSound, RepositoryInserted
  <2>2. \A p \in db'.projects : p.id <= db'.lastId
    BY <1>0, <1>1 DEF TablesSound, RepositoryInserted
  <2>3. \A r \in db'.repositories : r.id <= db'.lastId
    BY <1>0, <1>1 DEF TablesSound, RepositoryInserted
  <2>4. \A r \in db'.repositories : \E p \in db'.projects : p.id = r.project
    BY <1>0 DEF TablesSound, RepositoryInserted, ProjectIds
  <2> QED  BY <1>0, <2>1, <2>2, <2>3, <2>4 DEF TablesSound, RepositoryInserted
<1>3. OneRegistration'
  <2>1. \A s \in db.repositories :
          s.project = row.project /\ s.url = row.url => id \in db.deleted
    BY DEF RepositoryInserted, RegisteredByUrl
  <2>2. \A r, s \in db'.repositories : r.project = s.project /\ r.url = s.url
                                      => r = s \/ {r.id, s.id} \cap db'.deleted # {}
    <3> SUFFICES ASSUME NEW r \in db'.repositories, NEW s \in db'.repositories,
                        r.project = s.project, r.url = s.url, r # s
                 PROVE  r.id \in db.deleted \/ s.id \in db.deleted
      BY DEF RepositoryInserted
    <3>1. CASE r \in db.repositories /\ s \in db.repositories
      BY <1>0, <3>1 DEF OneRegistration
    <3>2. CASE r = row /\ s \in db.repositories
      BY <2>1, <3>2
    <3>3. CASE s = row /\ r \in db.repositories
      BY <2>1, <3>3
    <3> QED  BY <3>1, <3>2, <3>3 DEF RepositoryInserted
  <2> QED  BY <1>0, <2>2 DEF OneRegistration, RepositoryInserted
<1>4. HeldSound(c, Mark(session.project, Nothing))
  BY <1>0, RepositoryMark DEF MarksSound
<1>5. \A p \in db.projects : p.id = session.project => p.name = NameOf[c]
  BY <1>4 DEF HeldSound, Mark
<1>6. HeldSound(c, k)'
  <2>1. /\ session.project <= db.lastId /\ session.project \in Nat
        /\ \/ [id |-> session.project, name |-> NameOf[c]] \in db.projects
           \/ session.project \in db.deleted
    BY <1>4, RepositoryMark DEF HeldSound, Mark, Marks, Ids
  <2>2. session.project <= db'.lastId
    BY <1>1, <2>1 DEF RepositoryInserted
  <2>3. id \in RepositoryIds'
    <3>1. row \in db'.repositories /\ row.id = id
      BY DEF RepositoryInserted
    <3> QED  BY <3>1 DEF RepositoryIds
  <2>4. \A r \in db'.repositories, p \in db'.projects :
           r.id = id /\ p.id = r.project => p.name = NameOf[c]
    <3> SUFFICES ASSUME NEW r \in db'.repositories, NEW p \in db'.projects,
                        r.id = id, p.id = r.project
                 PROVE  p.name = NameOf[c]
      OBVIOUS
    <3>1. r = row  BY DEF RepositoryInserted
    <3> QED  BY <1>5, <3>1 DEF RepositoryInserted
  <2> QED  BY <1>p, <1>5, <2>1, <2>2, <2>3, <2>4 DEF HeldSound, Mark, RepositoryInserted
<1>7. ASSUME NEW d \in Checkouts, NEW n \in Marks, Holds(d, n)
      PROVE  HeldSound(d, n)'
  <2>1. HeldSound(d, n) /\ SameRowSameName(c, k, d, n)
    BY <1>p, <1>0, <1>7 DEF MarksSound, AgreesWithAll
  <2>2. n.project \in Nat /\ (n.repository # Nothing => n.repository \in Nat)
    BY DEF Marks, Ids
  <2>3. n.project <= db'.lastId /\ (n.repository # Nothing => n.repository <= db'.lastId)
    BY <1>1, <2>1, <2>2 DEF HeldSound, RepositoryInserted
  <2>4. n.repository # Nothing => n.repository \in RepositoryIds' \cup db'.deleted
    BY <2>1 DEF HeldSound, RepositoryIds, RepositoryInserted
  <2>5. \A r \in db'.repositories, p \in db'.projects :
           r.id = n.repository /\ p.id = r.project => p.name = NameOf[d]
    <3>1. id # Nothing  BY InitAssumption DEF Ids
    <3>2. n.repository = id => NameOf[c] = NameOf[d]
      BY <2>1, <3>1 DEF SameRowSameName, Mark
    <3> QED  BY <1>5, <2>1, <3>2 DEF HeldSound, RepositoryInserted
  <2> QED  BY <2>1, <2>3, <2>4, <2>5 DEF HeldSound, RepositoryInserted
<1>8. ASSUME NEW d \in Checkouts, NEW n \in Marks, Holds(d, n)'
      PROVE  HeldSound(d, n)'
  BY <1>p, <1>6, <1>7, <1>8, RepositoryMark DEF MarkAdded
<1>9. MarksSound'
  BY <1>0, <1>8, RepositoryMark, OneMoreMark
<1> QED  BY <1>2, <1>3, <1>9 DEF Sound

LEMMA SoundRepository ==
  ASSUME CliTypeOK, Sound, CreateRepository
  PROVE  Sound'
<1> DEFINE c == session.cwd
           P == session.project
<1>0. session.at = "repository" /\ c \in Checkouts /\ P \in Ids /\ session.repository = Nothing
  BY DEF CreateRepository, CliTypeOK, SessionPhases, LatePhases
<1>1. MarksSound /\ TablesSound  BY DEF Sound
<1>2. /\ Mark(P, Nothing) \in Marks
      /\ Holds(c, Mark(P, Nothing))
  BY <1>0 DEF Holds, Marks, Mark
<1>3. HeldSound(c, Mark(P, Nothing)) /\ AgreesWithAll(c, Mark(P, Nothing))
  BY <1>0, <1>1, <1>2 DEF MarksSound, AgreesWithAll
<1>4. ASSUME NEW r \in Ids \cup {Nothing}, FoundRepository(r),
             HeldSound(c, Mark(P, r)), AgreesWithAll(c, Mark(P, r))
      PROVE  Sound'
  <2>1. RepositoryHeld(c, r) /\ db' = db
    BY <1>4 DEF FoundRepository, RepositoryHeld
  <2> HIDE DEF c
  <2> QED  BY <1>0, <1>4, <2>1, RepositoryFound
<1>5. ASSUME NEW id \in Ids, InsertRepository(id), id \notin RepositoryIds,
             id \in db.deleted \/ RegisteredByUrl = {}, AgreesWithAll(c, Mark(P, id))
      PROVE  Sound'
  <2>1. CASE P \in ProjectIds
    <3>1. RepositoryHeld(c, id)
      BY <1>5, <2>1 DEF InsertRepository, RepositoryHeld
    <3>2. RepositoryInserted(id)
      <4>1. db' = [db EXCEPT !.repositories = @ \cup {[id |-> id, project |-> session.project,
                                                      url |-> session.url]},
                             !.lastId = IF id > @ THEN id ELSE @]
        BY <1>5, <2>1 DEF InsertRepository
      <4>2. db.lastId \in Nat /\ id \in Nat
        BY DEF CliTypeOK, DbTypeOK, Ids
      <4>3. \A r \in db.repositories : r.id # id
        BY <1>5 DEF RepositoryIds
      <4>4. /\ db'.repositories = db.repositories \cup {[id |-> id, project |-> session.project,
                                                         url |-> session.url]}
            /\ db'.projects = db.projects /\ db'.deleted = db.deleted
            /\ db'.lastId = IF id > db.lastId THEN id ELSE db.lastId
        BY <4>1 DEF CliTypeOK, DbTypeOK
      <4> QED  BY <1>5, <2>1, <4>2, <4>3, <4>4 DEF RepositoryInserted
    <3> HIDE DEF c
    <3> QED  BY <1>0, <1>5, <3>1, <3>2, RepositoryAdded
  <2>2. CASE P \notin ProjectIds
    <3>1. session.at # "none" /\ Abort
      BY <1>0, <1>5, <2>2 DEF InsertRepository
    <3>2. StepOnRows  BY <3>1 DEF StepOnRows, InitEnds
    <3> QED  BY <3>2, SoundRowsKept
  <2> QED  BY <2>1, <2>2
<1>6. CASE session.url = Nothing
  BY <1>3, <1>4, <1>6 DEF CreateRepository
<1>7. CASE session.url # Nothing /\ MarkedRepository # Nothing
  <2> DEFINE R == MarkedRepository
  <2>1. /\ session.marker \in Marks /\ Holds(c, session.marker)
        /\ R = session.marker.repository /\ R \in Ids
    BY <1>7 DEF MarkedRepository, Holds, CliTypeOK, SessionTypeOK, Marks
  <2> HIDE DEF R
  <2>2. HeldSound(c, session.marker)
    BY <1>0, <1>1, <2>1 DEF MarksSound
  <2>3. HeldSound(c, Mark(P, R))
    BY <1>3, <2>1, <2>2 DEF HeldSound, Mark
  <2>4. AgreesWithAll(c, Mark(P, R))
    <3> SUFFICES ASSUME NEW d \in Checkouts, NEW n \in Marks, Holds(d, n)
                 PROVE  SameRowSameName(c, Mark(P, R), d, n)
      BY DEF AgreesWithAll
    <3>1. /\ SameRowSameName(c, session.marker, d, n)
          /\ SameRowSameName(c, Mark(P, Nothing), d, n)
      BY <1>0, <1>1, <1>2, <2>1 DEF MarksSound
    <3> QED  BY <2>1, <3>1 DEF SameRowSameName, Mark
  <2>5. CASE R \in RepositoryIds
    BY <1>4, <1>7, <2>1, <2>3, <2>4, <2>5 DEF CreateRepository, R
  <2>6. CASE R \notin RepositoryIds
    <3>1. R \in db.deleted
      BY <1>7, <2>1, <2>2, <2>6 DEF HeldSound, R
    <3>2. InsertRepository(R)
      BY <1>7, <2>6 DEF CreateRepository, R
    <3> QED  BY <1>5, <2>1, <2>4, <2>6, <3>1, <3>2
  <2> QED  BY <2>5, <2>6
<1>8. CASE session.url # Nothing /\ MarkedRepository = Nothing /\ RegisteredByUrl # {}
  <2>1. PICK r \in RegisteredByUrl : FoundRepository(r.id)
    BY <1>8 DEF CreateRepository
  <2>2. r \in db.repositories /\ r.project = P /\ r.id \in Ids
    BY DEF RegisteredByUrl, CliTypeOK, DbTypeOK, Repositories
  <2>3. PICK q \in db.projects : q.id = P
    BY <1>1, <2>2 DEF TablesSound
  <2>4. q.name = NameOf[c]
    BY <1>3, <2>3 DEF HeldSound, Mark
  <2>5. HeldSound(c, Mark(P, r.id))
    <3>1. r.id <= db.lastId /\ r.id \in RepositoryIds
      BY <1>1, <2>2 DEF TablesSound, RepositoryIds
    <3>2. \A s \in db.repositories : s.id = r.id => s = r
      BY <1>1, <2>2 DEF TablesSound
    <3> QED  BY <1>3, <2>2, <3>1, <3>2 DEF HeldSound, Mark
  <2>6. AgreesWithAll(c, Mark(P, r.id))
    <3> SUFFICES ASSUME NEW d \in Checkouts, NEW n \in Marks, Holds(d, n)
                 PROVE  SameRowSameName(c, Mark(P, r.id), d, n)
      BY DEF AgreesWithAll
    <3>1. HeldSound(d, n)  BY <1>1 DEF MarksSound
    <3>2. SameRowSameName(c, Mark(P, Nothing), d, n)
      BY <1>3 DEF AgreesWithAll
    <3>3. n.repository = r.id => NameOf[d] = NameOf[c]
      BY <2>2, <2>3, <2>4, <3>1 DEF HeldSound
    <3> QED  BY <3>2, <3>3 DEF SameRowSameName, Mark
  <2> QED  BY <1>4, <2>1, <2>2, <2>5, <2>6
<1>9. CASE session.url # Nothing /\ MarkedRepository = Nothing /\ RegisteredByUrl = {}
  <2>1. Fresh \in Ids /\ Fresh > db.lastId /\ InsertRepository(Fresh)
    BY <1>9, FreshIsNew DEF CreateRepository
  <2>2. Fresh \notin RepositoryIds
    BY <1>1, <2>1 DEF RepositoryIds, TablesSound, CliTypeOK, DbTypeOK, Repositories, Ids
  <2>3. AgreesWithAll(c, Mark(P, Fresh))
    <3> SUFFICES ASSUME NEW d \in Checkouts, NEW n \in Marks, Holds(d, n)
                 PROVE  SameRowSameName(c, Mark(P, Fresh), d, n)
      BY DEF AgreesWithAll
    <3>1. n.repository # Nothing => n.repository <= db.lastId
      BY <1>1 DEF MarksSound, HeldSound
    <3>2. Fresh # Nothing /\ n.repository # Fresh
      BY <2>1, <3>1, InitAssumption DEF Marks, Ids, CliTypeOK, DbTypeOK
    <3>3. SameRowSameName(c, Mark(P, Nothing), d, n)
      BY <1>3 DEF AgreesWithAll
    <3> QED  BY <3>2, <3>3 DEF SameRowSameName, Mark
  <2> QED  BY <1>5, <1>9, <2>1, <2>2, <2>3
<1> QED  BY <1>6, <1>7, <1>8, <1>9

-----------------------------------------------------------------------------
(* Deletions                                                               *)

LEMMA SoundDeletes ==
  ASSUME CliTypeOK, Sound, OperatorDeletes
  PROVE  Sound'
<1>0. MarksSound /\ TablesSound /\ OneRegistration  BY DEF Sound
<1>1. MarksKept
  BY DEF MarksKept, Holds, OperatorDeletes, DeleteRepository, DeleteProject
<1>2. ASSUME TablesSound', OneRegistration',
             \A c \in Checkouts, m \in Marks : HeldSound(c, m) => HeldSound(c, m)'
      PROVE  Sound'
  BY <1>0, <1>1, <1>2 DEF Sound, MarksSound, MarksKept, SameRowSameName
<1>3. ASSUME NEW x \in db.repositories, DeleteRepository(x)
      PROVE  Sound'
  <2>1. /\ db'.repositories = db.repositories \ {x} /\ db'.deleted = db.deleted \cup {x.id}
        /\ db'.projects = db.projects /\ db'.lastId = db.lastId
    BY <1>3 DEF DeleteRepository, CliTypeOK, DbTypeOK
  <2>2. TablesSound'
    BY <1>0, <2>1 DEF TablesSound
  <2>3. OneRegistration'
    BY <1>0, <2>1 DEF OneRegistration
  <2>4. ASSUME NEW c \in Checkouts, NEW m \in Marks, HeldSound(c, m)
        PROVE  HeldSound(c, m)'
    <3>1. m.repository # Nothing => m.repository \in RepositoryIds' \cup db'.deleted
      BY <2>1, <2>4 DEF HeldSound, RepositoryIds
    <3> QED  BY <2>1, <2>4, <3>1 DEF HeldSound
  <2> QED  BY <1>2, <2>2, <2>3, <2>4
<1>4. ASSUME NEW x \in db.projects, DeleteProject(x)
      PROVE  Sound'
  <2>1. /\ db'.projects = db.projects \ {x} /\ db'.deleted = db.deleted \cup {x.id}
        /\ db'.repositories = db.repositories /\ db'.lastId = db.lastId
        /\ \A r \in db.repositories : r.project # x.id
    BY <1>4 DEF DeleteProject, CliTypeOK, DbTypeOK
  <2>2. TablesSound'
    BY <1>0, <2>1 DEF TablesSound
  <2>3. OneRegistration'
    BY <1>0, <2>1 DEF OneRegistration
  <2>4. ASSUME NEW c \in Checkouts, NEW m \in Marks, HeldSound(c, m)
        PROVE  HeldSound(c, m)'
    BY <2>1, <2>4 DEF HeldSound, RepositoryIds
  <2> QED  BY <1>2, <2>2, <2>3, <2>4
<1> QED  BY <1>3, <1>4 DEF OperatorDeletes

-----------------------------------------------------------------------------
(* The theorems                                                            *)

LEMMA CliInvNext == CliInv /\ [CliNext]_cliVars => CliInv'
<1> SUFFICES ASSUME CliTypeOK, Sound, [CliNext]_cliVars
             PROVE  CliTypeOK' /\ Sound'
  BY DEF CliInv, Sound
<1>1. CliTypeOK'  BY TypeNext
<1>2. CASE CliNext
  <2>1. StepOnRows \/ CreateProject \/ CreateRepository \/ OperatorDeletes
    BY <1>2 DEF CliNext, InitStep, ProcessStep, StepOnRows
  <2> QED  BY <1>1, <2>1, SoundRowsKept, SoundProject, SoundRepository, SoundDeletes
<1>3. CASE UNCHANGED cliVars
  <2>1. StepOnRows  BY <1>3 DEF cliVars, StepOnRows
  <2> QED  BY <1>1, <2>1, SoundRowsKept
<1> QED  BY <1>1, <1>2, <1>3

(* However often `factory init` is killed between two of its writes, run     *)
(* again, run in another clone or started from a lost marker, and whatever   *)
(* the operator deletes in between: the tables stay sound, and every row     *)
(* that a marker file, or the run in progress, refers to exists under the    *)
(* name of its checkout or was deleted.                                      *)
THEOREM CliInvariant == CliSpec => []CliInv
<1>1. CliInit => CliInv
  BY TypeInit, SoundInit DEF CliInv, Sound
<1> QED  BY <1>1, CliInvNext, PTL DEF CliSpec

(* A project is registered once per name and a repository once per project   *)
(* and remote (createRecords), but for a row that was deleted and that an    *)
(* old marker brings back.                                                   *)
THEOREM OneRegistrationHolds == CliSpec => []OneRegistration
<1>1. CliInv => OneRegistration  BY DEF CliInv
<1> QED  BY <1>1, CliInvariant, PTL

(* A marker file names the project of its checkout's name and a repository   *)
(* of that project, unless the project was deleted (runInit, insertProject). *)
THEOREM MarkerNamesItsRowsHolds == CliSpec => []MarkerNamesItsRows
<1>1. CliInv => MarkerNamesItsRows
  <2> SUFFICES ASSUME CliInv, NEW c \in Checkouts, marker[c] # Nothing
               PROVE  /\ \/ [id |-> marker[c].project, name |-> NameOf[c]] \in db.projects
                         \/ marker[c].project \in db.deleted
                      /\ \A r \in db.repositories :
                           r.id = marker[c].repository => \/ r.project = marker[c].project
                                                          \/ marker[c].project \in db.deleted
    BY DEF MarkerNamesItsRows
  <2>1. marker[c] \in Marks /\ Holds(c, marker[c])
    BY DEF CliInv, CliTypeOK, Holds
  <2>2. HeldSound(c, marker[c])
    BY <2>1 DEF CliInv, MarksSound
  <2>3. ASSUME NEW r \in db.repositories, r.id = marker[c].repository,
               [id |-> marker[c].project, name |-> NameOf[c]] \in db.projects
        PROVE  r.project = marker[c].project
    <3>1. PICK p \in db.projects : p.id = r.project
      BY DEF CliInv, TablesSound
    <3>2. p.name = NameOf[c]
      BY <2>2, <2>3, <3>1 DEF HeldSound
    <3> QED  BY <2>3, <3>1, <3>2 DEF CliInv, TablesSound
  <2> QED  BY <2>2, <2>3 DEF HeldSound
<1> QED  BY <1>1, CliInvariant, PTL
=============================================================================
