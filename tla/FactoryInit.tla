----------------------------- MODULE FactoryInit -----------------------------
(* `factory init`: registers the checkout it is run in with the factory.    *)
(* One run detects the project's metadata, migrates the shared database,    *)
(* creates or finds the project and the repository, may import tasks, may   *)
(* insert a starter configuration and writes the marker file.  No           *)
(* transaction spans these writes, and the process may be killed between    *)
(* any two of them and run again.                                           *)
EXTENDS Naturals, FiniteSets

CONSTANTS Checkouts,    \* directories that init is run in
          NameOf,       \* NameOf[c]: the project name that detection finds in c
          Url,          \* the git remote, the same for every clone
          Nothing,      \* null
          Latest,       \* the number of migrations in the drizzle folder
          MaxIds,       \* bound on the identifiers that randomUUID yields
          MaxInits      \* bound on the runs of init

ASSUME InitAssumption == /\ Latest \in Nat \ {0} /\ MaxIds \in Nat /\ MaxInits \in Nat
                         /\ Nothing \notin 1..MaxIds /\ Nothing # Url

VARIABLES db,        \* the SQLite database in the factory home
          marker,    \* marker[c]: the file .copilot-factory.json in c
          remote,    \* remote[c]: the remote named origin of c
          session,   \* the run of init in progress
          inits      \* the number of runs so far
initVars == <<db, marker, remote, session, inits>>

Ids == 1..MaxIds
Fresh == CHOOSE i \in Ids : i > db.lastId
CanDraw == db.lastId < MaxIds
Projects == [id : Ids, name : {NameOf[c] : c \in Checkouts}]
Repositories == [id : Ids, project : Ids, url : {Url}]
Marks == [project : Ids, repository : Ids \cup {Nothing}]
Tables == {"policySets", "promptTemplates", "pools", "profiles"}
NoSession == [at |-> "none", cwd |-> Nothing, marker |-> Nothing, url |-> Nothing,
              project |-> Nothing, repository |-> Nothing]

ASSUME MarkAssumption == Nothing \notin Marks

InitInit == /\ db = [home |-> FALSE, level |-> 0, projects |-> {}, repositories |-> {},
                     imported |-> FALSE, starter |-> {},
                     lastId |-> 0, deleted |-> {}]
            /\ marker = [c \in Checkouts |-> Nothing]
            /\ remote = [c \in Checkouts |-> Nothing]
            /\ session = NoSession
            /\ inits = 0
-----------------------------------------------------------------------------
EnsureFactoryHome(d) == [d EXCEPT !.home = TRUE]

\* Drizzle applies what the journal table does not list, in one transaction.
RunMigrations(d) == [d EXCEPT !.level = Latest]

\* Each detection falls back to null, except the branch; a missing name or
\* owner is asked for, and an empty answer ends the run.
DetectAll(c) == [projectName |-> NameOf[c], gitRemoteUrl |-> remote[c]]

\* The marker that the run starts from: null when absent, unreadable or not
\* JSON.
ExistingMarker(c) == marker[c]

RunInit(c) ==
  /\ session.at = "none" /\ inits < MaxInits
  /\ session' = [NoSession EXCEPT !.at = "migrate", !.cwd = c,
                                  !.marker = ExistingMarker(c),
                                  !.url = DetectAll(c).gitRemoteUrl]
  /\ inits' = inits + 1
  /\ UNCHANGED <<db, marker, remote>>

Migrate ==
  /\ session.at = "migrate"
  /\ db' = RunMigrations(EnsureFactoryHome(db))
  /\ session' = [session EXCEPT !.at = "project"]
  /\ UNCHANGED <<marker, remote, inits>>

ProjectIds == {p.id : p \in db.projects}
RepositoryIds == {r.id : r \in db.repositories}

InsertProjectFault(id, name) ==
  /\ db' = IF \E p \in db.projects : p.name = name THEN db
           ELSE [db EXCEPT !.projects = @ \cup {[id |-> id, name |-> name]},
                           !.lastId = IF id > @ THEN id ELSE @]
  /\ session' = [session EXCEPT !.at = "repository", !.project = id]

\* INSERT ... ON CONFLICT (name) DO NOTHING, then the row that has the name.
InsertProject(id, name) ==
  LET named == {p \in db.projects : p.name = name}
  IN IF named = {}
       THEN /\ db' = [db EXCEPT !.projects = @ \cup {[id |-> id, name |-> name]},
                                !.lastId = IF id > @ THEN id ELSE @]
            /\ session' = [session EXCEPT !.at = "repository", !.project = id]
       ELSE /\ db' = db
            /\ \E p \in named : session' = [session EXCEPT !.at = "repository",
                                                           !.project = p.id]

\* A project that the marker names is updated in place, else one is inserted,
\* under the marker's identifier if there is one.
CreateProject ==
  /\ session.at = "project"
  /\ IF session.marker # Nothing /\ session.marker.project \in ProjectIds
       THEN /\ session' = [session EXCEPT !.at = "repository",
                                          !.project = session.marker.project]
            /\ db' = db
       ELSE IF session.marker # Nothing
              THEN InsertProject(session.marker.project, NameOf[session.cwd])
              ELSE CanDraw /\ InsertProject(Fresh, NameOf[session.cwd])
  /\ UNCHANGED <<marker, remote, inits>>

Abort == session' = NoSession /\ UNCHANGED <<db, marker, remote, inits>>

\* The foreign key makes the insertion fail when the project is gone.
InsertRepository(id) ==
  IF session.project \in ProjectIds
    THEN /\ db' = [db EXCEPT !.repositories = @ \cup {[id |-> id, project |-> session.project,
                                                       url |-> session.url]},
                             !.lastId = IF id > @ THEN id ELSE @]
         /\ session' = [session EXCEPT !.at = "import", !.repository = id]
         /\ UNCHANGED <<marker, remote, inits>>
    ELSE Abort

FoundRepository(id) == /\ session' = [session EXCEPT !.at = "import", !.repository = id]
                       /\ UNCHANGED <<db, marker, remote, inits>>

\* The rows of the project with the checkout's remote.
RegisteredByUrlFault == {}
RegisteredByUrl == {r \in db.repositories : r.project = session.project /\ r.url = session.url}

MarkedRepository == IF session.marker = Nothing THEN Nothing ELSE session.marker.repository

CreateRepository ==
  /\ session.at = "repository"
  /\ IF session.url = Nothing
       THEN FoundRepository(Nothing)
       ELSE IF MarkedRepository # Nothing
              THEN IF MarkedRepository \in RepositoryIds
                     THEN FoundRepository(MarkedRepository)
                     ELSE InsertRepository(MarkedRepository)
              ELSE IF RegisteredByUrl # {}
                     THEN \E r \in RegisteredByUrl : FoundRepository(r.id)
                     ELSE CanDraw /\ InsertRepository(Fresh)

\* One transaction inserts every task that was discovered, those of an earlier
\* import again; any failure, the repository gone among them, is logged and
\* the run goes on.
HandleTaskImport ==
  /\ session.at = "import"
  /\ \/ /\ session.repository \in RepositoryIds
        /\ db' = [db EXCEPT !.imported = TRUE]
     \/ db' = db
  /\ session' = [session EXCEPT !.at = "starter"]
  /\ UNCHANGED <<marker, remote, inits>>

\* Table by table, each insertion on its own.
StarterOrder == [policySets |-> "promptTemplates", promptTemplates |-> "pools",
                 pools |-> "profiles", profiles |-> "marker"]
SetupStarterConfiguration ==
  /\ \/ session.at = "starter" /\ session' = [session EXCEPT !.at = "marker"] /\ db' = db
     \/ session.at = "starter" /\ session' = [session EXCEPT !.at = "policySets"] /\ db' = db
     \/ /\ session.at \in Tables
        /\ db' = [db EXCEPT !.starter = @ \cup {session.at}]
        /\ session' = [session EXCEPT !.at = StarterOrder[session.at]]
  /\ UNCHANGED <<marker, remote, inits>>

WriteMarker ==
  /\ session.at = "marker"
  /\ marker' = [marker EXCEPT ![session.cwd] = [project |-> session.project,
                                                repository |-> session.repository]]
  /\ session' = NoSession
  /\ UNCHANGED <<db, remote, inits>>

\* Ctrl+C at a prompt, a failed migration, an empty name: the process ends.
InitEnds == session.at # "none" /\ Abort
-----------------------------------------------------------------------------
(* The surroundings. *)
GitRemoteAdded(c) == /\ remote[c] = Nothing
                     /\ remote' = [remote EXCEPT ![c] = Url]
                     /\ UNCHANGED <<db, marker, session, inits>>

\* Removed, or no longer JSON.
MarkerLost(c) == /\ marker[c] # Nothing
                 /\ marker' = [marker EXCEPT ![c] = Nothing]
                 /\ UNCHANGED <<db, remote, session, inits>>

\* The operator deletes rows in the web UI; foreign keys keep a project that
\* has repositories.
DeleteRepository(r) == /\ db' = [db EXCEPT !.repositories = @ \ {r}, !.deleted = @ \cup {r.id}]
                       /\ UNCHANGED <<marker, remote, session, inits>>
DeleteProject(p) == /\ \A r \in db.repositories : r.project # p.id
                    /\ db' = [db EXCEPT !.projects = @ \ {p}, !.deleted = @ \cup {p.id}]
                    /\ UNCHANGED <<marker, remote, session, inits>>
=============================================================================
