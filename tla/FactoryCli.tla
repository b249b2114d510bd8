----------------------------- MODULE FactoryCli -----------------------------
(* The command line of the factory: `factory init`, run in several          *)
(* checkouts, and `factory start`, on one database.                         *)
EXTENDS FactoryInit, FactoryProcess

cliVars == <<initVars, processVars>>

CliInit == InitInit /\ ProcessInit

InitStep == /\ \/ \E c \in Checkouts : RunInit(c) \/ GitRemoteAdded(c) \/ MarkerLost(c)
               \/ Migrate \/ CreateProject \/ CreateRepository \/ HandleTaskImport
               \/ SetupStarterConfiguration \/ WriteMarker \/ InitEnds
            /\ UNCHANGED processVars

\* The start migrates the database that init uses.
StartMigrates == /\ proc = "migrating"
                 /\ db' = RunMigrations(EnsureFactoryHome(db))
                 /\ \/ proc' = "creating" /\ exitCode' = exitCode
                    \/ Exit(1)
                 /\ Unmoved /\ UNCHANGED <<marker, remote, session, inits>>

\* Deletions through the API of a process that runs.
OperatorDeletes == /\ proc \in {"running", "draining"}
                   /\ \/ \E r \in db.repositories : DeleteRepository(r)
                      \/ \E p \in db.projects : DeleteProject(p)
                   /\ UNCHANGED processVars

ProcessStep == /\ \/ RunStart \/ CreateApp \/ Listen \/ KilledEarly
                  \/ HandleSignal \/ Drain \/ DrainUnreadable \/ CloseApp
                  \/ \E w \in Workers : \/ Dispatch(w) \/ Spawn(w) \/ Heartbeat(w)
                                        \/ Finish(w) \/ ChildEnds(w)
               /\ UNCHANGED initVars

CliNext == InitStep \/ StartMigrates \/ OperatorDeletes \/ ProcessStep

\* The event loop serves the timer of the drain, and closing ends.
CliSpec == /\ CliInit /\ [][CliNext]_cliVars
           /\ WF_cliVars(Drain /\ UNCHANGED initVars)
           /\ WF_cliVars(CloseApp /\ UNCHANGED initVars)
-----------------------------------------------------------------------------

(* Runs of init that are killed anywhere, run again, started from a lost     *)
(* marker or from another clone register a project once per name and a       *)
(* repository once per project and remote (createRecords).  Only a row that  *)
(* was deleted and that an old marker brings back can stand beside another.  *)
OneRegistration ==
  /\ \A p, q \in db.projects : p.name = q.name => p = q
  /\ \A r, s \in db.repositories : r.project = s.project /\ r.url = s.url
                                      => r = s \/ {r.id, s.id} \cap db.deleted # {}

(* The marker file names a project that was registered under the checkout's  *)
(* name, unless it was deleted since, and a repository of that very project, *)
(* unless the project was deleted: what later runs find by the marker is     *)
(* what the checkout is (runInit, insertProject).                            *)
MarkerNamesItsRows ==
  \A c \in Checkouts : marker[c] # Nothing =>
    /\ \/ [id |-> marker[c].project, name |-> NameOf[c]] \in db.projects
       \/ marker[c].project \in db.deleted
    /\ \A r \in db.repositories :
         r.id = marker[c].repository => \/ r.project = marker[c].project
                                        \/ marker[c].project \in db.deleted

(* A drain ends: however long workers hold their leases, the process is down *)
(* after the timeout (drain, setupShutdownHandlers).                         *)
ShutdownEnds == proc = "draining" ~> proc = "down"
=============================================================================
