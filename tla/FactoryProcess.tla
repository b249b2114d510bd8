--------------------------- MODULE FactoryProcess ---------------------------
(* `factory start`: the process that migrates the database, creates the     *)
(* application, listens, and on SIGINT or SIGTERM drains and closes.  A     *)
(* second signal stops it at once.                                          *)
EXTENDS Naturals, FiniteSets

CONSTANTS Workers,        \* the workers that the automation may run
          DrainPolls,     \* polls of two seconds that fit the drain timeout
          MaxStarts       \* bound on the starts of the process

ASSUME ProcessAssumption == DrainPolls \in Nat /\ MaxStarts \in Nat

VARIABLES proc,      \* phase of the process
          exitCode,  \* how the last process ended
          elapsed,   \* polls since the drain began
          lease,     \* lease[w]: the lease row of the worker
          child,     \* child[w]: does its Copilot process run?
          childPids, \* the set that the force stop kills
          starts
processVars == <<proc, exitCode, elapsed, lease, child, childPids, starts>>

Phases == {"down", "migrating", "creating", "listening", "running", "draining", "closing"}
ACTIVE_LEASE_STATES == {"STARTING", "RUNNING", "HEARTBEATING", "COMPLETING"}

ProcessInit == /\ proc = "down" /\ exitCode = 0 /\ elapsed = 0 /\ starts = 0
               /\ lease = [w \in Workers |-> "none"]
               /\ child = [w \in Workers |-> FALSE]
               /\ childPids = {}

Unmoved == UNCHANGED <<elapsed, lease, child, childPids, starts>>
Exit(code) == proc' = "down" /\ exitCode' = code

\* resolveOptions refuses a bad port before anything is done.
RunStart == /\ proc = "down" /\ starts < MaxStarts
            /\ proc' = "migrating" /\ starts' = starts + 1
            /\ UNCHANGED <<exitCode, elapsed, lease, child, childPids>>

\* The web UI is served when its build exists, and the start goes on without.
CreateApp == /\ proc = "creating" /\ Unmoved
             /\ \/ proc' = "listening" /\ exitCode' = exitCode
                \/ Exit(1)

\* Listening runs the module hooks first, so the automation is already at
\* work when the port turns out to be taken.
Listen == /\ proc = "listening" /\ Unmoved
          /\ \/ proc' = "running" /\ exitCode' = exitCode
             \/ Exit(1)

\* Until the handlers are installed, a signal kills the process.
KilledEarly == /\ proc \in {"migrating", "creating", "listening"}
               /\ Exit(1) /\ Unmoved
-----------------------------------------------------------------------------
(* The automation, modelled in WorkerLifecycle: here only what shutdown sees.*)
Automated == proc \in {"listening", "running", "draining"}

Dispatch(w) == /\ Automated /\ lease[w] = "none"
               /\ lease' = [lease EXCEPT ![w] = "LEASED"]
               /\ UNCHANGED <<proc, exitCode, elapsed, child, childPids, starts>>

\* Dispatches in flight go on while the application closes.  Nothing adds
\* the process to childPids.
Spawn(w) == /\ (Automated \/ proc = "closing") /\ lease[w] = "LEASED"
            /\ lease' = [lease EXCEPT ![w] = "STARTING"]
            /\ child' = [child EXCEPT ![w] = TRUE]
            /\ UNCHANGED <<proc, exitCode, elapsed, childPids, starts>>

Heartbeat(w) == /\ Automated /\ child[w]
                /\ lease' = [lease EXCEPT ![w] = IF @ = "STARTING" THEN "HEARTBEATING" ELSE @]
                /\ UNCHANGED <<proc, exitCode, elapsed, child, childPids, starts>>

Finish(w) == /\ Automated /\ lease[w] \in ACTIVE_LEASE_STATES
             /\ lease' = [lease EXCEPT ![w] = "none"]
             /\ child' = [child EXCEPT ![w] = FALSE]
             /\ UNCHANGED <<proc, exitCode, elapsed, childPids, starts>>

\* A child may end by itself at any time, the process that ran it gone or not.
ChildEnds(w) == /\ child[w] /\ child' = [child EXCEPT ![w] = FALSE]
                /\ UNCHANGED <<proc, exitCode, elapsed, lease, childPids, starts>>
-----------------------------------------------------------------------------
CountActiveLeases == Cardinality({w \in Workers : lease[w] \in ACTIVE_LEASE_STATES})

ForceKillChildren == child' = [w \in Workers |-> child[w] /\ w \notin childPids]

\* The handler of SIGINT and SIGTERM.
HandleSignal ==
  \/ /\ proc = "running"
     /\ proc' = "draining" /\ elapsed' = 0
     /\ UNCHANGED <<exitCode, lease, child, childPids, starts>>
  \/ /\ proc \in {"draining", "closing"}
     /\ ForceKillChildren /\ Exit(1)
     /\ UNCHANGED <<elapsed, lease, childPids, starts>>

DrainFault == /\ proc = "draining"
              /\ proc' = IF CountActiveLeases = 0 THEN "closing" ELSE proc
              /\ UNCHANGED <<exitCode, elapsed, lease, child, childPids, starts>>
\* One round of the loop in drain().
Drain == /\ proc = "draining"
         /\ IF CountActiveLeases = 0 \/ elapsed >= DrainPolls
              THEN proc' = "closing" /\ elapsed' = elapsed
              ELSE proc' = proc /\ elapsed' = elapsed + 1
         /\ UNCHANGED <<exitCode, lease, child, childPids, starts>>

\* A database that cannot be read counts as one without leases.
DrainUnreadable == /\ proc = "draining" /\ proc' = "closing"
                   /\ exitCode' = exitCode /\ Unmoved

\* app.close() and the flush of the traces; an error of either is exit code 1.
CloseApp == proc = "closing" /\ (Exit(0) \/ Exit(1)) /\ Unmoved
=============================================================================
