--------------------------- MODULE MCTaskDiscovery ---------------------------
(* Directories of up to three files: with and without titles, finished     *)
(* ones, two with one reference, two with one base name; an index, if      *)
(* there is one, that lists one of the two references; batches of two.     *)
EXTENDS TaskDiscovery, TLC

CONSTANT none

File(name, ref, titled, status) ==
  [name |-> name, ref |-> ref, titled |-> titled, status |-> status]
FilePool ==
  {File("T1-a.md", "T1", TRUE, "BACKLOG"), File("T1-b.md", "T1", TRUE, "DONE"),
   File("T2.md", "T2", FALSE, "BACKLOG"), File("notes.md", none, TRUE, "DONE")}
MCReferences == {"T1", "T2"}
MCInputs ==
  {i \in [json : BOOLEAN, files : UNION {[1 .. n -> FilePool] : n \in 0 .. 3},
          indexed : BOOLEAN, index : {<<>>, <<"T2">>},
          format : {"backlog", "unknown"}] :
     /\ IF i.json THEN ~i.indexed ELSE i.format = "backlog"
     /\ i.indexed <=> i.index # <<>>}
=============================================================================
