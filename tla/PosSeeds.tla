------------------------------ MODULE PosSeeds ------------------------------
(***************************************************************************)
(* pos-seeder: it fills the tables of a fresh database from one file per   *)
(* entity, in the order of its seeders.                                    *)
(*                                                                         *)
(* A seeder whose table holds rows already is skipped unless --force is    *)
(* given; a file goes to the database as one implicit transaction; the     *)
(* first failure ends the run.  The files of the repository are templates: *)
(* which of them a deployment has filled in is chosen at the start, such   *)
(* that every row finds its parents in the file of the parent.             *)
(***************************************************************************)
EXTENDS PosTables, Integers

VARIABLES files,   \* the files that hold rows
          seeded,  \* the tables their rows are in
          seeder   \* the run: who is to run still, its arguments, how it went
seedVars == <<files, seeded, seeder>>

Parents(e) == PosModule[e].kept.parents
Order(e) == PosModule[e].seed
Complete(fs) == \A e \in fs : Parents(e) \subseteq fs

\* What a filter on the names of the seeders selects: all, some that share a word, one.
Filters == {Entities, {"invoice", "invoice_item"}, {"opening_entry", "closing_entry"}}
             \cup {{e} : e \in Entities}
NoRun == [todo |-> {}, all |-> TRUE, force |-> FALSE, failed |-> FALSE]
----------------------------------------------------------------------------
SeedsInit ==
  /\ files \in {fs \in SUBSET Entities : Complete(fs) /\ {"discount", "manager_pin"} \subseteq fs}
  /\ seeded = {}
  /\ seeder = NoRun

Seed(filter, force) ==
  /\ seeder = NoRun
  /\ seeder' = [todo |-> filter, all |-> filter = Entities, force |-> force, failed |-> FALSE]
  /\ UNCHANGED <<files, seeded>>

First(e) == e \in seeder.todo /\ \A f \in seeder.todo : Order(e) <= Order(f)
Done(e) == seeder' = [seeder EXCEPT !.todo = @ \ {e}]
Fails == seeder' = [seeder EXCEPT !.failed = TRUE, !.todo = {}]

\* The table holds rows, and the run is not forced.
Skip(e) ==
  /\ First(e) /\ e \in seeded /\ ~seeder.force
  /\ Done(e)
  /\ UNCHANGED <<files, seeded>>

\* The file runs: a row without its parent fails all of it.
Run(e) ==
  /\ First(e) /\ e \notin seeded
  /\ IF e \in files /\ ~(Parents(e) \subseteq seeded)
     THEN Fails /\ UNCHANGED seeded
     ELSE Done(e) /\ seeded' = seeded \cup ({e} \cap files)
  /\ UNCHANGED files

\* A forced run repeats a file: its keys are there already, unless it names none.
Repeat(e) ==
  /\ First(e) /\ e \in seeded /\ seeder.force
  /\ Done(e) \/ Fails
  /\ UNCHANGED <<files, seeded>>

\* The run is over, or dies between two files.
Stops ==
  /\ seeder # NoRun
  /\ seeder' = NoRun
  /\ UNCHANGED <<files, seeded>>

SeedsNext ==
  \/ \E filter \in Filters, force \in BOOLEAN : Seed(filter, force)
  \/ \E e \in Entities : Skip(e) \/ Run(e) \/ Repeat(e)
  \/ Stops

SeedsSpec == SeedsInit /\ [][SeedsNext]_seedVars
----------------------------------------------------------------------------
SeedsTypeOK ==
  /\ Complete(files) /\ seeded \subseteq files
  /\ seeder.todo \subseteq Entities

(***************************************************************************)
(* A run over all the seeders finds the parents of every row, whatever     *)
(* runs, filtered, forced, failed or cut short, came before it.            *)
(***************************************************************************)
SeedsFindTheirParents == seeder.failed => seeder.force \/ ~seeder.all
=============================================================================
