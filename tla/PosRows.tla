------------------------------ MODULE PosRows ------------------------------
(***************************************************************************)
(* The generic surface over one row of one entity, looked at through one   *)
(* of its columns.                                                         *)
(*                                                                         *)
(* A clerk creates the row, reads it, replaces it (PUT) or changes a       *)
(* column (PATCH); the module's own verbs write the same row with SQL.     *)
(* The generic service reads the row, changes it in memory, checks its     *)
(* rules and stores the whole row later: what is stored in a column the    *)
(* clerk did not touch is what was read.                                   *)
(*                                                                         *)
(* What a column holds: one of its enumeration, or a good value, an empty  *)
(* text, one beyond its bounds, nothing, what a default fills in, what a   *)
(* verb wrote; and, when the row is stored, a key another row holds, a     *)
(* reference to no row, a number of more digits than the column has.       *)
(***************************************************************************)
EXTENDS PosTables
CONSTANT Clerks

VARIABLES focus,  \* the entity and the column looked at, and how the module is mounted
          cell,   \* what the column holds; Missing when there is no row
          job     \* what each clerk has in hand
rowVars == <<focus, cell, job>>

Missing == "missing"
NoJob == [kind |-> "none"]
Kinds == {"none", "seen", "post", "put", "patch"}

Focus == PosModule[focus.entity]
Column == focus.column
Is(columns) == Column \in columns

\* What a deployment mounts: everything, the reads, or the validated verbs with the
\* reads of six entities.
Mounts == {"all", "readonly", "guarded"}
Edited == focus.mount = "all"
GuardedReads == {"profile", "opening_entry", "invoice", "floor_plan", "table", "discount"}
Readable == focus.mount = "guarded" => focus.entity \in GuardedReads
----------------------------------------------------------------------------
\* The good values a request can send, and what a default fills in.
Good == IF Is(DOMAIN Focus.enums) THEN Focus.enums[Column].values ELSE {"this", "that"}
Filled == IF Is(DOMAIN Focus.enums) THEN Focus.enums[Column].start ELSE "filled"
Nothing == IF Is(Focus.columns.optional) THEN {"null"} ELSE {}
Bad == (IF Is(Focus.columns.text) THEN {"blank"} ELSE {})
         \cup (IF Is(Focus.checks.bounded) THEN {"beyond"} ELSE {})

\* What no rule of a service looks at, and the table refuses.
Key == <<focus.entity, Column>>
Unruled == (IF Key \in UniqueKeys THEN {"taken"} ELSE {})
             \cup (IF Key \in References THEN {"stray"} ELSE {})
             \cup (IF Is(Focus.table.numbers) THEN {"wide"} ELSE {})
Sendable == Good \cup Bad \cup Nothing \cup Unruled
Cells == Sendable \cup {Filled, "null", "made", Missing}

\* A required column holds something, a bounded one nothing beyond its bounds.
Meets(r, v) == /\ Is(r.required) => v \notin {"blank", "null"}
               /\ Is(r.bounded) => v # "beyond"

(***************************************************************************)
(* The guard of the service: a create answers to every rule; an update     *)
(* only to the rules of what it changes, and it changes no state.          *)
(***************************************************************************)
Passes(before, after) ==
  \/ after = before
  \/ /\ Meets(Focus.rules, after)
     /\ Is(Focus.rules.state) => before = Missing

\* Mutant: the tables do not watch over the states of their rows.
DbTakesAnyMove(now, after) ==
  /\ Is(Focus.table.notnull) => after # "null"
  /\ Meets(Focus.checks, after)
  /\ after \notin Unruled

(***************************************************************************)
(* What the table takes: NOT NULL, the CHECKs, the unique indexes, the     *)
(* foreign keys, the digits of a number, and the trigger that knows the    *)
(* moves of a state.                                                       *)
(***************************************************************************)
DbTakes(now, after) ==
  /\ Is(Focus.table.notnull) => after # "null"
  /\ Meets(Focus.checks, after)
  /\ after \notin Unruled
  /\ \/ now \in {Missing, after}
     \/ ~Is(Focus.rules.state)
     \/ <<now, after>> \in Focus.moves
----------------------------------------------------------------------------
RowsInit ==
  /\ focus \in UNION {[entity : {e}, column : Every(PosModule[e].columns), mount : Mounts] :
                       e \in Entities}
  /\ cell = Missing
  /\ job = [c \in Clerks |-> NoJob]

Start(c, j) == /\ Edited
               /\ job[c].kind \in {"none", "seen"}
               /\ Passes(j.before, j.after)
               /\ job' = [job EXCEPT ![c] = j]
               /\ UNCHANGED <<focus, cell>>

\* A create: what the body carries, a default for what it may leave out, and what
\* the conversion fills in or leaves empty.
Post(c) ==
  /\ cell = Missing
  /\ \E v \in IF Is(Focus.bodies.post)
                THEN Sendable \cup (IF Is(Focus.bodies.spared) THEN {Filled} ELSE {})
              ELSE IF Is(Focus.fresh.filled) THEN {Filled} ELSE {"null"} :
       Start(c, [kind |-> "post", sent |-> v, was |-> Missing, before |-> Missing,
                 after |-> v])

\* A row built in process goes to the table without the rules.
Build ==
  /\ cell = Missing
  /\ \E v \in Good \cup (IF Is(Focus.built) THEN {}
                          ELSE IF Is(Focus.columns.optional) THEN {"null"} ELSE {Filled}) :
       DbTakes(Missing, v) /\ cell' = v
  /\ UNCHANGED <<focus, job>>

\* A clerk reads the row, to change it and send it back.
Get(c) ==
  /\ Readable
  /\ job[c].kind = "none"
  /\ cell # Missing
  /\ job' = [job EXCEPT ![c] = [kind |-> "seen", was |-> cell]]
  /\ UNCHANGED <<focus, cell>>

\* What the clerk read of the column: an empty or a hidden column is not in the answer.
Read(c) == IF Is(Focus.shown) THEN job[c].was ELSE "null"

\* A replace.  What the body leaves out is emptied, or the body is refused.
Put(c) ==
  /\ cell # Missing
  /\ \E v \in (IF Is(Focus.bodies.put) THEN Sendable ELSE {})
              \cup (IF job[c].kind = "seen" THEN {"kept"} ELSE {}) :
       LET body == IF v = "kept" THEN Read(c) ELSE v
           taken == Is(Focus.bodies.put) /\ Is(Focus.applied) /\ ~Is(Focus.kept.protected)
       IN /\ Is(Focus.bodies.put) /\ Is(Focus.columns.needed) => body # "null"
          /\ Start(c, [kind |-> "put", sent |-> v, before |-> cell,
                       was |-> IF v = "kept" THEN job[c].was ELSE Missing,
                       after |-> IF taken THEN body ELSE cell])

\* A change of this column, or of another one.
Patch(c) ==
  /\ cell # Missing
  /\ \E v \in Sendable \cup {"kept"} :
       LET taken == v # "kept" /\ Is(Focus.patched) /\ ~Is(Focus.kept.protected)
       IN Start(c, [kind |-> "patch", sent |-> v, was |-> Missing, before |-> cell,
                    after |-> IF taken THEN v ELSE cell])

\* The store of the whole row; the table may refuse it.
Store(c) ==
  /\ job[c].kind \in {"post", "put", "patch"}
  /\ job[c].kind = "post" <=> cell = Missing
  /\ DbTakes(cell, job[c].after)
  /\ cell' = job[c].after
  /\ job' = [job EXCEPT ![c] = NoJob]
  /\ UNCHANGED focus

\* The request fails: it dies, or the table refuses the row, for one with a key that was
\* free when it was sent.
GiveUp(c) ==
  /\ job[c] # NoJob
  /\ job' = [job EXCEPT ![c] = NoJob]
  /\ UNCHANGED <<focus, cell>>

\* What a verb inserts: what its statement names, which may be a key that is taken or a
\* sum too wide, and the table's default for the rest.
VerbInserts(i) ==
  IF Is({"status"}) THEN {i.status}
  ELSE IF Is(i.columns) THEN {"made"} \cup Unruled
  ELSE IF Is(Focus.table.defaulted) THEN {"filled"} ELSE {"null"}
VerbInsert ==
  /\ cell = Missing
  /\ \E i \in Focus.inserts : \E v \in VerbInserts(i) : DbTakes(Missing, v) /\ cell' = v
  /\ UNCHANGED <<focus, job>>

VerbWrite ==
  /\ cell # Missing
  /\ Is(Focus.writes)
  /\ cell' = "made"
  /\ UNCHANGED <<focus, job>>

\* A move of a status names the status it moves from.
VerbMove ==
  /\ Is({"status"})
  /\ \E m \in Focus.verbs : cell = m[1] /\ DbTakes(cell, m[2]) /\ cell' = m[2]
  /\ UNCHANGED <<focus, job>>

RowsNext ==
  \/ \E c \in Clerks : Post(c) \/ Get(c) \/ Put(c) \/ Patch(c) \/ Store(c) \/ GiveUp(c)
  \/ Build \/ VerbInsert \/ VerbWrite \/ VerbMove

RowsSpec == RowsInit /\ [][RowsNext]_rowVars
----------------------------------------------------------------------------
RowsTypeOK ==
  /\ Is(Every(Focus.columns))
  /\ cell \in Cells
  /\ \A c \in Clerks : job[c].kind \in Kinds
       /\ job[c].kind \in {"post", "put", "patch"} => job[c].after \in Cells \ {Missing}

(***************************************************************************)
(* All that the table refuses of a row the service let pass, unless the    *)
(* row changed between the read and the store, and of the insert of a      *)
(* verb, is a key another row holds, a reference to no row or a number of  *)
(* too many digits: never a CHECK, a NOT NULL or the move of a state.  The *)
(* rules of the services and the CHECKs are generated apart and may drift. *)
(***************************************************************************)
RulesCoverTheChecks ==
  /\ \A c \in Clerks : job[c].kind \in {"post", "put", "patch"} /\ job[c].before = cell
       => job[c].after \in Unruled \/ DbTakes(cell, job[c].after)
  /\ \A i \in Focus.inserts : \A v \in VerbInserts(i) :
       v \in Unruled \/ DbTakes(Missing, v)

(***************************************************************************)
(* A PUT or a PATCH that was let pass stores what it sent in a column that *)
(* may be edited; and a clerk who reads a row, changes something else and  *)
(* sends it back stores this column as it was.                             *)
(***************************************************************************)
EditsDoWhatTheySay ==
  \A c \in Clerks : job[c].kind \in {"put", "patch"} =>
    IF job[c].sent # "kept"
    THEN Is(Focus.kept.protected) \/ job[c].after = job[c].sent
    ELSE job[c].was \in {Missing, job[c].before} => job[c].after = job[c].before

(***************************************************************************)
(* The status of a ticket, a session or a register moves only as a verb    *)
(* moves it, even when an edit that read the row before the verb stores it *)
(* after.                                                                  *)
(***************************************************************************)
StateMovesForward ==
  [][Is(Focus.rules.state) /\ cell # Missing => <<cell, cell'>> \in Focus.verbs]_cell
============================================================================
