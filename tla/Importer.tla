------------------------------ MODULE Importer ------------------------------
(***************************************************************************)
(* The import of v1's Mongo collections into the v2 tables                 *)
(* (importer/runner, loader, mappers), repeated while v1 and v2 both run:  *)
(* for a rehearsal, for the delta, and at the cutover.  A row has the      *)
(* columns that come from v1 and the columns v2 owns.  A child row (a      *)
(* config, rules, an administrator) needs its row of groups, which v2 may  *)
(* delete at any moment (/leave).                                          *)
(***************************************************************************)
EXTENDS Naturals, Sequences, FiniteSets

CONSTANTS Keys,        \* the ids a document may carry
          Collections, \* _COLLECTION_ORDER, a sequence
          Tables,      \* _TABLE_WRITE_ORDER, a sequence
          TablesOf,    \* what a collection's mapper writes
          FkTables,    \* _GROUP_FK_TABLES
          Updating,    \* tables whose update_columns is not empty
          Values,      \* what the v1 columns may hold
          FirstMongo,  \* v1 before the first run
          Bad,         \* a document the mapper cannot use
          Nothing,
          BatchSize,
          MaxEdits, MaxRuns \* bounds on writes by v1 and v2, and on runs

Elems(s) == {s[i] : i \in DOMAIN s}
Cells == Elems(Tables) \X Keys
CellsOf(c) == TablesOf[c] \X Keys
Row == [v1 : Values \cup {Nothing}, own : {"default", "edited"}]

ImportAssumption ==
  /\ Collections \in Seq(Elems(Collections)) /\ Tables \in Seq(Elems(Tables))
  /\ TablesOf \in [Elems(Collections) -> SUBSET Elems(Tables)]
  /\ \A c, d \in Elems(Collections) : c # d => TablesOf[c] \cap TablesOf[d] = {}
  /\ FkTables \subseteq Elems(Tables) /\ "groups" \in Elems(Tables) \ FkTables
  /\ Updating \subseteq Elems(Tables)
  /\ FirstMongo \in [Cells -> Values \cup {Bad, Nothing}]
  /\ {Bad, Nothing} \cap Values = {} /\ Bad # Nothing /\ Nothing \notin Row
  /\ BatchSize \in Nat \ {0} /\ MaxEdits \in Nat /\ MaxRuns \in Nat

VARIABLES mongo,   \* what v1 says of each table and key
          rows,    \* the v2 tables
          run,     \* the import in progress
          edits, runs,
          edited,  \* history: rows whose v2 columns were written and not deleted since
          settled  \* history: cells a run that lost no collection of theirs has brought

vars == <<mongo, rows, run, edits, runs, edited, settled>>

NewRow(v) == [v1 |-> v, own |-> "default"]
Idle == [at |-> "idle"]

TypeOK ==
  /\ mongo \in [Cells -> Values \cup {Bad, Nothing}]
  /\ rows \in [Cells -> Row \cup {Nothing}]
  /\ run = Idle \/
       /\ run.at \in {"read", "stubs", "batch"} /\ run.dry \in BOOLEAN
       /\ run.todo \cup run.lost \subseteq run.asked
       /\ run.asked \subseteq Elems(Collections)
       /\ DOMAIN run.pending \cup run.touched \subseteq Cells
       /\ run.at # "read" => DOMAIN run.pending # {} /\ run.todo # {}
  /\ edits \in 0..MaxEdits /\ runs \in 0..MaxRuns
  /\ edited \subseteq Cells /\ settled \subseteq Cells

Init ==
  /\ mongo = FirstMongo
  /\ rows = [cell \in Cells |-> Nothing]
  /\ run = Idle /\ edits = 0 /\ runs = 0
  /\ edited = {} /\ settled = {}

-----------------------------------------------------------------------------
\* What v1 and v2 do meanwhile.
Touch(cells) == IF run = Idle THEN run ELSE [run EXCEPT !.touched = @ \cup cells]

V1Writes(cell, v) ==
  /\ edits < MaxEdits /\ v # mongo[cell]
  /\ edits' = edits + 1
  /\ mongo' = [mongo EXCEPT ![cell] = v]
  /\ run' = Touch({cell})
  /\ settled' = settled \ {cell}
  /\ UNCHANGED <<rows, runs, edited>>

\* v2 writes a column of its own in a row that exists.
V2Writes(cell) ==
  /\ edits < MaxEdits /\ rows[cell] # Nothing
  /\ edits' = edits + 1
  /\ rows' = [rows EXCEPT ![cell].own = "edited"]
  /\ edited' = edited \cup {cell}
  /\ UNCHANGED <<mongo, run, runs, settled>>

\* ... or a column the import writes too, as the configuration commands do.
V2Overwrites(cell, v) ==
  /\ edits < MaxEdits /\ rows[cell] # Nothing
  /\ edits' = edits + 1
  /\ rows' = [rows EXCEPT ![cell].v1 = v]
  /\ run' = Touch({cell})
  /\ settled' = settled \ {cell}
  /\ UNCHANGED <<mongo, runs, edited>>

\* /leave deletes the group with its children.
Leave(g) ==
  LET gone == ({"groups"} \cup FkTables) \X {g}
  IN  /\ edits < MaxEdits /\ rows[<<"groups", g>>] # Nothing
      /\ edits' = edits + 1
      /\ rows' = [cell \in Cells |-> IF cell \in gone THEN Nothing ELSE rows[cell]]
      /\ run' = Touch(gone)
      /\ edited' = edited \ gone
      /\ settled' = settled \ gone
      /\ UNCHANGED <<mongo, runs>>

-----------------------------------------------------------------------------
Start(asked, dry) ==
  /\ run = Idle /\ runs < MaxRuns
  /\ runs' = runs + 1
  /\ run' = [at |-> "read", dry |-> dry, asked |-> asked,
             todo |-> asked, pending |-> <<>>, lost |-> {}, touched |-> {}]
  /\ UNCHANGED <<mongo, rows, edits, edited, settled>>

First(order, S) ==
  order[CHOOSE i \in DOMAIN order : order[i] \in S /\ \A j \in 1..(i - 1) : order[j] \notin S]

\* The collection being imported: the first that is still to do.
Current == First(Collections, run.todo)

\* The table to write next: the first with rows left.
TableNow(pending) == First(Tables, {cell[1] : cell \in DOMAIN pending})

Proceed(r, pending, afresh) ==
  IF pending = <<>> THEN [r EXCEPT !.at = "read", !.todo = @ \ {Current}, !.pending = pending]
  ELSE [r EXCEPT !.pending = pending,
          !.at = IF afresh /\ TableNow(pending) \in FkTables THEN "stubs" ELSE "batch"]

\* A collection that fails is logged and not reported.
Lose_Unreported(r) == [r EXCEPT !.at = "read", !.todo = @ \ {Current}, !.pending = <<>>]

Lose(r) ==
  [r EXCEPT !.at = "read", !.todo = @ \ {Current}, !.pending = <<>>, !.lost = @ \cup {Current}]

\* Every document is read and mapped before the first row is written; one that
\* the mapper cannot use is skipped.
Read ==
  LET usable == {cell \in CellsOf(Current) : mongo[cell] \in Values}
      fresh  == [run EXCEPT !.touched = @ \ CellsOf(Current)]
  IN  /\ run.at = "read" /\ run.todo # {}
      /\ run' = Proceed(fresh,
                  IF run.dry THEN <<>> ELSE [cell \in usable |-> mongo[cell]], TRUE)
      /\ UNCHANGED <<mongo, rows, edits, runs, edited, settled>>

\* Only keys that groups has a document of get a row of groups.
Stubs_OfDocuments ==
  LET needed == {<<"groups", cell[2]>> :
                   cell \in {d \in DOMAIN run.pending : d[1] = TableNow(run.pending)}}
  IN  /\ run.at = "stubs"
      /\ rows' = [cell \in Cells |-> IF cell \in needed /\ rows[cell] = Nothing
                                        /\ mongo[cell] \in Values
                                     THEN NewRow(Nothing) ELSE rows[cell]]
      /\ run' = [run EXCEPT !.at = "batch"]
      /\ UNCHANGED <<mongo, edits, runs, edited, settled>>

\* ensure_group_stubs, once per table.
Stubs ==
  LET needed == {<<"groups", cell[2]>> :
                   cell \in {d \in DOMAIN run.pending : d[1] = TableNow(run.pending)}}
  IN  /\ run.at = "stubs"
      /\ rows' = [cell \in Cells |-> IF cell \in needed /\ rows[cell] = Nothing
                                     THEN NewRow(Nothing) ELSE rows[cell]]
      /\ run' = [run EXCEPT !.at = "batch"]
      /\ UNCHANGED <<mongo, edits, runs, edited, settled>>

HasGroup(cell) == cell[1] \in FkTables => rows[<<"groups", cell[2]>>] # Nothing

\* Every column is reasserted.
Upsert_AllColumns(row, cell, v) == NewRow(v)

Upsert(row, cell, v) ==
  IF row = Nothing THEN NewRow(v)
  ELSE IF cell[1] \in Updating THEN [row EXCEPT !.v1 = v] ELSE row

\* One executemany, all or nothing; a missing group fails it, and with it the
\* collection.
Batch(batch) ==
  LET left == {cell \in DOMAIN run.pending : cell[1] = TableNow(run.pending)}
      rest == [cell \in DOMAIN run.pending \ batch |-> run.pending[cell]]
  IN  /\ run.at = "batch"
      /\ batch \subseteq left
      /\ Cardinality(batch) = IF Cardinality(left) < BatchSize THEN Cardinality(left)
                              ELSE BatchSize
      /\ IF \A cell \in batch : HasGroup(cell)
         THEN /\ rows' = [cell \in Cells |-> IF cell \in batch
                            THEN Upsert(rows[cell], cell, run.pending[cell]) ELSE rows[cell]]
              /\ run' = Proceed(run, rest, batch = left)
         ELSE rows' = rows /\ run' = Lose(run)
      /\ UNCHANGED <<mongo, edits, runs, edited, settled>>

\* The collection cannot be read, or the database fails.
Fails ==
  /\ run # Idle /\ run.todo # {}
  /\ run' = Lose(run)
  /\ UNCHANGED <<mongo, rows, edits, runs, edited, settled>>

Finish ==
  /\ run.at = "read" /\ run.todo = {}
  /\ settled' = IF run.dry THEN settled ELSE settled \cup
       {cell \in UNION {CellsOf(c) : c \in run.asked \ run.lost} :
          mongo[cell] \in Values /\ cell \notin run.touched}
  /\ run' = Idle
  /\ UNCHANGED <<mongo, rows, edits, runs, edited>>

Kill ==
  /\ run # Idle
  /\ run' = Idle
  /\ UNCHANGED <<mongo, rows, edits, runs, edited, settled>>

Next ==
  \/ \E cell \in Cells, v \in Values \cup {Bad, Nothing} : V1Writes(cell, v)
  \/ \E cell \in Cells : V2Writes(cell) \/ \E v \in Values : V2Overwrites(cell, v)
  \/ \E g \in Keys : Leave(g)
  \/ \E asked \in SUBSET Elems(Collections) \ {{}}, dry \in BOOLEAN : Start(asked, dry)
  \/ run # Idle /\ (Read \/ Stubs \/ Finish)
  \/ run # Idle /\ \E batch \in SUBSET DOMAIN run.pending : Batch(batch)
  \/ Fails \/ Kill

Spec == Init /\ [][Next]_vars

-----------------------------------------------------------------------------
\* When a run reports no collection as lost, every usable document of the
\* collections it was asked for is in v2 (with v1's values where the import
\* owns them), however the runs before it ended, and stays there through every
\* later run, until v1 or v2 changes it (runner.run_import).
ReportedIsThere ==
  \A cell \in settled :
    /\ rows[cell] # Nothing
    /\ cell[1] \in Updating => rows[cell].v1 = mongo[cell]

\* No run undoes what v2 wrote in a column of its own (loader's contract).
V2OwnedSurvives ==
  \A cell \in edited : rows[cell] # Nothing /\ rows[cell].own = "edited"

\* A child row never fails for want of its group, except when the group was
\* deleted under the run's feet (ensure_group_stubs).
StubsSuffice ==
  run.at = "batch" =>
    \A cell \in DOMAIN run.pending :
      cell[1] = TableNow(run.pending) => HasGroup(cell) \/ cell \in run.touched
=============================================================================
