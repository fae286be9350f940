------------------------------ MODULE Cutover -------------------------------
(***************************************************************************)
(* The command that moves v1 to v2 (cb_worker/cutover): it drives the      *)
(* schema upgrade, the import, the backfill of the random pool, the bucket *)
(* export and the meme seeding one after the other, records what each did  *)
(* and goes on.  What a step does inside is the subject of Migrations,     *)
(* Importer, MediaStore and BucketExport; here it is what the step leaves  *)
(* behind and the status it reports.                                       *)
(***************************************************************************)
EXTENDS Naturals

CONSTANTS Settings,  \* the environments an operator may run it in
          Selections, \* what --only and --skip may leave of STEP_ORDER
          MaxRuns

StepOrder == <<"preflight", "schema", "mongo", "random", "bucket", "memes", "verify">>
Steps == {StepOrder[i] : i \in DOMAIN StepOrder}
Place(step) == CHOOSE i \in DOMAIN StepOrder : StepOrder[i] = step
DbSteps == {"mongo", "random", "verify"}
StorageSteps == {"bucket", "memes", "random", "verify"}

Stores == {"durable", "memory", "broken"}
Environment == [pg : BOOLEAN, storage : Stores, mongo : {"none", "one", "both"},
                token : BOOLEAN, dest : Stores \cup {"none"}, checkout : BOOLEAN,
                autoMigrate : BOOLEAN]

CutoverAssumption ==
  Settings \subseteq Environment /\ Selections \subseteq SUBSET Steps /\ MaxRuns \in Nat

VARIABLES moved, \* what v2 holds
          run,   \* the run in progress, or the report of the last one
          runs

vars == <<moved, run, runs>>

\* "pool" is rows of the random pool, "poolBytes" the objects they name.
Parts == {"schema", "mongo", "pool", "poolBytes", "bucket", "memes"}
Statuses == {"ok", "skipped", "failed"}
None == [at |-> "none"]

TypeOK ==
  /\ moved \subseteq Parts
  /\ run = None \/
       /\ run.at \in {"step", "done"} /\ run.dry \in BOOLEAN /\ run.env \in Settings
       /\ run.todo \subseteq run.selected /\ run.selected \in Selections
       /\ run.results \in [run.selected -> Statuses \cup {"none"}]
       /\ run.unlisted \in BOOLEAN /\ run.raised \subseteq run.selected
  /\ runs \in 0..MaxRuns

\* The services may have brought the schema to head before.
Init == moved \in SUBSET {"schema"} /\ run = None /\ runs = 0

-----------------------------------------------------------------------------
\* A step named in --only must have its source; a full run skips it instead.
Start(env, selected, only, dry) ==
  /\ run.at # "step" /\ runs < MaxRuns
  /\ selected # {}
  /\ only => /\ "mongo" \in selected => env.mongo # "none"
             /\ "bucket" \in selected => env.dest # "none"
  /\ runs' = runs + 1
  /\ run' = [at |-> "step", dry |-> dry, env |-> env, selected |-> selected,
             todo |-> selected,
             results |-> [s \in selected |-> "none"], unlisted |-> FALSE, raised |-> {}]
  /\ UNCHANGED moved

\* Of the selected steps that are left, the first in STEP_ORDER.
Turn(step) ==
  run.at = "step" /\ step \in run.todo /\ \A other \in run.todo : Place(step) <= Place(other)

\* The pool and the store are opened once, if a selected step needs them.
NeedsDb == "verify" \in run.selected \/ (run.selected \cap {"mongo", "random"} # {} /\ ~run.dry)

InfraProblem(step) ==
  \/ NeedsDb /\ ~run.env.pg /\ step \in DbSteps /\ ~(step \in {"mongo", "random"} /\ run.dry)
  \/ run.env.storage = "broken" /\ step \in StorageSteps

Record(step, status) ==
  run' = [run EXCEPT !.todo = @ \ {step}, !.results[step] = status]

\* A step whose database or store is not there has nothing to do.
Blocked_Skips(step) ==
  /\ Turn(step) /\ InfraProblem(step)
  /\ Record(step, "skipped")
  /\ UNCHANGED <<moved, runs>>

Blocked(step) ==
  /\ Turn(step) /\ InfraProblem(step)
  /\ Record(step, "failed")
  /\ UNCHANGED <<moved, runs>>

\* Any exception of a step is caught, whatever the step had done by then.
Raises(step) ==
  /\ Turn(step) /\ ~InfraProblem(step)
  /\ run' = [run EXCEPT !.todo = @ \ {step}, !.results[step] = "failed",
                        !.raised = @ \cup {step}]
  /\ UNCHANGED <<moved, runs>>

Does(step) == Turn(step) /\ ~InfraProblem(step)

PreflightFails ==
  \/ ~run.env.pg \/ run.env.mongo = "both" \/ run.env.storage = "broken"
  \/ run.env.storage = "memory" /\ run.selected \cap {"bucket", "memes"} # {}
  \/ ~run.env.checkout /\ "memes" \in run.selected

\* The checks read, v1's bucket too when one is configured; the steps after them
\* run whatever they find.
Preflight ==
  /\ Does("preflight")
  /\ \/ Record("preflight", IF PreflightFails THEN "failed" ELSE "ok")
     \/ run.env.dest # "none" /\ Record("preflight", "failed")
  /\ UNCHANGED <<moved, runs>>

Schema ==
  /\ Does("schema") /\ run.env.pg
  /\ IF run.dry THEN moved' = moved /\ Record("schema", "ok")
     ELSE IF ~run.env.autoMigrate THEN moved' = moved /\ Record("schema", "skipped")
     ELSE moved' = moved \cup {"schema"} /\ Record("schema", "ok")
  /\ UNCHANGED runs

\* A document that is skipped is no failure, a collection that is lost is one;
\* without tables all of them are.
Mongo ==
  /\ Does("mongo")
  /\ CASE run.env.mongo = "none" -> moved' = moved /\ Record("mongo", "skipped")
       [] run.env.mongo = "both" -> moved' = moved /\ Record("mongo", "failed")
       [] run.env.mongo = "one" /\ run.dry -> moved' = moved /\ Record("mongo", "ok")
       [] OTHER -> \/ /\ "schema" \in moved
                      /\ moved' = moved \cup {"mongo"} /\ Record("mongo", "ok")
                   \/ moved' = moved /\ Record("mongo", "failed")
  /\ UNCHANGED runs

\* Each pointer asks the database for its group first, a dry run too; one whose
\* file cannot be had, or whose group is not there, is no failure.
Random ==
  /\ Does("random")
  /\ CASE run.env.mongo = "none" \/ ~run.env.token -> moved' = moved /\ Record("random", "skipped")
       [] run.env.mongo = "both" \/ ~NeedsDb -> moved' = moved /\ Record("random", "failed")
       [] run.env.mongo = "one" /\ run.env.token /\ NeedsDb ->
            /\ run.env.pg /\ "schema" \in moved
            /\ moved' \in {moved} \cup
                 IF run.dry \/ "mongo" \notin moved THEN {}
                 ELSE {moved \cup {"pool"} \cup
                         IF run.env.storage = "durable" THEN {"poolBytes"} ELSE {}}
            /\ Record("random", "ok")
  /\ UNCHANGED runs

\* total_failed() = 0 is a success, a prefix that could not be listed or not.
Bucket ==
  /\ Does("bucket")
  /\ IF run.env.dest = "none" THEN moved' = moved /\ Record("bucket", "skipped")
     ELSE /\ run.env.dest # "broken"
          /\ \/ moved' = moved /\ Record("bucket", "failed")
             \/ \E unlisted \in BOOLEAN :
                  /\ moved' = IF run.dry \/ unlisted \/ run.env.dest = "memory" THEN moved
                              ELSE moved \cup {"bucket"}
                  /\ run' = [run EXCEPT !.todo = @ \ {"bucket"}, !.results["bucket"] = "ok",
                                        !.unlisted = unlisted]
  /\ UNCHANGED runs

Memes ==
  /\ Does("memes")
  /\ \/ /\ ~run.env.checkout \/ (run.env.storage = "memory" /\ ~run.dry)
        /\ moved' = moved /\ Record("memes", "failed")
     \/ /\ run.env.checkout /\ (run.dry \/ run.env.storage = "durable")
        /\ \/ moved' = (IF run.dry THEN moved ELSE moved \cup {"memes"}) /\ Record("memes", "ok")
           \/ moved' = moved /\ Record("memes", "failed")
  /\ UNCHANGED runs

\* Counts; a table that is not there raises.
Verify ==
  /\ Does("verify") /\ "schema" \in moved
  /\ Record("verify", "ok")
  /\ UNCHANGED <<moved, runs>>

Finish ==
  /\ run.at = "step" /\ run.todo = {}
  /\ run' = [run EXCEPT !.at = "done"]
  /\ UNCHANGED <<moved, runs>>

Next ==
  \/ \E env \in Settings, selected \in Selections, only \in BOOLEAN, dry \in BOOLEAN :
       Start(env, selected, only, dry)
  \/ \E step \in Steps : Blocked(step) \/ Raises(step)
  \/ Preflight \/ Schema \/ Mongo \/ Random \/ Bucket \/ Memes \/ Verify \/ Finish

Spec == Init /\ [][Next]_vars

-----------------------------------------------------------------------------
ExitCode == IF \E s \in run.selected : run.results[s] = "failed" THEN 1 ELSE 0

\* A real run that exits 0 has left in v2 what each of its steps is for, unless
\* nothing was configured for the step: no failure of the database, the store or
\* an earlier step passes for a success or for nothing to do.  A bucket prefix
\* that could not be listed is left out, and a destination in memory.
ExitZeroMeansMoved ==
  run.at = "done" /\ ExitCode = 0 /\ ~run.dry =>
    /\ "schema" \in run.selected => "schema" \in moved \/ ~run.env.autoMigrate
    /\ "mongo" \in run.selected => "mongo" \in moved \/ run.env.mongo = "none"
    /\ "memes" \in run.selected => "memes" \in moved
    /\ "bucket" \in run.selected =>
         "bucket" \in moved \/ run.env.dest \in {"none", "memory"} \/ run.unlisted

\* A dry run in an environment where everything answers fails no step.
DryRunSucceeds ==
  run.at = "done" /\ run.dry /\ run.raised = {} /\ "schema" \in moved
    /\ run.env.pg /\ run.env.storage = "durable" /\ run.env.mongo # "both" /\ run.env.checkout
    /\ run.selected \subseteq {"schema", "mongo", "random"}
    => ExitCode = 0
=============================================================================
