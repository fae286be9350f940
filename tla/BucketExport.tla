---------------------------- MODULE BucketExport ----------------------------
(***************************************************************************)
(* The copy of v1's bucket into v2's object storage (bucket_export/runner, *)
(* manifest, keys, source) and the catalogs made from its manifest         *)
(* (catalog.py).  A run may be killed anywhere and started again while v1  *)
(* still writes its bucket; what a run did is told by the manifest alone,  *)
(* of which the last line per source path counts.                         *)
(***************************************************************************)
EXTENDS Naturals, FiniteSets

CONSTANTS Names,        \* source paths
          Prefixes,     \* PREFIXES
          PrefixOf,     \* [Names -> Prefixes]
          ExtOf,        \* the suffix of a path: [Names -> STRING]
          Placeholders, \* paths that end in "/"
          Contents,     \* what a blob may hold
          SizeOf,       \* [Contents -> Nat]
          FirstBucket,  \* the bucket before the first run
          MaxEdits,     \* bound on v1's writes
          Nothing

\* Outcomes "copied" and "skipped" are one: no reader tells them apart.
Entries == [outcome : {"landed"}, size : Nat, content : Contents]
             \cup [outcome : {"failed"}, size : Nat]
Blobs == [name : Names, size : Nat]

BucketAssumption ==
  /\ PrefixOf \in [Names -> Prefixes] /\ ExtOf \in [Names -> STRING]
  /\ Placeholders \subseteq Names
  /\ SizeOf \in [Contents -> Nat]
  /\ FirstBucket \in [Names -> Contents \cup {Nothing}]
  /\ MaxEdits \in Nat
  /\ Nothing \notin Contents \cup Entries \cup Blobs

VARIABLES bucket,   \* v1's bucket
          store,    \* keys in v2's object storage
          manifest, \* the latest line of each path
          torn,     \* the last line was cut short
          run,      \* the run in progress
          catalog,  \* the rows of each catalog file
          edits,    \* how often v1 wrote
          vouched,  \* history: paths a run that exited 0 was asked to export
          unseen    \* history: those of them under a prefix it could not list

vars == <<bucket, store, manifest, torn, run, catalog, edits, vouched, unseen>>

Key(c, n) == <<c, ExtOf[n]>>
Keys == Contents \X {ExtOf[n] : n \in Names}
Idle == [at |-> "idle"]

Landed(entry) == entry # Nothing /\ entry.outcome = "landed"

TypeOK ==
  /\ bucket \in [Names -> Contents \cup {Nothing}]
  /\ store \subseteq Keys
  /\ manifest \in [Names -> Entries \cup {Nothing}]
  /\ torn \in BOOLEAN /\ edits \in 0..MaxEdits
  /\ run = Idle \/
       /\ run.at \in {"list", "examine", "land", "append"}
       /\ run.dry \in BOOLEAN /\ run.failed \in BOOLEAN
       /\ run.todo \cup run.unlisted \subseteq run.asked /\ run.asked \subseteq Prefixes
       /\ run.blobs \subseteq Blobs /\ run.stale \subseteq Names
       /\ run.at \in {"land", "append"} => run.blob \in Blobs
       /\ run.at = "land" => run.data \in Contents
       /\ run.at = "append" => run.entry \in Entries
  /\ catalog \in [Prefixes -> SUBSET (Names \X Keys)]
  /\ unseen \subseteq vouched /\ vouched \subseteq Names

Init ==
  /\ bucket = FirstBucket
  /\ store = {} /\ manifest = [n \in Names |-> Nothing] /\ torn = FALSE
  /\ run = Idle
  /\ catalog = [p \in Prefixes |-> {}]
  /\ edits = 0 /\ vouched = {} /\ unseen = {}

-----------------------------------------------------------------------------
\* v1 puts, replaces or deletes a blob.
V1Writes(n, c) ==
  /\ edits < MaxEdits /\ c # bucket[n]
  /\ bucket' = [bucket EXCEPT ![n] = c]
  /\ edits' = edits + 1
  /\ vouched' = vouched \ {n} /\ unseen' = unseen \ {n}
  /\ run' = IF run = Idle THEN run ELSE [run EXCEPT !.stale = @ \cup {n}]
  /\ UNCHANGED <<store, manifest, torn, catalog>>

\* latest_by_source refuses a malformed line, and with it the whole run.
Start(asked, dry) ==
  /\ run = Idle /\ ~torn
  /\ run' = [at |-> "list", dry |-> dry, asked |-> asked, todo |-> asked,
             blobs |-> {}, blob |-> Nothing, data |-> Nothing, entry |-> Nothing,
             failed |-> FALSE, unlisted |-> {}, stale |-> {}]
  /\ UNCHANGED <<bucket, store, manifest, torn, catalog, edits, vouched, unseen>>

\* The blobs of a prefix are listed before the first of them is copied.
List(p) ==
  /\ run.at = "list" /\ p \in run.todo
  /\ run' = [run EXCEPT !.todo = @ \ {p}, !.at = "examine",
       !.blobs = {[name |-> n, size |-> SizeOf[bucket[n]]] :
                    n \in {m \in Names : PrefixOf[m] = p /\ bucket[m] # Nothing}}]
  /\ UNCHANGED <<bucket, store, manifest, torn, catalog, edits, vouched, unseen>>

\* A prefix that cannot be listed is put among the failures, not counted.
ListFails(p) ==
  /\ run.at = "list" /\ p \in run.todo
  /\ run' = [run EXCEPT !.todo = @ \ {p}, !.unlisted = @ \cup {p}]
  /\ UNCHANGED <<bucket, store, manifest, torn, catalog, edits, vouched, unseen>>

\* A line is trusted whatever the source's size is now.
AlreadyExported_AnySize(blob) ==
  LET prior == manifest[blob.name]
  IN  Landed(prior) /\ Key(prior.content, blob.name) \in store

\* A run resumes nothing.
AlreadyExported_Never(blob) == FALSE

\* An earlier run's line is trusted when the size is still the one listed and
\* the object is still there.
AlreadyExported(blob) ==
  LET prior == manifest[blob.name]
  IN  Landed(prior) /\ prior.size = blob.size /\ Key(prior.content, blob.name) \in store

Resume(blob) ==
  /\ run.at = "examine" /\ blob \in run.blobs
  /\ AlreadyExported(blob)
  /\ run' = [run EXCEPT !.at = "append", !.blob = blob, !.entry = manifest[blob.name]]
  /\ UNCHANGED <<bucket, store, manifest, torn, catalog, edits, vouched, unseen>>

\* The line is written before the object.
Download_LineFirst(blob) ==
  /\ run.at = "examine" /\ blob \in run.blobs
  /\ ~AlreadyExported(blob)
  /\ bucket[blob.name] # Nothing
  /\ manifest' = [manifest EXCEPT ![blob.name] =
       [outcome |-> "landed", size |-> SizeOf[bucket[blob.name]], content |-> bucket[blob.name]]]
  /\ run' = [run EXCEPT !.at = "land", !.blob = blob, !.data = bucket[blob.name]]
  /\ UNCHANGED <<bucket, store, torn, catalog, edits, vouched, unseen>>

Download(blob) ==
  /\ run.at = "examine" /\ blob \in run.blobs
  /\ ~AlreadyExported(blob)
  /\ \/ /\ bucket[blob.name] # Nothing
        /\ run' = [run EXCEPT !.at = "land", !.blob = blob, !.data = bucket[blob.name]]
     \/ run' = [run EXCEPT !.at = "append", !.blob = blob,
                  !.entry = [outcome |-> "failed", size |-> blob.size]]
  /\ UNCHANGED <<bucket, store, manifest, torn, catalog, edits, vouched, unseen>>

\* Nothing is written when the content is there, or in a dry run; an error of
\* the destination is not caught and ends the run (Kill).
Land ==
  /\ run.at = "land"
  /\ store' = IF run.dry THEN store ELSE store \cup {Key(run.data, run.blob.name)}
  /\ run' = [run EXCEPT !.at = "append", !.data = Nothing,
       !.entry = [outcome |-> "landed", size |-> SizeOf[run.data], content |-> run.data]]
  /\ UNCHANGED <<bucket, manifest, torn, catalog, edits, vouched, unseen>>

Append ==
  /\ run.at = "append"
  /\ manifest' = IF run.dry THEN manifest
                 ELSE [manifest EXCEPT ![run.blob.name] = run.entry]
  /\ run' = [run EXCEPT !.at = "examine", !.blobs = @ \ {run.blob}, !.blob = Nothing,
       !.entry = Nothing, !.failed = @ \/ run.entry.outcome = "failed"]
  /\ UNCHANGED <<bucket, store, torn, catalog, edits, vouched, unseen>>

PrefixDone ==
  /\ run.at = "examine" /\ run.blobs = {}
  /\ run' = [run EXCEPT !.at = "list"]
  /\ UNCHANGED <<bucket, store, manifest, torn, catalog, edits, vouched, unseen>>

\* total_failed() counts blobs only; the exit code is 0 when it is 0.
Finish ==
  /\ run.at = "list" /\ run.todo = {}
  /\ LET done == {n \in Names \ run.stale : /\ PrefixOf[n] \in run.asked
                                              /\ bucket[n] # Nothing
                                              /\ ~run.dry /\ ~run.failed}
         blind == {n \in done : PrefixOf[n] \in run.unlisted}
     IN  /\ vouched' = vouched \cup done
         /\ unseen' = (unseen \ (done \ blind)) \cup (blind \ (vouched \ unseen))
  /\ run' = Idle
  /\ UNCHANGED <<bucket, store, manifest, torn, catalog, edits>>

Kill ==
  /\ run # Idle
  /\ torn' \in {FALSE, run.at = "append" /\ ~run.dry}
  /\ run' = Idle
  /\ UNCHANGED <<bucket, store, manifest, catalog, edits, vouched, unseen>>

\* A person removes the line that was cut short.
Repair ==
  /\ torn
  /\ torn' = FALSE
  /\ UNCHANGED <<bucket, store, manifest, run, catalog, edits, vouched, unseen>>

\* build_catalogs and write_catalogs: a file is written for each prefix that
\* has a row, the others stay as they are.
Rows(p) ==
  {<<n, Key(manifest[n].content, n)>> :
     n \in {m \in Names \ Placeholders : PrefixOf[m] = p /\ Landed(manifest[m])}}

WriteCatalogs ==
  /\ ~torn
  /\ catalog' = [p \in Prefixes |-> IF Rows(p) = {} THEN catalog[p] ELSE Rows(p)]
  /\ UNCHANGED <<bucket, store, manifest, torn, run, edits, vouched, unseen>>

Next ==
  \/ \E n \in Names, c \in Contents \cup {Nothing} : V1Writes(n, c)
  \/ \E asked \in SUBSET Prefixes \ {{}}, dry \in BOOLEAN : Start(asked, dry)
  \/ \E p \in Prefixes : run # Idle /\ (List(p) \/ ListFails(p))
  \/ run # Idle /\ \E blob \in run.blobs : Resume(blob) \/ Download(blob)
  \/ run # Idle /\ (Land \/ Append \/ PrefixDone \/ Finish)
  \/ Kill \/ Repair \/ WriteCatalogs

Spec == Init /\ [][Next]_vars

-----------------------------------------------------------------------------
\* verify_manifest: what --verify would object to.
VerifyProblems ==
  {n \in Names : Landed(manifest[n]) /\
     ~ /\ Key(manifest[n].content, n) \in store
       /\ SizeOf[manifest[n].content] = manifest[n].size}

\* However runs are killed and resumed, --verify finds nothing to object to,
\* and no catalog row names an object that is not there (the manifest line is
\* written after the object, runner.py).
NothingPromisedIsMissing ==
  /\ VerifyProblems = {}
  /\ \A p \in Prefixes : \A row \in catalog[p] : row[2] \in store

Exported(n) == Landed(manifest[n]) /\ manifest[n].size = SizeOf[bucket[n]]

\* After a run that exited 0 every blob it was asked for and that v1 has not
\* touched since the run began is exported at the size v1 has, and no later run
\* takes that back; the prefixes that could not be listed are left out.
ExitZeroIsExported == \A n \in vouched \ unseen : Exported(n)

\* A blob that was exported is not turned into a failure by a later run that
\* still lists it at the same size: the flaky download is not even tried
\* (_process_blob).
KeptOrTried ==
  \A n \in Names :
    Landed(manifest[n]) /\ ~Landed(manifest'[n]) => run.blob.size # manifest[n].size
ExportIsKept == [][KeptOrTried]_vars

\* The same of every prefix the run was asked for.
ExitZeroIsComplete == \A n \in vouched : Exported(n)
=============================================================================
