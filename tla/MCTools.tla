------------------------------ MODULE MCTools -------------------------------
(* One model-checking instance for the programs an operator runs, for what  *)
(* keeps the stores tidy, and for the publisher's fan-out: as in MCServices, *)
(* a behaviour is one `scene' and the pool of variables stands for the       *)
(* component's own.                                                          *)
EXTENDS Integers, Sequences, TLC

CONSTANTS o1, o2, s1, s2,       \* operators and service accounts
          a, b, x, y, z,        \* paths and contents of v1's bucket
          g, h, g1, g2, f1, f2, \* groups, file ids
          clip, pic,
          p1, p2,               \* channels, each with a post; or groups
          c1, c2,               \* commands
          was, new1, new2, job,
          Null, Bad

VARIABLES scene, v1, v2, v3, v4, v5, v6, v7, v8, v9, v10, v11, v12, v13, v14, v15,
  v16, v17

pool == <<v1, v2, v3, v4, v5, v6, v7, v8, v9, v10, v11, v12, v13, v14, v15, v16, v17>>
all == <<scene, pool>>

Account == INSTANCE ExportAccount WITH
  Operators <- {o1, o2}, Accounts <- {s1, s2}, Teams <- {"team"}, GrantTries <- 2,
  VerifyTries <- 2, MaxEdits <- 1, NoAccount <- Null,
  accounts <- v1, seen <- v2, granted <- v3, effective <- v4, policy <- v5, cmd <- v6,
  stamps <- v7, foreign <- v8, ready <- v9, revoked <- v10, elsewhere <- v11

\* A path under each of two prefixes, one of them a folder's placeholder; two
\* contents of one size and one of another, so that a change may or may not
\* show in a listing.
Bucket == INSTANCE BucketExport WITH
  Names <- {a, b}, Prefixes <- {"Custom/", "Death"},
  PrefixOf <- (a :> "Custom/") @@ (b :> "Death"),
  ExtOf <- (a :> ".png") @@ (b :> ""), Placeholders <- {b}, Contents <- {x, y, z},
  SizeOf <- (x :> 1) @@ (y :> 1) @@ (z :> 2), FirstBucket <- (a :> x) @@ (b :> z),
  MaxEdits <- 1, Nothing <- Null,
  bucket <- v1, store <- v2, manifest <- v3, torn <- v4, run <- v5, catalog <- v6,
  edits <- v7, vouched <- v8, unseen <- v9

\* A collection with a child table of its own, one whose documents may lack a
\* group, and one that is never updated.
TheTables == <<"groups", "group_configs", "group_admins", "blacklist">>
TheMongo == [cell \in {TheTables[i] : i \in 1..4} \X {g, h} |->
  CASE cell \in {<<"groups", h>>, <<"group_admins", h>>} -> Null
    [] cell = <<"blacklist", h>> -> Bad
    [] OTHER -> x]
Import == INSTANCE Importer WITH
  Keys <- {g, h}, Collections <- <<"groups", "configs", "blacklist">>,
  Tables <- TheTables,
  TablesOf <- ("groups" :> {"groups", "group_admins"}) @@ ("configs" :> {"group_configs"})
                @@ ("blacklist" :> {"blacklist"}),
  FkTables <- {"group_configs", "group_admins"},
  Updating <- {"groups", "group_configs", "group_admins"},
  Values <- {x, y}, FirstMongo <- TheMongo, BatchSize <- 1, MaxEdits <- 1, MaxRuns <- 2,
  Nothing <- Null,
  mongo <- v1, rows <- v2, run <- v3, edits <- v4, runs <- v5, edited <- v6, settled <- v7

\* Two replicas of one release, one of the release before, and a job.
Schema == INSTANCE Migrations WITH
  Procs <- {was, new1, new2}, Jobs <- {job},
  HeadOf <- (was :> 2) @@ (new1 :> 3) @@ (new2 :> 3) @@ (job :> 3), First <- 1,
  Nothing <- Null,
  revision <- v1, holder <- v2, pc <- v3, begun <- v4, astray <- v5

\* A complete environment, and others that each lack one thing.
Full == [pg |-> TRUE, storage |-> "durable", mongo |-> "one", token |-> TRUE,
         dest |-> "durable", checkout |-> TRUE, autoMigrate |-> TRUE]
TheSettings ==
  {Full, [Full EXCEPT !.pg = FALSE], [Full EXCEPT !.storage = "broken"],
   [Full EXCEPT !.storage = "memory"], [Full EXCEPT !.mongo = "none", !.dest = "none"],
   [Full EXCEPT !.token = FALSE], [Full EXCEPT !.autoMigrate = FALSE]}
EveryStep == {"preflight", "schema", "mongo", "random", "bucket", "memes", "verify"}
Cut == INSTANCE Cutover WITH
  Settings <- TheSettings, MaxRuns <- 2,
  Selections <- {EveryStep, EveryStep \ {"verify"}, {"bucket", "memes", "verify"}},
  moved <- v1, run <- v2, runs <- v3

\* A clip in two groups, whose v1 pointers have a path of no known suffix, so that
\* the backfill stores it as a photo ...
Media == INSTANCE MediaStore WITH
  Groups <- {g1, g2}, FileIds <- {f1}, Hashes <- {clip}, Kinds <- {"photo", "video"},
  Bytes <- (f1 :> clip), LiveKind <- (f1 :> "video"), PathKind <- (f1 :> "photo"),
  Messages <- {<<g1, f1>>}, Pointers <- {<<g1, f1>>, <<g2, f1>>},
  Handlers <- {"gateway"}, Backfill <- "backfill", SweepLimit <- 1, NoRow <- Null,
  groups <- v1, rows <- v2, blobs <- v3, store <- v4, call <- v5, listed <- v6,
  todo <- v7, raced <- v8, unregistered <- v9

\* ... and two gateways pooling a clip and a picture while sweeps run.
Pool == INSTANCE MediaStore WITH
  Groups <- {g1}, FileIds <- {f1, f2}, Hashes <- {clip, pic},
  Kinds <- {"photo", "video"}, Bytes <- (f1 :> clip) @@ (f2 :> pic),
  LiveKind <- (f1 :> "video") @@ (f2 :> "photo"), PathKind <- [f \in {f1, f2} |-> "photo"],
  Messages <- {<<g1, f1>>, <<g1, f2>>}, Pointers <- {},
  Handlers <- {o1, o2}, Backfill <- "backfill", SweepLimit <- 2, NoRow <- Null,
  groups <- v1, rows <- v2, blobs <- v3, store <- v4, call <- v5, listed <- v6,
  todo <- v7, raced <- v8, unregistered <- v9

\* Posts of two channels approved, into a group that takes one campaign, by two
\* jobs at once ...
Posts(ways) == {[ways |-> ways, key |-> p, origin |-> p, chat |-> g1] : p \in {p1, p2}}
Approvals == INSTANCE Publisher WITH
  Groups <- {g1}, Jobs <- {o1, o2}, Ticks <- {}, TickLimit <- 1,
  Submissions <- Posts({"publish", "linked"}),
  DayOptions <- {1}, RepostDays <- {1}, MaxPosts <- 1, MaxRows <- 2, MaxReposts <- 0,
  MaxSubmitted <- 2,
  Faults <- FALSE, DaysPass <- FALSE, Gone <- Null,
  pending <- v1, offered <- v2, asked <- v3, consent <- v4, rows <- v5, made <- v6,
  reposts <- v7, job <- v8, tick <- v9, submitted <- v10, lost <- v11, granted <- v12,
  sent <- v13, ended <- v14, crowded <- v15, spent <- v16, again <- v17

\* ... or by one that can be cut short and run again, over and over.
Reruns == INSTANCE Publisher WITH
  Groups <- {g1}, Jobs <- {"job"}, Ticks <- {}, TickLimit <- 1,
  Submissions <- Posts({"publish"}),
  DayOptions <- {1}, RepostDays <- {1}, MaxPosts <- 1, MaxRows <- 4, MaxReposts <- 0,
  MaxSubmitted <- 2,
  Faults <- TRUE, DaysPass <- FALSE, Gone <- Null,
  pending <- v1, offered <- v2, asked <- v3, consent <- v4, rows <- v5, made <- v6,
  reposts <- v7, job <- v8, tick <- v9, submitted <- v10, lost <- v11, granted <- v12,
  sent <- v13, ended <- v14, crowded <- v15, spent <- v16, again <- v17

\* Two events of a member in two groups, over two nights.
Rollups == INSTANCE Statistics WITH
  Groups <- {p1, p2}, Users <- {"ana"},
  Interactions <- {[type |-> "message", command |-> Null, outcome |-> "error"],
                   [type |-> "command", command |-> c1, outcome |-> "ok"],
                   [type |-> "command", command |-> c2, outcome |-> "ok"],
                   [type |-> "captcha", command |-> Null, outcome |-> "issued"]},
  DefaultDays <- 2, MaxDays <- 2, MaxLimit <- 2, LastDay <- 2, MaxEvents <- 2,
  Nothing <- Null,
  day <- v1, known <- v2, buffer <- v3, events <- v4, stats <- v5, usage <- v6,
  due <- v7, job <- v8, made <- v9, owed <- v10

ASSUME
  /\ Rollups!StatisticsAssumption
  /\ Account!ExportAssumption /\ Bucket!BucketAssumption /\ Import!ImportAssumption
  /\ Schema!MigrationAssumption /\ Cut!CutoverAssumption /\ Media!MediaAssumption /\ Pool!MediaAssumption

-----------------------------------------------------------------------------
ToolsInit ==
  \/ /\ scene = "account" /\ Account!Init
     /\ v12 = 0 /\ v13 = 0 /\ v14 = 0 /\ v15 = 0 /\ v16 = 0 /\ v17 = 0
  \/ /\ scene = "bucket" /\ Bucket!Init
     /\ v10 = 0 /\ v11 = 0 /\ v12 = 0 /\ v13 = 0 /\ v14 = 0 /\ v15 = 0 /\ v16 = 0 /\ v17 = 0
  \/ /\ scene = "import" /\ Import!Init
     /\ v8 = 0 /\ v9 = 0 /\ v10 = 0 /\ v11 = 0 /\ v12 = 0 /\ v13 = 0 /\ v14 = 0
     /\ v15 = 0 /\ v16 = 0 /\ v17 = 0
  \/ /\ scene = "schema" /\ Schema!Init
     /\ v6 = 0 /\ v7 = 0 /\ v8 = 0 /\ v9 = 0 /\ v10 = 0 /\ v11 = 0 /\ v12 = 0
     /\ v13 = 0 /\ v14 = 0 /\ v15 = 0 /\ v16 = 0 /\ v17 = 0
  \/ /\ scene = "cutover" /\ Cut!Init
     /\ v4 = 0 /\ v5 = 0 /\ v6 = 0 /\ v7 = 0 /\ v8 = 0 /\ v9 = 0 /\ v10 = 0
     /\ v11 = 0 /\ v12 = 0 /\ v13 = 0 /\ v14 = 0 /\ v15 = 0 /\ v16 = 0 /\ v17 = 0
  \/ /\ scene = "media" /\ Media!Init
     /\ v10 = 0 /\ v11 = 0 /\ v12 = 0 /\ v13 = 0 /\ v14 = 0 /\ v15 = 0 /\ v16 = 0 /\ v17 = 0
  \/ /\ scene = "pool" /\ Pool!Init
     /\ v10 = 0 /\ v11 = 0 /\ v12 = 0 /\ v13 = 0 /\ v14 = 0 /\ v15 = 0 /\ v16 = 0 /\ v17 = 0
  \/ /\ scene = "approvals" /\ Approvals!Init
  \/ /\ scene = "reruns" /\ Reruns!Init
  \/ /\ scene = "rollups" /\ Rollups!Init
     /\ v11 = 0 /\ v12 = 0 /\ v13 = 0 /\ v14 = 0 /\ v15 = 0 /\ v16 = 0 /\ v17 = 0

ToolsNext ==
  /\ UNCHANGED scene
  /\ \/ scene = "account" /\ Account!Next /\ UNCHANGED <<v12, v13, v14, v15, v16, v17>>
     \/ scene = "bucket" /\ Bucket!Next /\ UNCHANGED <<v10, v11, v12, v13, v14, v15, v16, v17>>
     \/ scene = "import" /\ Import!Next /\ UNCHANGED <<v8, v9, v10, v11, v12, v13, v14, v15, v16, v17>>
     \/ scene = "schema" /\ Schema!Next /\ UNCHANGED <<v6, v7, v8, v9, v10, v11, v12, v13, v14, v15, v16, v17>>
     \/ scene = "cutover" /\ Cut!Next /\ UNCHANGED <<v4, v5, v6, v7, v8, v9, v10, v11, v12, v13, v14, v15, v16, v17>>
     \/ scene = "media" /\ Media!Next /\ UNCHANGED <<v10, v11, v12, v13, v14, v15, v16, v17>>
     \/ scene = "pool" /\ Pool!Next /\ UNCHANGED <<v10, v11, v12, v13, v14, v15, v16, v17>>
     \/ scene = "approvals" /\ Approvals!Next
     \/ scene = "reruns" /\ Reruns!Next
     \/ scene = "rollups" /\ Rollups!Next /\ UNCHANGED <<v11, v12, v13, v14, v15, v16, v17>>

ToolsSpec == ToolsInit /\ [][ToolsNext]_all

\* Groups, or channels, are swapped for themselves; all else that comes in two
\* alike at once.
Others == {o1, o2, s1, s2, c1, c2}
Swap ==
  {p \in Permutations(Others \cup {p1, p2}) :
     /\ p[p1] \in {p1, p2}
     /\ \/ \A m \in Others : p[m] = m
        \/ /\ p[o1] = o2 /\ p[o2] = o1 /\ p[s1] = s2
           /\ p[s2] = s1 /\ p[c1] = c2 /\ p[c2] = c1}

-----------------------------------------------------------------------------
\* A service account that is ready works, one that was revoked under its own
\* project is gone, and no other team's binding is touched: ReadyIsUsable,
\* RevokedIsGone, NothingDropped (gcp_auth.py). What the manifest and the catalogs promise is in the store, and
\* an exit code of 0 means it was exported: NothingPromisedIsMissing,
\* ExitZeroIsExported (bucket_export/runner.py).
ExportsHold ==
  /\ scene = "account" => /\ Account!TypeOK /\ Account!NothingDropped
                          /\ Account!ReadyIsUsable /\ Account!RevokedIsGone
  /\ scene = "bucket" => /\ Bucket!TypeOK /\ Bucket!NothingPromisedIsMissing
                         /\ Bucket!ExitZeroIsExported

\* A blob that was exported is not turned into a failure by a later run.
ExportIsKept == [][scene = "bucket" => Bucket!KeptOrTried]_all

\* What an import or a cutover reports as moved is in v2, and what v2 owns
\* survives it: ReportedIsThere, V2OwnedSurvives, StubsSuffice (importer/), and
\* ExitZeroMeansMoved (cutover/runner.py). Nobody serves on an older schema than
\* its code, and one upgrade runs under the lock: ServesAtHead, OneLockedUpgrade
\* (migrations.py).
MovesHold ==
  /\ scene = "import" => /\ Import!TypeOK /\ Import!ReportedIsThere
                         /\ Import!V2OwnedSurvives /\ Import!StubsSuffice
  /\ scene = "cutover" => Cut!TypeOK /\ Cut!ExitZeroMeansMoved
  /\ scene = "schema" => Schema!TypeOK /\ Schema!ServesAtHead /\ Schema!OneLockedUpgrade

\* Every reference names an object in the store and every object can be
\* collected: RowServed, Accounted (storage/media.py).
MediaHolds ==
  /\ scene = "media" => Media!TypeOK /\ Media!RowServed /\ Media!Accounted
  /\ scene = "pool" => Pool!TypeOK /\ Pool!RowServed /\ Pool!Accounted

\* A channel has one campaign in a group, of two jobs at once and of one that is
\* run again: CampaignsSound (jobs/publisher.py, scheduled_posts.py).
CampaignsHold ==
  /\ scene = "approvals" => Approvals!CampaignsSound
  /\ scene = "reruns" => Reruns!CampaignsSound

\* Approvals that overlap or run again never leave a group more than max_posts
\* rows, and a job run again finds the post it was queued for: CapRespected,
\* RerunFindsPost (jobs/publisher.py, scheduled_posts.py).
ApprovalsHold ==
  /\ scene = "approvals" => Approvals!CapRespected /\ Approvals!RerunFindsPost
  /\ scene = "reruns" => Reruns!CapRespected /\ Reruns!RerunFindsPost

\* The nightly rollups count what was there when they began and no more than
\* happened, and the screens drawn from them agree: StatisticsHold (worker
\* main.py, platform_analytics.py).
RollupsHold == scene = "rollups" => Rollups!TypeOK /\ Rollups!StatisticsHold
=============================================================================
