----------------------------- MODULE MCServices -----------------------------
(* One model-checking instance for the components of the gateway, the API    *)
(* and the workers that share no state: a behaviour is one component, the    *)
(* `scene', running alone. The pool of variables stands for the component's  *)
(* own, in the order it declares them, and is 0 where it has fewer.          *)
(* Six components are extended rather than instantiated: the theorems of     *)
(* ServicesProofs and this instance then speak of the same definitions.      *)
EXTENDS SigningKeys, Paging, Breaker, EventRecorder, Access, Members, Integers, TLC

CONSTANTS a1, a2, a3, r1, r2, k1, k2, x1, x2, x3, x4, Null

VARIABLES scene, v1, v2, v3, v4, v5, v6, v7, v8, v9, v10, v11

pool == <<v1, v2, v3, v4, v5, v6, v7, v8, v9, v10, v11>>
own == <<vars, walkVars, breakerVars, recorderVars, accessVars, membersVars>>
all == <<scene, own, pool>>

Actors == {a1, a2}
Replicas == {r1, r2}
TheReplicas == (a1 :> r1) @@ (a2 :> r2)

TheAdmins == INSTANCE AdminList WITH
  Callers <- Actors, ReplicaOf <- TheReplicas, TTL1 <- 1, TTL2 <- 1, Flight <- 1,
  MaxChanges <- 1, MaxTime <- 3, Nobody <- Null,
  now <- v1, truth <- v2, gone <- v3, l1 <- v4, l2 <- v5, persisted <- v6,
  call <- v7, lag <- v8

\* A sweep and a /birthday of the same day ...
Birthdays == INSTANCE FanOut WITH
  Groups <- {"g1", "g2"}, FunOff <- {}, Sweeps <- {"sweep"}, Broadcasts <- {},
  Manual <- {"manual"}, ManualIn <- [m \in {"manual"} |-> "g1"], Workers <- Actors,
  All <- "all", MaxKills <- 1,
  begun <- v1, queue <- v2, at <- v3, pinned <- v4, posts <- v5, excused <- v6, kills <- v7

\* ... and a sweep while a broadcast is delivered.
FanOuts == INSTANCE FanOut WITH
  Groups <- {"g1", "g2"}, FunOff <- {}, Sweeps <- {"sweep"}, Broadcasts <- {"bcast"},
  Manual <- {}, ManualIn <- <<>>, Workers <- Actors, All <- "all", MaxKills <- 1,
  begun <- v1, queue <- v2, at <- v3, pinned <- v4, posts <- v5, excused <- v6, kills <- v7

Llm == INSTANCE LlmRouter WITH
  Groups <- {"g"}, Calls <- {a1}, Refresher <- "refresher", Cap <- 1,
  DaysPerMonth <- 2, LastDay <- 2, MaxSpent <- 2, None <- Null,
  groups <- v1, call <- v2, today <- v3, usage <- v4, daily <- v5, rolled <- v6,
  cached <- v7, spent <- v8, complete <- v9

Consoles == INSTANCE Console WITH
  People <- {"ana"}, Columns <- {"sfw"}, Rules <- "rules", Values <- {0, 1},
  Default <- 0, Requests <- Actors, MaxWrites <- 2,
  versions <- v1, request <- v2, trail <- v3, lost <- v4, silent <- v5

\* One born on the 29th of February and one on the 1st of January, over the end
\* of a year and of the Februaries of a leap year and of another.
Calendar == INSTANCE BirthdayCalendar WITH
  Persons <- {"leo", "ana"}, Groups <- {"g"},
  Born <- ("leo" :> <<2, 29>>) @@ ("ana" :> <<1, 1>>),
  Starts <- {[y |-> 2027, m |-> 12, d |-> 30], [y |-> 2028, m |-> 2, d |-> 27],
             [y |-> 2027, m |-> 2, d |-> 27]},
  MaxDays <- 3, MaxEvents <- 2,
  today <- v1, nights <- v2, events <- v3, swept <- v4, present <- v5, moved <- v6,
  queue <- v7, pinned <- v8, greeted <- v9, foretold <- v10, excused <- v11

\* A tenant with nothing to say and one with two switches.
TheSettings == INSTANCE GroupSettings WITH
  DefaultLanguage <- "pt",
  Tenants <- {<<>>, ("sfw" :> FALSE) @@ ("publisher_post" :> TRUE)},
  Numbers <- {0, 1, 9999, 1000001}, Words <- {"eng", "portuguese"},
  Widest <- 1000000, MaxWrites <- 2, Nothing <- Null,
  row <- v1, tenant <- v2, free <- v3, last <- v4, writes <- v5

Limits == INSTANCE Cooldowns WITH
  Kinds <- {"bucket", "window", "ledger", "valkey"}, Limit <- 1, Rate <- 1,
  Window <- 2, Keys <- Actors, MaxTime <- 4, MaxCalls <- 5,
  kind <- v1, now <- v2, tokens <- v3, last <- v4, stamps <- v5, used <- v6,
  day <- v7, count <- v8, expiry <- v9, answer <- v10, calls <- v11

\* The updates a bot may get, by what tells them apart: a command ...
Plain == [chat |-> "group", body |-> "text", text |-> "plain", name |-> Null, args |-> "some",
          by |-> "member", to |-> "nothing", cue |-> FALSE, forwarded |-> FALSE]
CommandNames ==
  {"isalive", "privacy", "analysis", "reload", "commands", "config", "rules", "newrules",
   "calladms", "complaint", "death", "dice", "ship", "firecracker", "everyone", "battle",
   "meme", "unearth", "con_bff", "age", "gender", "fortune", "drawingidea", "youtube",
   "birthday", "nextbirthday", "publish", "repost", "deletereposts", "searchsource",
   "destroy", "giveaway", "groups", "leave", "blacklist", "unblacklist", "broadcast",
   "restart", "anything", "newwelcome", "transcribe", "random"}
Command(n) == [Plain EXCEPT !.text = "command", !.name = n]
Commanded ==
  {[Command(n) EXCEPT !.args = args] : n \in CommandNames, args \in {"none", "some"}} \cup
  {[Command(n) EXCEPT !.by = "admin"] : n \in CommandNames} \cup
  {[Command(n) EXCEPT !.chat = "private", !.by = "owner"] : n \in CommandNames} \cup
  {[Command(n) EXCEPT !.to = to] : n \in CommandNames, to \in {"config", "photo", "voice"}} \cup
  {[Command(n) EXCEPT !.args = "many"] : n \in {"ship", "battle", "meme"}} \cup
  {[Command(n) EXCEPT !.cue = TRUE] : n \in CommandNames}
\* ... another text, something sent, somebody arriving, a press.
Written ==
  {[Plain EXCEPT !.text = text, !.by = by, !.to = to] :
     text \in {"plain", "link", "@adm", "@everyone", "folder", "unknown", "other"},
     by \in {"member", "admin", "pending"},
     to \in {"nothing", "bot", "rules", "welcome", "config", "milton", "post"}} \cup
  {[Plain EXCEPT !.text = text, !.cue = TRUE] : text \in {"plain", "link", "unknown"}}
Sent ==
  {[Plain EXCEPT !.body = body, !.text = "none", !.by = by, !.to = to] :
     body \in {"photo", "animation", "sticker", "voice"},
     by \in {"member", "newcomer", "channel"}, to \in {"nothing", "bot", "config"}}
Arrived == {[Plain EXCEPT !.body = "join", !.text = "none", !.args = args] :
              args \in {"us", "bot", "self", "invited"}}
Pressed ==
  {[Plain EXCEPT !.body = "callback", !.text = text, !.args = args] :
     text \in {"config press", "call press", "captcha press"}, args \in {"no", "stale", "some"}}
\* Four ways of the two areas with everything else on, and a group with nothing else.
Guarded(on, fun, utility) ==
  [fun |-> fun, utility |-> utility, restrict |-> on, captcha |-> on, doomlist |-> on,
   ask |-> on, sfw |-> on]
TheDispatch == INSTANCE Dispatch WITH
  Updates <- Commanded \cup Written \cup Sent \cup Arrived \cup Pressed,
  Settings <- {Guarded(TRUE, f, u) : f, u \in BOOLEAN} \cup {Guarded(FALSE, f, f) : f \in BOOLEAN},
  Nothing <- Null,
  update <- v1, config <- v2, seen <- v3, at <- v4, taker <- v5, said <- v6, deeds <- v7,
  jobs <- v8, mark <- v9

\* Two calls for a job the worker knows, or for one it does not.
Queue == INSTANCE JobQueue WITH
  Calls <- Actors, Sent <- {"COMPOSE_MEME", "YOUTUBE_SEARCH"}, MaxJobs <- 1, MaxTries <- 2,
  MaxKills <- 2, Nothing <- Null,
  pool <- v1, live <- v2, opened <- v3, closing <- v4, call <- v5, job <- v6, cut <- v7,
  ran <- v8, stray <- v9, kills <- v10

\* Two bots of one gateway, or one of the other services.
Life == INSTANCE Lifecycle WITH
  Skins <- {"s1", "s2"}, Handlers <- Actors, MaxEvents <- 3,
  process <- v1, open <- v2, poller <- v3, busy <- v4, buffered <- v5, events <- v6, late <- v7

\* Two jobs of any kinds in a worker that distorts one picture at a time.
Answers == INSTANCE AnswerJobs WITH
  Jobs <- Actors,
  Kinds <- {"source", "image", "video", "meme", "distortion", "song", "call"},
  Chat <- "chat", Admins <- {"ana", "bo"}, Roster <- <<"ana", "bo", "cy", "dee">>,
  Unnamed <- {"bo"}, Tags <- <<"cy", "cy">>,
  Templates <- {[language |-> "Portuguese", count |-> 1], [language |-> "English", count |-> 2],
                [language |-> "English", count |-> 3]},
  Language <- "Portuguese", MaxBlobs <- 3, Candidates <- 2, Bound <- 1, MaxKills <- 1,
  kind <- v1, step <- v2, left <- v3, faces <- v4, tried <- v5, shown <- v6, excess <- v7,
  permits <- v8, kills <- v9

ASSUME
  /\ Queue!QueueAssumption /\ Calendar!CalendarAssumption /\ TheSettings!SettingsAssumption
  /\ Answers!JobsAssumption /\ TheDispatch!DispatchAssumption
  /\ TheAdmins!AdminListAssumption /\ Life!LifecycleAssumption
  /\ FanOuts!FanOutAssumption /\ Birthdays!FanOutAssumption
  /\ Llm!LlmAssumption /\ RecorderAssumption /\ Consoles!ConsoleAssumption
  /\ PagingAssumption /\ Limits!CooldownAssumption

-----------------------------------------------------------------------------
\* What rests in a scene that is not its own starts in one way.
KeysRest == Init /\ kid = [p \in Processes |-> k1]
WalkRest == WalkInit /\ table = {} /\ list = "trail"
AccessRest == AccessInit /\ admins = {}
MembersRest == MembersInit /\ present = {}

ServicesInit ==
  /\ \/ /\ scene \in {"keys", "breaker", "recorder", "paging", "access", "members"}
        /\ v1 = 0 /\ v2 = 0 /\ v3 = 0 /\ v4 = 0 /\ v5 = 0 /\ v6 = 0
        /\ v7 = 0 /\ v8 = 0 /\ v9 = 0 /\ v10 = 0 /\ v11 = 0
     \/ /\ scene = "admins" /\ TheAdmins!Init
        /\ v9 = 0 /\ v10 = 0 /\ v11 = 0
     \/ /\ scene = "fanout" /\ FanOuts!Init
        /\ v8 = 0 /\ v9 = 0 /\ v10 = 0 /\ v11 = 0
     \/ /\ scene = "sweep" /\ Birthdays!Init
        /\ v8 = 0 /\ v9 = 0 /\ v10 = 0 /\ v11 = 0
     \/ /\ scene = "llm" /\ Llm!Init
        /\ v10 = 0 /\ v11 = 0
     \/ /\ scene = "console" /\ Consoles!Init
        /\ v6 = 0 /\ v7 = 0 /\ v8 = 0 /\ v9 = 0 /\ v10 = 0 /\ v11 = 0
     \/ /\ scene = "calendar" /\ Calendar!Init
     \/ /\ scene = "settings" /\ TheSettings!Init
        /\ v6 = 0 /\ v7 = 0 /\ v8 = 0 /\ v9 = 0 /\ v10 = 0 /\ v11 = 0
     \/ /\ scene = "cooldowns" /\ Limits!Init
     \/ /\ scene = "queue" /\ Queue!Init
        /\ v11 = 0
     \/ /\ scene = "life" /\ Life!Init
        /\ v8 = 0 /\ v9 = 0 /\ v10 = 0 /\ v11 = 0
     \/ /\ scene = "answers" /\ Answers!Init
        /\ v10 = 0 /\ v11 = 0
     \/ /\ scene = "dispatch" /\ TheDispatch!Init
        /\ v10 = 0 /\ v11 = 0
  /\ BreakerInit /\ RecorderInit
  /\ \/ scene = "keys" /\ Init
     \/ scene # "keys" /\ KeysRest
  /\ \/ scene = "paging" /\ WalkInit
     \/ scene # "paging" /\ WalkRest
  /\ \/ scene = "access" /\ AccessInit
     \/ scene # "access" /\ AccessRest
  /\ \/ scene = "members" /\ MembersInit
     \/ scene # "members" /\ MembersRest

ServicesNext ==
  /\ UNCHANGED scene
  /\ \/ scene = "keys" /\ Next /\ UNCHANGED <<walkVars, breakerVars, recorderVars, accessVars, membersVars, pool>>
     \/ scene = "breaker" /\ BreakerNext /\ UNCHANGED <<vars, walkVars, recorderVars, accessVars, membersVars, pool>>
     \/ scene = "recorder" /\ RecorderNext /\ UNCHANGED <<vars, walkVars, breakerVars, accessVars, membersVars, pool>>
     \/ scene = "paging" /\ WalkNext /\ UNCHANGED <<vars, breakerVars, recorderVars, accessVars, membersVars, pool>>
     \/ scene = "admins" /\ TheAdmins!Next /\ UNCHANGED <<own, v9, v10, v11>>
     \/ scene = "members" /\ MembersNext
          /\ UNCHANGED <<vars, walkVars, breakerVars, recorderVars, accessVars, pool>>
     \/ scene = "fanout" /\ FanOuts!Next /\ UNCHANGED <<own, v8, v9, v10, v11>>
     \/ scene = "sweep" /\ Birthdays!Next /\ UNCHANGED <<own, v8, v9, v10, v11>>
     \/ scene = "llm" /\ Llm!Next /\ UNCHANGED <<own, v10, v11>>
     \/ scene = "console" /\ Consoles!Next /\ UNCHANGED <<own, v6, v7, v8, v9, v10, v11>>
     \/ scene = "calendar" /\ Calendar!Next /\ UNCHANGED <<own>>
     \/ scene = "settings" /\ TheSettings!Next /\ UNCHANGED <<own, v6, v7, v8, v9, v10, v11>>
     \/ scene = "cooldowns" /\ Limits!Next /\ UNCHANGED <<own>>
     \/ scene = "access" /\ AccessNext
          /\ UNCHANGED <<vars, walkVars, breakerVars, recorderVars, membersVars, pool>>
     \/ scene = "queue" /\ Queue!Next /\ UNCHANGED <<own, v11>>
     \/ scene = "life" /\ Life!Next /\ UNCHANGED <<own, v8, v9, v10, v11>>
     \/ scene = "answers" /\ Answers!Next /\ UNCHANGED <<own, v10, v11>>
     \/ scene = "dispatch" /\ TheDispatch!Next /\ UNCHANGED <<own, v10, v11>>

ServicesSpec == ServicesInit /\ [][ServicesNext]_all

\* Everything that comes in twos is swapped at once.
Swap ==
  {p \in Permutations({a1, a2, r1, r2, x1, x2, x3, x4}) :
     \/ \A m \in DOMAIN p : p[m] = m
     \/ /\ p[a1] = a2 /\ p[a2] = a1 /\ p[r1] = r2 /\ p[r2] = r1
        /\ p[x1] = x2 /\ p[x2] = x1 /\ p[x3] = x4 /\ p[x4] = x3}

-----------------------------------------------------------------------------
Typed ==
  /\ scene = "keys" => TypeOK
  /\ scene = "admins" => TheAdmins!TypeOK
  /\ scene = "members" => MembersTyped
  /\ scene = "fanout" => FanOuts!TypeOK
  /\ scene = "sweep" => Birthdays!TypeOK
  /\ scene = "llm" => Llm!TypeOK
  /\ scene = "breaker" => BreakerTypeOK
  /\ scene = "recorder" => RecorderTyped
  /\ scene = "console" => Consoles!TypeOK
  /\ scene = "calendar" => Calendar!TypeOK
  /\ scene = "settings" => TheSettings!TypeOK
  /\ scene = "paging" => WalkTyped
  /\ scene = "cooldowns" => Limits!TypeOK
  /\ scene = "access" => AccessTyped
  /\ scene = "queue" => Queue!TypeOK
  /\ scene = "life" => Life!TypeOK
  /\ scene = "answers" => Answers!TypeOK
  /\ scene = "dispatch" => TheDispatch!TypeOK

\* What the workers have to say reaches everybody it is for, each once and on the
\* day: NobodyForgotten and PostedOnce (birthday.py, broadcast.py), CalendarHolds
\* (birthdays.py), QueueHolds (queue.py), and what JobsHold says of the jobs that
\* answer a command.
WorkersHold ==
  /\ scene = "fanout" => FanOuts!PostedOnce /\ FanOuts!NobodyForgotten
  /\ scene = "sweep" => Birthdays!PostedOnce /\ Birthdays!NobodyForgotten
  /\ scene = "calendar" => Calendar!CalendarHolds
  /\ scene = "queue" => Queue!QueueHolds
  /\ scene = "answers" => Answers!JobsHold

\* The total calls are refused by is money spent, and all of it: NeverOverstated
\* and NothingUncounted (budget.py).
SpendHolds == scene = "llm" => Llm!NeverOverstated /\ Llm!NothingUncounted

\* A group's settings are what its admins were told, who is an admin is as old as
\* a list can be, and the trail quotes what there was: DemotionBites,
\* TrailIsEvidence and SettingsHold
\* (admins.py, config_menu.py, routers/groups.py).
ConsoleHolds ==
  /\ scene = "admins" => TheAdmins!DemotionBites
  /\ scene = "console" => Consoles!TrailIsEvidence
  /\ scene = "settings" => TheSettings!SettingsHold

\* As the component's module says it, in its scene: limiters keep their limits
\* (cooldowns.py), and an update has one fate (handlers/__init__.py), in a process
\* that is up as a whole (main.py).
LimitsHold == scene = "cooldowns" => Limits!LimitsHold
DispatchHolds ==
  /\ scene = "dispatch" => TheDispatch!DispatchHolds
  /\ scene = "life" => Life!LifecycleHolds

\* The names on the queue are names of functions: EveryJobIsKnown (jobs.py).
EveryJobIsKnown == scene = "queue" => Queue!EveryJobIsKnown

\* The assistant leaves /transcribe to its handler: CommandKept (handlers/__init__.py).
CommandKept == scene = "dispatch" => TheDispatch!CommandKept
=============================================================================
